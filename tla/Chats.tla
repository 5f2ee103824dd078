------------------------------- MODULE Chats --------------------------------
(* The stores behind the chat pages: stores/chats.ts and stores/contacts.ts, *)
(* the persistence of boot/pinia.ts, the navigation guard of router/index.ts *)
(* and the page that adds a contact. Between two awaits everything runs      *)
(* without interruption; a call waits in receiveMessages and in refresh for  *)
(* the profile of a contact, in the delete dialog for the relay, on the page *)
(* for a lookup, and a send for its outcome.                                 *)
(*                                                                           *)
(* Data. A message is its digest. The test "lastRead < serverTime" compares  *)
(* two clocks that nothing synchronizes: either outcome is possible.         *)
EXTENDS Naturals, Sequences, FiniteSets, SequencesExt, Subsequence

CONSTANTS
    Addrs,       \* display addresses
    Me,          \* the address of this wallet
    Incoming,     \* messages of others
    Outbound,    \* messages of this wallet
    From,        \* From[m]: the sender of an inbound message
    Batches,       \* the calls of receiveMessages of one process
    undef,       \* the digest of a message that could not be constructed
    none,        \* no address, no key
    MaxRestarts, \* bound on the ends of the process
    MaxClicks    \* bound on what the user does

ASSUME ChatAssumption ==
    /\ Me \in Addrs /\ none \notin Addrs
    /\ undef \notin Incoming \cup Outbound /\ Incoming \cap Outbound = {}
    /\ IsFiniteSet(Incoming) /\ IsFiniteSet(Outbound)
    /\ From \in [Incoming -> Addrs \ {Me}] /\ {MaxRestarts, MaxClicks} \subseteq Nat

VARIABLES
    store,       \* the chat store: messages (the index) and chats
    active,      \* activeChatAddr
    route,       \* the chat on the screen
    contacts,    \* the contact store: the public key known for an address
    refreshing,  \* addresses whose profile is being fetched, not awaited
    calls,       \* receiveMessages: the batch, the message whose contact loads
    sends,       \* sendMessageImpl: destination and progress of a message
    deleting,    \* delete dialogs that wait for the relay
    page,        \* AddContact.vue: address typed, contact found, lookups
    stored,      \* digests in the message store on disk
    restarts, clicks,
    byPage,      \* contacts added by the page with the answer of a lookup
    dropped      \* chats deleted while on the screen

chatVars == <<store, active, route, contacts, refreshing, calls, sends, deleting,
          page, stored, restarts, clicks, byPage, dropped>>

Keys == Incoming \cup Outbound \cup {undef}

\* stores/chats.ts:46-53: a chat before its first message.
NewChat == [list |-> <<>>, unread |-> FALSE]

Idle == [batch |-> <<>>, at |-> 0]
Done == [batch |-> <<>>, at |-> 1]

NewPage == [address |-> none, contact |-> none, lookups |-> {}]

\* The chat a message belongs to.
Coparty(k) == IF k \in Incoming THEN From[k] ELSE sends[k].to

With(f, x, y) == [z \in DOMAIN f \cup {x} |-> IF z = x THEN y ELSE f[z]]

Without(f, x) == [z \in DOMAIN f \ {x} |-> f[z]]

Opened(chats, a) == IF a \in DOMAIN chats THEN chats ELSE With(chats, a, NewChat)

ChatsInit ==
    /\ store = [messages |-> <<>>, chats |-> <<>>]
    /\ active = none
    /\ route = none
    /\ contacts = <<>>
    /\ refreshing = {}
    /\ calls = [r \in Batches |-> Idle]
    /\ sends = [s \in Outbound |-> [to |-> none, at |-> "idle"]]
    /\ deleting = {}
    /\ page = NewPage
    /\ stored = {}
    /\ restarts = 0
    /\ clicks = 0
    /\ byPage = {}
    /\ dropped = {}

-----------------------------------------------------------------------------
(* What the operations of the chat store make of its state.                *)

\* splice(findIndex(...), 1): without a match the position is -1, the last.
Spliced(list, k) ==
    IF k \in ToSet(list) THEN RemoveAt(list, CHOOSE i \in DOMAIN list : list[i] = k)
    ELSE IF list = <<>> THEN list ELSE Front(list)

WithoutMessage(st, a, k) ==
    [messages |-> Without(st.messages, k),
     chats |-> IF a \in DOMAIN st.chats
               THEN [st.chats EXCEPT ![a].list = Spliced(@, k)] ELSE st.chats]

\* sendMessageLocal. No caller passes a previousHash.
SentLocally(st, a, k, status) ==
    IF k \in DOMAIN st.messages
    THEN [st EXCEPT !.messages[k] = status]
    ELSE IF a \notin DOMAIN st.chats /\ a = Me
    THEN st
    ELSE [messages |-> With(st.messages, k, status),
          chats |-> [Opened(st.chats, a) EXCEPT ![a].list = Append(@, k)]]

\* Variant: known messages are added again.
NewPartAll(st, batch) == batch

\* The messages of a batch before the first known one, at which the loop ends.
NewPart(st, batch) ==
    LET known == {i \in DOMAIN batch : batch[i] \in DOMAIN st.messages}
        end == IF known = {} THEN Len(batch) ELSE Min(known) - 1
    IN  SubSeq(batch, 1, end)

\* The loop over the batch; counted: the messages newer than lastRead.
WithBatch(st, batch, counted) ==
    LET new == NewPart(st, batch)
        of(a) == Picked(new, {i \in DOMAIN new : Coparty(new[i]) = a})
        touched == {Coparty(m) : m \in ToSet(new)}
        chat(a) == IF a \in DOMAIN st.chats THEN st.chats[a] ELSE NewChat
        someUnread(a) == a # active /\ ToSet(of(a)) \cap counted # {}
        updated == IF Len(new) < Len(batch) THEN {batch[Len(new) + 1]} ELSE {}
    IN  [messages |-> [m \in DOMAIN st.messages \cup ToSet(new) |->
                        IF m \in ToSet(new) \cup updated THEN "confirmed" ELSE st.messages[m]],
         chats |-> [a \in DOMAIN st.chats \cup touched |->
                      [list |-> chat(a).list \o of(a),
                       unread |-> chat(a).unread \/ someUnread(a)]]]

\* Variant: a chat that exists is opened unread.
ReadAllSkipped(chats, a) == chats

ReadAll(chats, a) ==
    IF a \in DOMAIN chats THEN [chats EXCEPT ![a].unread = FALSE] ELSE chats

Click == clicks < MaxClicks /\ clicks' = clicks + 1

-----------------------------------------------------------------------------
(* Navigation.                                                             *)

\* contacts.refresh: skipped for a contact that has a picture and is recent,
\* never for one that is not loaded.
RefreshStarts(a, go) == a \notin DOMAIN contacts \/ contacts[a] = none => go

\* ensureChatState(address): fetchAndAddContact is given an empty contact and
\* so adds it at once, without a key; then setActiveChat.
ensureChatState(a, known) ==
    /\ route' = a
    /\ active' = a
    /\ contacts' = known
    /\ store' = [store EXCEPT !.chats = Opened(ReadAll(@, a), a)]
    /\ dropped' = dropped \ {a}
    /\ page' = NewPage

Navigate(a) ==
    /\ Click
    /\ route # a
    /\ ensureChatState(a, IF a \in DOMAIN contacts THEN contacts ELSE With(contacts, a, none))
    /\ \E go \in BOOLEAN :
          /\ RefreshStarts(a, go)
          /\ refreshing' = IF go THEN refreshing \cup {a} ELSE refreshing
    /\ UNCHANGED <<calls, sends, deleting, stored, restarts, byPage>>

\* Another page: ensureChatState without an address.
LeaveChat ==
    /\ Click
    /\ route # none
    /\ route' = none
    /\ active' = none
    /\ UNCHANGED <<store, contacts, refreshing, calls, sends, deleting, page,
                   stored, restarts, byPage, dropped>>

\* A click on a notification sets activeChatAddr, and the watcher of App.vue
\* pushes the route: a navigation, unless the chat is on the screen already.
ClickNotification(a) ==
    /\ Click
    /\ route = a
    /\ active # a
    /\ \E m \in Incoming \cap DOMAIN store.messages : From[m] = a
    /\ active' = a
    /\ UNCHANGED <<store, route, contacts, refreshing, calls, sends, deleting,
                   page, stored, restarts, byPage, dropped>>

-----------------------------------------------------------------------------
(* Contacts.                                                               *)

\* Variant: the answer goes to the chat that is open by now.
UpdatedActive(known, a) ==
    IF active \in DOMAIN known THEN [known EXCEPT ![active] = a] ELSE known

\* updateContact: nothing for a contact deleted meanwhile.
Updated(known, a) == IF a \in DOMAIN known THEN [known EXCEPT ![a] = a] ELSE known

RefreshAnswered(a, ok) ==
    /\ a \in refreshing
    /\ refreshing' = refreshing \ {a}
    /\ contacts' = IF ok THEN Updated(contacts, a) ELSE contacts
    /\ UNCHANGED <<store, active, route, calls, sends, deleting, page, stored,
                   restarts, clicks, byPage, dropped>>

\* refreshContacts, after the start of the connections.
RefreshContact(a) ==
    /\ Click
    /\ a \in DOMAIN contacts \ refreshing
    /\ refreshing' = refreshing \cup {a}
    /\ UNCHANGED <<store, active, route, contacts, calls, sends, deleting,
                   page, stored, restarts, byPage, dropped>>

\* The watcher of the address: every change starts a lookup of its own.
TypeAddress(a) ==
    /\ Click
    /\ route = none
    /\ a # page.address
    /\ page' = IF a = none
               THEN [page EXCEPT !.address = none, !.contact = none]
               ELSE [page EXCEPT !.address = a, !.lookups = @ \cup {a}]
    /\ UNCHANGED <<store, active, route, contacts, refreshing, calls, sends,
                   deleting, stored, restarts, byPage, dropped>>

\* The last answer wins, whatever address is typed by now.
LookupAnswered(a, ok) ==
    /\ a \in page.lookups
    /\ page' = [page EXCEPT !.contact = IF ok THEN a ELSE none, !.lookups = @ \ {a}]
    /\ UNCHANGED <<store, active, route, contacts, refreshing, calls, sends,
                   deleting, stored, restarts, clicks, byPage, dropped>>

\* addContact of the page, then openChat.
AddContact ==
    /\ Click
    /\ page.contact # none
    /\ page.address # none
    /\ ensureChatState(page.address, With(contacts, page.address, page.contact))
    /\ byPage' = byPage \cup {page.address}
    /\ \E go \in BOOLEAN :
          refreshing' = IF go THEN refreshing \cup {page.address} ELSE refreshing
    /\ UNCHANGED <<calls, sends, deleting, stored, restarts>>

-----------------------------------------------------------------------------
(* Sending: the events of sendMessageImpl.                                 *)

\* constructMessage succeeded: messageSending.
SendStarts(st, s, a) ==
    /\ sends[s].at = "idle"
    /\ a = Me \/ (a \in DOMAIN contacts /\ contacts[a] # none)
    /\ sends' = [sends EXCEPT ![s] = [to |-> a, at |-> "sending"]]
    /\ store' = SentLocally(st, a, s, "sending")

Send(s) ==
    /\ Click
    /\ route # none
    /\ SendStarts(store, s, route)
    /\ UNCHANGED <<active, route, contacts, refreshing, calls, deleting, page,
                   stored, restarts, byPage, dropped>>

\* constructMessage threw: messageSendError without a digest.
ConstructFails ==
    /\ Click
    /\ route # none
    /\ route = Me \/ (route \in DOMAIN contacts /\ contacts[route] # none)
    /\ store' = SentLocally(store, route, undef, "error")
    /\ UNCHANGED <<active, route, contacts, refreshing, calls, sends,
                   deleting, page, stored, restarts, byPage, dropped>>

\* Variant: a failure after the broadcast is only logged.
SendFailsSilently(s) ==
    /\ sends[s].at = "sending"
    /\ sends' = [sends EXCEPT ![s].at = "failed"]
    /\ UNCHANGED <<store, active, route, contacts, refreshing, calls,
                   deleting, page, stored, restarts, clicks, byPage, dropped>>

\* A check, the broadcast or every delivery failed: messageSendError.
SendFails(s) ==
    /\ sends[s].at = "sending"
    /\ sends' = [sends EXCEPT ![s].at = "failed"]
    /\ store' = SentLocally(store, sends[s].to, s, "error")
    /\ UNCHANGED <<active, route, contacts, refreshing, calls, deleting, page,
                   stored, restarts, clicks, byPage, dropped>>

\* The relay took it, saveMessage wrote it or failed, and messageSent.
SendSucceeds(s, written) ==
    /\ sends[s].at = "sending"
    /\ sends' = [sends EXCEPT ![s].at = "sent"]
    /\ stored' = IF written THEN stored \cup {s} ELSE stored
    /\ store' = SentLocally(store, sends[s].to, s, "confirmed")
    /\ UNCHANGED <<active, route, contacts, refreshing, calls, deleting, page,
                   restarts, clicks, byPage, dropped>>

\* A message on the screen that has a digest, and so a menu.
OnScreen(k) ==
    /\ route \in DOMAIN store.chats
    /\ k \in ToSet(store.chats[route].list) \ {undef}

\* resend(): the old message is deleted, a new one constructed and sent.
Resend(k, s) ==
    /\ Click
    /\ OnScreen(k)
    /\ k \in DOMAIN store.messages /\ store.messages[k] = "error"
    /\ SendStarts(WithoutMessage(store, route, k), s, route)
    /\ UNCHANGED <<active, route, contacts, refreshing, calls, deleting, page,
                   stored, restarts, byPage, dropped>>

-----------------------------------------------------------------------------
(* Receiving.                                                              *)

\* The loop that sets the contacts up, from position i: it runs to the first
\* message of a stranger, adds the contact and awaits its profile; past the
\* end the messages are added.
Proceed(r, batch, i, known) ==
    LET strangers == {j \in i..Len(batch) : Coparty(batch[j]) \notin DOMAIN known}
    IN  \/ /\ strangers # {}
           /\ LET j == Min(strangers)
                  a == Coparty(batch[j])
              IN  /\ contacts' = With(known, a, a)
                  /\ calls' = [calls EXCEPT ![r] = [batch |-> batch, at |-> j]]
           /\ store' = store
        \/ /\ strangers = {}
           /\ contacts' = known
           /\ calls' = [calls EXCEPT ![r] = Done]
           /\ \E counted \in SUBSET ToSet(NewPart(store, batch)) :
                 store' = WithBatch(store, batch, counted)

\* What the relay may answer with: messages of others and those to itself.
Deliverable == Incoming \cup {s \in Outbound : sends[s].to = Me /\ sends[s].at \in {"sent", "failed"}}

\* receivedMessages: a notice of the websocket or the page of a refresh; the
\* same message may come with both. The client has saved the messages.
receiveMessages(r) ==
    /\ calls[r] = Idle
    /\ \E ms \in SUBSET Deliverable \ {{}} : \E batch \in SetToSeqs(ms) :
          /\ stored' = stored \cup ms
          /\ Proceed(r, batch, 1, contacts)
    /\ UNCHANGED <<active, route, refreshing, sends, deleting, page, restarts,
                   clicks, byPage, dropped>>

\* The awaited refresh of a stranger ended.
ContactLoaded(r, ok) ==
    /\ calls[r] \notin {Idle, Done}
    /\ LET a == Coparty(calls[r].batch[calls[r].at])
       IN  Proceed(r, calls[r].batch, calls[r].at + 1,
                   IF ok THEN Updated(contacts, a) ELSE contacts)
    /\ UNCHANGED <<active, route, refreshing, sends, deleting, page, stored,
                   restarts, clicks, byPage, dropped>>

-----------------------------------------------------------------------------
(* Removing.                                                               *)

ClickDelete(k) ==
    /\ Click
    /\ OnScreen(k)
    /\ deleting' = deleting \cup {k}
    /\ UNCHANGED <<store, active, route, contacts, refreshing, calls, sends,
                   page, stored, restarts, byPage, dropped>>

\* deleteMessageBoth after its await; a failure leaves everything.
DeleteAnswered(k, ok) ==
    /\ k \in deleting
    /\ deleting' = deleting \ {k}
    /\ stored' = IF ok THEN stored \ {k} ELSE stored
    /\ store' = IF ok THEN WithoutMessage(store, Coparty(k), k) ELSE store
    /\ UNCHANGED <<active, route, contacts, refreshing, calls, sends, page,
                   restarts, clicks, byPage, dropped>>

\* clearChat: the index keeps the messages.
clearChat(a) ==
    /\ Click
    /\ a \in DOMAIN store.chats
    /\ store' = [store EXCEPT !.chats[a].list = <<>>]
    /\ UNCHANGED <<active, route, contacts, refreshing, calls, sends,
                   deleting, page, stored, restarts, byPage, dropped>>

ChatDropped(a) ==
    /\ store' = [store EXCEPT !.chats = Without(@, a)]
    /\ active' = IF active = a THEN none ELSE active
    /\ dropped' = IF route = a THEN dropped \cup {a} ELSE dropped

deleteChat(a) ==
    /\ Click
    /\ a \in DOMAIN store.chats
    /\ ChatDropped(a)
    /\ UNCHANGED <<route, contacts, refreshing, calls, sends, deleting, page,
                   stored, restarts, byPage>>

\* clearChat, deleteChat, then the contact.
deleteContact(a) ==
    /\ Click
    /\ a \in DOMAIN contacts
    /\ ChatDropped(a)
    /\ contacts' = Without(contacts, a)
    /\ UNCHANGED <<route, refreshing, calls, sends, deleting, page, stored,
                   restarts, byPage>>

\* reset, at the end of the setup pages.
reset ==
    /\ Click
    /\ route = none
    /\ store.messages # <<>>
    /\ store' = [messages |-> <<>>,
                 chats |-> [a \in DOMAIN store.chats |-> [store.chats[a] EXCEPT !.list = <<>>]]]
    /\ UNCHANGED <<active, route, contacts, refreshing, calls, sends,
                   deleting, page, stored, restarts, byPage, dropped>>

-----------------------------------------------------------------------------
(* Persistence.                                                            *)

\* The subscription of boot/pinia.ts writes both stores after every change,
\* without the messages. rehydateChat: the messages on disk, in the chats
\* written and in new ones.
Rehydrated(order, unread) ==
    [messages |-> [m \in stored |-> "confirmed"],
     chats |-> [a \in DOMAIN store.chats \cup {Coparty(m) : m \in stored} |->
                  [list |-> Picked(order, {i \in DOMAIN order : Coparty(order[i]) = a}),
                   unread |-> \E m \in unread : From[m] = a]]]

\* The process ends; the next one restores both stores before it connects,
\* and its first page is not a chat.
Restart ==
    /\ restarts < MaxRestarts
    /\ restarts' = restarts + 1
    /\ \E unread \in SUBSET (stored \cap Incoming) :
       \E order \in SetToSeqs(stored) : store' = Rehydrated(order, unread)
    /\ active' = none
    /\ route' = none
    /\ refreshing' = {}
    /\ calls' = [r \in Batches |-> Idle]
    /\ sends' = [s \in Outbound |-> IF sends[s].at = "sending"
                                    THEN [sends[s] EXCEPT !.at = "failed"] ELSE sends[s]]
    /\ deleting' = {}
    /\ page' = NewPage
    /\ dropped' = {}
    /\ UNCHANGED <<contacts, stored, clicks, byPage>>

ChatsNext ==
    \/ \E a \in Addrs : Navigate(a) \/ ClickNotification(a) \/ RefreshContact(a)
                        \/ clearChat(a) \/ deleteChat(a) \/ deleteContact(a)
    \/ LeaveChat \/ AddContact \/ ConstructFails \/ reset \/ Restart
    \/ \E a \in Addrs, ok \in BOOLEAN : RefreshAnswered(a, ok) \/ LookupAnswered(a, ok)
    \/ \E a \in Addrs \cup {none} : TypeAddress(a)
    \/ \E s \in Outbound : Send(s) \/ SendFails(s)
    \/ \E s \in Outbound, ok \in BOOLEAN : SendSucceeds(s, ok)
    \/ \E k \in Outbound, s \in Outbound : Resend(k, s)
    \/ \E r \in Batches : receiveMessages(r)
    \/ \E r \in Batches, ok \in BOOLEAN : ContactLoaded(r, ok)
    \/ \E k \in Incoming \cup Outbound : ClickDelete(k)
    \/ \E k \in Incoming \cup Outbound, ok \in BOOLEAN : DeleteAnswered(k, ok)

ChatsSpec == ChatsInit /\ [][ChatsNext]_chatVars

-----------------------------------------------------------------------------
(* Properties.                                                             *)

\* Every variable has its type (the records of stores/chats.ts:24-67 and
\* stores/contacts.ts:67-79).
ChatsTypeOK ==
    /\ DOMAIN store.messages \subseteq Keys
    /\ \A k \in DOMAIN store.messages : store.messages[k] \in {"sending", "error", "confirmed"}
    /\ DOMAIN store.chats \subseteq Addrs
    /\ \A a \in DOMAIN store.chats :
          store.chats[a].list \in Seq(Keys) /\ store.chats[a].unread \in BOOLEAN
    /\ {active, route} \subseteq Addrs \cup {none}
    /\ DOMAIN contacts \subseteq Addrs
    /\ \A a \in DOMAIN contacts : contacts[a] \in Addrs \cup {none}
    /\ stored \subseteq Keys \ {undef}
    /\ \A r \in Batches : calls[r] \in {Idle, Done} \/ calls[r].at \in DOMAIN calls[r].batch

\* However often a message is announced, sent again, deleted while its send or
\* its announcement is under way, or read back from the disk: it is on the
\* screen at most once, in the chat it belongs to, and replies find it in the
\* index (the index guards of stores/chats.ts:381 and :572).
MessagesListedOnce ==
    /\ \A a \in DOMAIN store.chats :
          /\ IsInjective(store.chats[a].list)
          /\ ToSet(store.chats[a].list) \subseteq DOMAIN store.messages
          /\ \A k \in ToSet(store.chats[a].list) \ {undef} : Coparty(k) = a
    /\ \A a, b \in DOMAIN store.chats :
          a # b => ~ (undef \in ToSet(store.chats[a].list) /\ undef \in ToSet(store.chats[b].list))

\* A message that is shown as being sent is being sent: every way out of
\* sendMessageImpl after messageSending reports an outcome to the store
\* (relay/index.ts:939, :986, :1005), also to one that was deleted meanwhile.
SendingInProgress ==
    \A k \in DOMAIN store.messages :
        store.messages[k] = "sending" => k \in Outbound /\ sends[k].at = "sending"

\* Whatever the order of refreshes, deletions and arrivals, the key kept for
\* an address is the key of that address; only the page that adds a contact
\* may attach the answer of an older lookup (pages/AddContact.vue:121).
KeyBelongs ==
    \A a \in DOMAIN contacts : contacts[a] \in {none, a} \/ a \in byPage

\* The chat the user looks at has no unread messages (setActiveChat reads
\* them, receiveMessages does not count into the active chat), unless it was
\* deleted while it was on the screen.
ReadWhileOpen ==
    active \in DOMAIN store.chats \ dropped => ~ store.chats[active].unread
=============================================================================
