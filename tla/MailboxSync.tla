---------------------------- MODULE MailboxSync ----------------------------
(***************************************************************************)
(* How the recipient's client follows its mailbox: the websocket and the   *)
(* refresh at start-up (cashweb/relay/index.ts, App.vue), the message      *)
(* store with its cursor (cashweb/relay/storage/level-storage.ts) and the  *)
(* chat that shows the messages (stores/chats.ts).                         *)
(*                                                                         *)
(* A step is what runs between two awaits; every operation on the database *)
(* is a step.  Senders are the environment: they PUT an envelope any       *)
(* number of times (PaidSend shows why).  All messages are of one chat.    *)
(***************************************************************************)
EXTENDS RelayServer, FiniteSets, SequencesExt, Subsequence

CONSTANTS
    Malformed,     \* envelopes that receiveMessage throws on
    Own,           \* messages this client sends to others
    Deletable,     \* envelopes the user may delete
    Threads,       \* concurrency of pAll
    MaxRetries,    \* refreshes that setupConnections tries
    MaxPuts,       \* bound on the PUTs of senders
    MaxDrops,      \* bound on broken websockets
    MaxRestarts    \* bound on restarts of the client

ASSUME SyncAssumption ==
    /\ Malformed \subseteq Envelopes
    /\ Deletable \subseteq Envelopes
    /\ Own \cap Envelopes = {}
    /\ IsFiniteSet(Envelopes) /\ IsFiniteSet(Own)
    /\ Threads \in Nat /\ MaxRetries \in Nat
    /\ MaxPuts \in Nat /\ MaxDrops \in Nat /\ MaxRestarts \in Nat

\* A message is worked on where it came from.
Slots == ({"ws", "page"} \X Envelopes) \cup ({"own"} \X Own)

VARIABLES
    store,      \* keys of LevelMessageStore
    cursor,     \* lastServerTime
    task,       \* progress of each message, with its server time
    refresh,    \* progress of RelayClient.refresh
    from,       \* the cursor it has read
    tries,      \* messageLoadAttempts
    threads,    \* threads of pAll that have not thrown
    page,       \* messageList, in the relay's order
    results,    \* finalizedMessages of the refresh
    batches,    \* receivedMessages events whose contacts are being loaded
    chat,       \* the messages of the chat
    known,      \* keys of the chat store's messages
    deleting,   \* deletions under way: "asked" or "gone" at the relay
    nputs, drops, restarts

clientVars == <<store, cursor, task, refresh, from, tries, threads, page,
                results, batches, chat, known, deleting>>
vars == <<relayVars, clientVars, nputs, drops, restarts>>

Idle == [stage |-> "none", time |-> 0]
Stages == {"none", "queued", "lookup", "open", "read", "write", "put"}

TypeOK ==
    /\ RelayTypeOK
    /\ store \in SUBSET (Envelopes \cup Own)
    /\ cursor \in 0..MaxClock
    /\ task \in [Slots -> [stage : Stages, time : 0..MaxClock]]
    /\ refresh \in {"idle", "asking", "running", "done", "failed"}
    /\ from \in 0..MaxClock
    /\ tries \in 0..MaxRetries
    /\ threads \in 0..Threads
    /\ page \in Seq(Envelopes)
    /\ results \in SUBSET Envelopes
    /\ batches \in SUBSET Seq(Envelopes)
    /\ chat \in Seq(Envelopes \cup Own)
    /\ known \in SUBSET (Envelopes \cup Own)
    /\ deleting \in [Envelopes -> {"no", "asked", "gone"}]
    /\ nputs \in 0..MaxPuts /\ drops \in 0..MaxDrops /\ restarts \in 0..MaxRestarts

Init ==
    /\ RelayInit
    /\ store = {} /\ cursor = 0
    /\ task = [s \in Slots |-> Idle]
    /\ refresh = "idle" /\ from = 0 /\ tries = 0 /\ threads = Threads
    /\ page = <<>> /\ results = {} /\ batches = {}
    /\ chat = <<>> /\ known = {}
    /\ deleting = [e \in Envelopes |-> "no"]
    /\ nputs = 0 /\ drops = 0 /\ restarts = 0

-----------------------------------------------------------------------------
(* The environment.                                                        *)

\* A sender's PUT reaches the relay: a first attempt, a retry or a late copy.
SenderPuts(e) ==
    /\ nputs < MaxPuts
    /\ nputs' = nputs + 1
    /\ PutMessage(e)
    /\ UNCHANGED <<clientVars, drops, restarts>>

TimePasses == Tick /\ UNCHANGED <<clientVars, nputs, drops, restarts>>

\* setUpWebsocket, at start-up and after each interval without a socket.
SocketOpens ==
    /\ ~socket
    /\ socket' = TRUE
    /\ UNCHANGED <<clock, mailbox, payloads, wire, clientVars, nputs, drops,
                   restarts>>

\* The connection breaks and loses what is on its way; nothing is refreshed.
SocketCloses ==
    /\ socket /\ drops < MaxDrops
    /\ socket' = FALSE
    /\ wire' = <<>>
    /\ drops' = drops + 1
    /\ UNCHANGED <<clock, mailbox, payloads, clientVars, nputs, restarts>>

\* The relay, which keeps its mailboxes in memory, restarts.
RelayGoes ==
    /\ drops < MaxDrops
    /\ drops' = drops + 1
    /\ RelayRestart
    /\ UNCHANGED <<clientVars, nputs, restarts>>

-----------------------------------------------------------------------------
(* receiveMessage and saveMessage, for every slot.                         *)

Set(s, stg) == task' = [task EXCEPT ![s].stage = stg]

\* onmessage: at most one copy of an envelope is worked on at a time.
onmessage ==
    /\ wire # <<>>
    /\ task[<<"ws", Head(wire).env>>] = Idle
    /\ task' = [task EXCEPT ![<<"ws", Head(wire).env>>] =
                    [stage |-> "lookup", time |-> Head(wire).time]]
    /\ wire' = Tail(wire)
    /\ UNCHANGED <<clock, mailbox, payloads, socket, store, cursor, refresh,
                   from, tries, threads, page, results, batches, chat, known,
                   deleting, nputs, drops, restarts>>

others == <<relayVars, refresh, from, tries, page, chat, known, deleting,
            nputs, drops, restarts>>

\* Mutant of getMessage: a message that a refresh has listed is left to it.
getMessageOnce(s) ==
    /\ task[s].stage = "lookup"
    /\ IF s[2] \in store \/ s[2] \in ToSet(page)
       THEN task' = [task EXCEPT ![s] = Idle] ELSE Set(s, "open")
    /\ UNCHANGED <<others, store, cursor, threads, results, batches>>

\* getMessage: a message of the store is not processed again.
getMessage(s) ==
    /\ task[s].stage = "lookup"
    /\ IF s[2] \in store THEN task' = [task EXCEPT ![s] = Idle] ELSE Set(s, "open")
    /\ UNCHANGED <<others, store, cursor, threads, results, batches>>

\* Mutant of receiveMessage: a message of a refresh is announced and not saved.
receiveMessageUnsaved(s) ==
    /\ task[s].stage = "open"
    /\ s[2] \notin Malformed
    /\ Set(s, IF s[1] = "page" THEN "none" ELSE "read")
    /\ results' = IF s[1] = "page" /\ refresh = "running"
                  THEN results \cup {s[2]} ELSE results
    /\ UNCHANGED <<others, store, cursor, threads, batches>>

\* The rest of receiveMessage: the stamps go to the wallet and the message to
\* saveMessage; the refresh does not wait for it to be saved.
receiveMessage(s) ==
    /\ task[s].stage = "open"
    /\ s[2] \notin Malformed
    /\ Set(s, "read")
    /\ results' = IF s[1] = "page" /\ refresh = "running"
                  THEN results \cup {s[2]} ELSE results
    /\ UNCHANGED <<others, store, cursor, threads, batches>>

\* mostRecentMessageTime reads the cursor and then writes it if it is behind.
ReadCursor(s) ==
    /\ task[s].stage = "read"
    /\ Set(s, IF cursor < task[s].time THEN "write" ELSE "put")
    /\ UNCHANGED <<others, store, cursor, threads, results, batches>>

\* Mutant of WriteCursor: the next refresh starts after this message.
WriteCursorAfter(s) ==
    /\ task[s].stage = "write"
    /\ cursor' = task[s].time + 1
    /\ Set(s, "put")
    /\ UNCHANGED <<others, store, threads, results, batches>>

WriteCursor(s) ==
    /\ task[s].stage = "write"
    /\ cursor' = task[s].time
    /\ Set(s, "put")
    /\ UNCHANGED <<others, store, threads, results, batches>>

\* The message itself is written last.  A message of the websocket is
\* announced when it is saved.
saveMessage(s) ==
    /\ task[s].stage = "put"
    /\ store' = store \cup {s[2]}
    /\ task' = [task EXCEPT ![s] = Idle]
    /\ batches' = IF s[1] = "ws" THEN batches \cup {<<s[2]>>} ELSE batches
    /\ UNCHANGED <<others, cursor, threads, results>>

\* Mutant of ReceiveThrows: the first error stops every thread.
ReceiveThrowsForAll(s) ==
    /\ task[s].stage = "open"
    /\ s[2] \in Malformed
    /\ task' = [task EXCEPT ![s] = Idle]
    /\ IF s[1] = "page"
       THEN threads' = 0 /\ refresh' = "done"
       ELSE UNCHANGED <<threads, refresh>>
    /\ UNCHANGED <<relayVars, store, cursor, from, tries, page, results,
                   batches, chat, known, deleting, nputs, drops,
                   restarts>>

\* receiveMessage throws: it is logged, and in a refresh it ends a thread of
\* pAll and the refresh, which then announces nothing.
ReceiveThrows(s) ==
    /\ task[s].stage = "open"
    /\ s[2] \in Malformed
    /\ task' = [task EXCEPT ![s] = Idle]
    /\ IF s[1] = "page"
       THEN threads' = threads - 1 /\ refresh' = "done"
       ELSE UNCHANGED <<threads, refresh>>
    /\ UNCHANGED <<relayVars, store, cursor, from, tries, page, results,
                   batches, chat, known, deleting, nputs, drops,
                   restarts>>

\* A message of one's own, which the chat shows since it was sent, is saved
\* after its delivery under the local clock.
SaveOwn(o) ==
    /\ task[<<"own", o>>] = Idle /\ o \notin store
    /\ task' = [task EXCEPT ![<<"own", o>>] = [stage |-> "read", time |-> clock]]
    /\ chat' = IF o \in known THEN chat ELSE Append(chat, o)
    /\ known' = known \cup {o}
    /\ UNCHANGED <<relayVars, store, cursor, refresh, from, tries, threads,
                   page, results, batches, deleting, nputs, drops,
                   restarts>>

-----------------------------------------------------------------------------
(* refresh, called by setupConnections until it succeeds once.             *)

\* The cursor is read, then the relay is asked.
StartRefresh ==
    /\ refresh = "idle"
    /\ tries < MaxRetries
    /\ tries' = tries + 1
    /\ refresh' = "asking"
    /\ from' = cursor
    /\ UNCHANGED <<relayVars, store, cursor, task, threads, page, results,
                   batches, chat, known, deleting, nputs, drops,
                   restarts>>

RefreshFails ==
    /\ refresh = "asking"
    /\ refresh' = IF tries < MaxRetries THEN "idle" ELSE "failed"
    /\ UNCHANGED <<relayVars, store, cursor, task, from, tries, threads, page,
                   results, batches, chat, known, deleting, nputs,
                   drops, restarts>>

\* The orders in which the relay may have received some messages.
InOrder(R) ==
    {o \in SetToSeqs(R) : \A i, j \in DOMAIN o : i < j => o[i].time <= o[j].time}

\* A message of a page, before a thread takes it.
Queued(r) == [stage |-> "queued", time |-> r.time]

\* The relay's answer: the messages from the cursor on.
PageAnswered ==
    /\ refresh = "asking"
    /\ refresh' = "running"
    /\ \E R \in InOrder(GetMessages(from)) : page' = [i \in DOMAIN R |-> R[i].env]
    /\ task' = [s \in Slots |->
                  IF \E r \in GetMessages(from) : s = <<"page", r.env>>
                  THEN Queued(CHOOSE r \in GetMessages(from) : r.env = s[2])
                  ELSE task[s]]
    /\ UNCHANGED <<relayVars, store, cursor, from, tries, threads, results,
                   batches, chat, known, deleting, nputs, drops, restarts>>

PageTasks(S) == {e \in Envelopes : task[<<"page", e>>].stage \in S}

\* A thread of pAll takes the next message of the page.
NextOfPage(i) ==
    /\ i \in DOMAIN page
    /\ task[<<"page", page[i]>>].stage = "queued"
    /\ \A j \in 1..i-1 : task[<<"page", page[j]>>].stage # "queued"
    /\ Cardinality(PageTasks({"lookup", "open"})) < threads
    /\ Set(<<"page", page[i]>>, "lookup")
    /\ UNCHANGED <<others, store, cursor, threads, results, batches>>

\* Every thread is through: the new messages are announced in page order.
RefreshDone ==
    /\ refresh = "running"
    /\ PageTasks({"queued", "lookup", "open"}) = {}
    /\ refresh' = "done"
    /\ batches' = batches \cup {Picked(page, {i \in DOMAIN page : page[i] \in results})}
    /\ results' = {}
    /\ UNCHANGED <<relayVars, store, cursor, task, from, tries, threads, page,
                   chat, known, deleting, nputs, drops, restarts>>

-----------------------------------------------------------------------------
(* The chat store.                                                         *)

\* receiveMessages, once the contacts are loaded: the loop returns at the
\* first message that the chat already has.
FirstKnown(b) ==
    {i \in DOMAIN b : b[i] \in known \/ \E j \in 1..i-1 : b[j] = b[i]}

\* Mutant of Taken: messages are pushed without looking for them first.
TakenAll(b) == b

Taken(b) ==
    IF FirstKnown(b) = {} THEN b ELSE SubSeq(b, 1, Min(FirstKnown(b)) - 1)

receiveMessages(b) ==
    /\ b \in batches
    /\ batches' = batches \ {b}
    /\ chat' = chat \o Taken(b)
    /\ known' = known \cup ToSet(Taken(b))
    /\ UNCHANGED <<relayVars, store, cursor, task, refresh, from, tries,
                   threads, page, results, deleting, nputs, drops,
                   restarts>>

\* deleteMessageBoth: the coins of the message are forwarded, then the relay
\* is asked to delete it ...
deleteMessage(e) ==
    /\ e \in Deletable
    /\ deleting[e] = "no"
    /\ e \in ToSet(chat) \cap store
    /\ deleting' = [deleting EXCEPT ![e] = "asked"]
    /\ UNCHANGED <<relayVars, store, cursor, task, refresh, from, tries,
                   threads, page, results, batches, chat, known,
                   nputs, drops, restarts>>

RelayDeletes(e) ==
    /\ deleting[e] = "asked"
    /\ DeleteMessage(e)
    /\ deleting' = [deleting EXCEPT ![e] = "gone"]
    /\ UNCHANGED <<store, cursor, task, refresh, from, tries, threads, page,
                   results, batches, chat, known, nputs, drops,
                   restarts>>

\* ... any of which may fail ...
DeleteFails(e) ==
    /\ deleting[e] # "no"
    /\ deleting' = [deleting EXCEPT ![e] = "no"]
    /\ UNCHANGED <<relayVars, store, cursor, task, refresh, from, tries,
                   threads, page, results, batches, chat, known,
                   nputs, drops, restarts>>

\* findIndex and splice: when the message is not in the chat the index is -1
\* and the last message goes.
Without(c, e) ==
    IF e \in ToSet(c) THEN RemoveAt(c, Min({i \in DOMAIN c : c[i] = e}))
    ELSE IF c = <<>> THEN c ELSE Front(c)

\* ... and then the store and the chat drop it.
LocalDelete(e) ==
    /\ deleting[e] = "gone"
    /\ deleting' = [deleting EXCEPT ![e] = "no"]
    /\ store' = store \ {e}
    /\ known' = known \ {e}
    /\ chat' = Without(chat, e)
    /\ UNCHANGED <<relayVars, cursor, task, refresh, from, tries, threads,
                   page, results, batches, nputs, drops, restarts>>

-----------------------------------------------------------------------------
\* The client ends at any point and starts again: rehydateChat rebuilds the
\* chat from the store.
Restart ==
    /\ restarts < MaxRestarts
    /\ restarts' = restarts + 1
    /\ task' = [s \in Slots |-> Idle]
    /\ refresh' = "idle" /\ from' = 0 /\ tries' = 0 /\ threads' = Threads
    /\ page' = <<>> /\ results' = {} /\ batches' = {}
    /\ chat' = SetToSeq(store)
    /\ known' = store
    /\ deleting' = [e \in Envelopes |-> "no"]
    /\ socket' = FALSE /\ wire' = <<>>
    /\ UNCHANGED <<clock, mailbox, payloads, store, cursor, nputs,
                   drops>>

Work(s) ==
    \/ getMessage(s) \/ receiveMessage(s) \/ ReadCursor(s) \/ WriteCursor(s)
    \/ saveMessage(s) \/ ReceiveThrows(s)

PageStep == \E i \in DOMAIN page : NextOfPage(i)

Next ==
    \/ \E e \in Envelopes : SenderPuts(e)
    \/ TimePasses \/ SocketOpens \/ SocketCloses \/ RelayGoes \/ Restart
    \/ onmessage
    \/ \E s \in Slots : Work(s)
    \/ \E o \in Own : SaveOwn(o)
    \/ StartRefresh \/ RefreshFails \/ PageAnswered \/ PageStep \/ RefreshDone
    \/ \E b \in batches : receiveMessages(b)
    \/ \E e \in Envelopes : \/ deleteMessage(e) \/ RelayDeletes(e)
                            \/ DeleteFails(e) \/ LocalDelete(e)

Spec == Init /\ [][Next]_vars

\* The event loop runs every continuation.
FairSpec ==
    /\ Spec
    /\ WF_vars(onmessage)
    /\ WF_vars(PageStep) /\ WF_vars(RefreshDone)
    /\ \A s \in Slots : WF_vars(Work(s))
    /\ WF_vars(\E b \in batches : receiveMessages(b))

-----------------------------------------------------------------------------
\* A message is in the chat once, however often the senders, the websocket,
\* the refresh and the message store bring it.
ShownOnce == \A i, j \in DOMAIN chat : chat[i] = chat[j] => i = j

Saving(e) == \E s \in Slots : s[2] = e /\ task[s].stage \in {"read", "write", "put"}

\* A message that the chat shows is in the message store or being written to
\* it, so that only a crash in between can take it from the history.
ShownIsSavedOrSaving ==
    \A e \in ToSet(chat) \ Deletable : e \in store \/ Saving(e)

Readable == Envelopes \ (Malformed \cup Deletable)

\* A message that the relay sends over an open socket is saved.
NotifiedIsSaved ==
    \A e \in Readable : (\E i \in DOMAIN wire : wire[i].env = e) ~> e \in store

\* Every readable message of a page is saved, even if others of the same page
\* cannot be read (as long as fewer fail than there are threads).
PageIsSaved ==
    \A e \in Readable : refresh = "running" /\ e \in ToSet(page) ~> e \in store
=============================================================================
