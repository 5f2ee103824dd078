---------------------------- MODULE MailboxProofs ----------------------------
(***************************************************************************)
(* The recipient's client and its mailbox, for every set of envelopes,     *)
(* every number of threads, retries, restarts and every clock.             *)
(*                                                                         *)
(* That a message of the chat is saved or being saved is not inductive: a  *)
(* refresh announces messages long after it handed them to saveMessage, so *)
(* the invariant says it of everything announced, and that no page is      *)
(* being worked on when a refresh begins (its answer would otherwise take  *)
(* a message back from saveMessage). That the number of threads never goes *)
(* below zero needs that each message at work in a page has one.           *)
(***************************************************************************)
EXTENDS MailboxSync, SequenceProofs

Works == [stage : Stages, time : 0..MaxClock]

\* The types of the client's variables.
ClientType ==
    /\ store \in SUBSET (Envelopes \cup Own)
    /\ cursor \in 0..MaxClock
    /\ task \in [Slots -> Works]
    /\ refresh \in {"idle", "asking", "running", "done", "failed"}
    /\ from \in 0..MaxClock
    /\ tries \in 0..MaxRetries
    /\ threads \in 0..Threads
    /\ page \in Seq(Envelopes)
    /\ results \in SUBSET Envelopes
    /\ batches \in SUBSET Seq(Envelopes)
    /\ chat \in Seq(Envelopes \cup Own)
    /\ known \in SUBSET (Envelopes \cup Own)
    /\ deleting \in [Envelopes -> {"no", "asked", "gone"}]
    /\ nputs \in 0..MaxPuts /\ drops \in 0..MaxDrops /\ restarts \in 0..MaxRestarts

\* The relay: what it holds, once each, with its payload.
RelayInv ==
    /\ RelayTypeOK
    /\ IsFiniteSet(mailbox)
    /\ OneCopy
    /\ PayloadsListed

\* No message of a page is worked on before the relay has answered.
PageNotBegun ==
    refresh \in {"idle", "asking", "failed"} =>
        results = {} /\ \A e \in Envelopes : task[<<"page", e>>] = Idle

\* The messages of the page that a thread is busy with.
Busy == PageTasks({"lookup", "open"})

ThreadForEach == Cardinality(Busy) <= threads

\* The chat shows what its index knows, once.
ChatInv == IsInjective(chat) /\ ToSet(chat) \subseteq known

OnlyDeletable == \A e \in Envelopes : deleting[e] # "no" => e \in Deletable

Announced == ToSet(chat) \cup results \cup UNION {ToSet(b) : b \in batches}

Held(e) == e \in store \/ Saving(e)

AllHeld == \A e \in Announced \ Deletable : Held(e)

SyncInv ==
    /\ RelayInv
    /\ ClientType
    /\ PageNotBegun
    /\ ThreadForEach
    /\ ChatInv
    /\ OnlyDeletable
    /\ AllHeld

-----------------------------------------------------------------------------
(* The relay.                                                              *)

\* A relay that is stepped by its own operations alone, or not at all.
RelayStepped ==
    \/ \E e \in Envelopes : PutMessage(e) \/ DeleteMessage(e)
    \/ RelayRestart \/ Tick
    \/ /\ UNCHANGED <<clock, mailbox, payloads>>
       /\ socket' \in BOOLEAN
       /\ wire' = wire \/ wire' = <<>> \/ (wire # <<>> /\ wire' = Tail(wire))

\* The relay keeps one copy of a message, and its payload with it.
LEMMA RelayStep ==
    ASSUME RelayInv, RelayStepped
    PROVE  RelayInv'
<1>1. RelayTypeOK /\ IsFiniteSet(mailbox) /\ OneCopy /\ PayloadsListed
  BY DEF RelayInv
<1>2. CASE \E e \in Envelopes : PutMessage(e)
  <2>1. PICK e \in Envelopes : PutMessage(e)
    BY <1>2
  <2> DEFINE r == [env |-> e, time |-> clock]
  <2>2. r \in Records /\ r.env = e
    BY <1>1 DEF Records, RelayTypeOK
  <2>3. /\ payloads' = payloads \cup {e}
        /\ mailbox' = IF Fresh(e) THEN mailbox \cup {r} ELSE mailbox
        /\ wire' = wire \/ wire' = Append(wire, r)
        /\ clock' = clock /\ socket' = socket
    BY <2>1 DEF PutMessage
  <2> HIDE DEF r
  <2>4. RelayTypeOK'
    BY <1>1, <2>2, <2>3 DEF RelayTypeOK
  <2>5. IsFiniteSet(mailbox')
    BY <1>1, <2>3, FS_AddElement
  <2>6. OneCopy'
    BY <1>1, <2>2, <2>3 DEF OneCopy, Fresh, Listed
  <2>7. PayloadsListed'
    BY <1>1, <2>2, <2>3 DEF PayloadsListed, Fresh, Listed
  <2>8. QED
    BY <2>4, <2>5, <2>6, <2>7 DEF RelayInv
<1>3. CASE \E e \in Envelopes : DeleteMessage(e)
  <2>1. PICK e \in Envelopes : DeleteMessage(e)
    BY <1>3
  <2>2. /\ mailbox' = {r \in mailbox : r.env # e}
        /\ payloads' = payloads \ {e}
        /\ clock' = clock /\ socket' = socket /\ wire' = wire
    BY <2>1 DEF DeleteMessage
  <2>3. RelayTypeOK'
    BY <1>1, <2>2 DEF RelayTypeOK
  <2>4. mailbox' \subseteq mailbox
    BY <2>2
  <2>5. IsFiniteSet(mailbox')
    BY <1>1, <2>4, FS_Subset
  <2>6. OneCopy'
    BY <1>1, <2>2 DEF OneCopy
  <2>7. PayloadsListed'
    BY <1>1, <2>2 DEF PayloadsListed, Listed
  <2>8. QED
    BY <2>3, <2>5, <2>6, <2>7 DEF RelayInv
<1>4. CASE RelayRestart
  <2>0. /\ mailbox' = {} /\ payloads' = {} /\ socket' = FALSE /\ wire' = <<>> /\ clock' = clock
        /\ <<>> \in Seq(Records)
    BY <1>4 DEF RelayRestart
  <2>1a. RelayTypeOK'
    BY <1>1, <2>0 DEF RelayTypeOK
  <2>1. RelayTypeOK' /\ OneCopy' /\ PayloadsListed'
    BY <2>0, <2>1a DEF OneCopy, PayloadsListed, Listed
  <2>2. IsFiniteSet(mailbox')
    BY <1>4, FS_EmptySet DEF RelayRestart
  <2>3. QED
    BY <2>1, <2>2 DEF RelayInv
<1>5. CASE Tick
  <2>1. RelayTypeOK'
    BY <1>1, <1>5, RelayAssumption DEF Tick, RelayTypeOK
  <2>2. OneCopy' /\ PayloadsListed' /\ IsFiniteSet(mailbox')
    BY <1>1, <1>5 DEF Tick, OneCopy, PayloadsListed, Listed
  <2>3. QED
    BY <2>1, <2>2 DEF RelayInv
<1>6. CASE /\ UNCHANGED <<clock, mailbox, payloads>>
           /\ socket' \in BOOLEAN
           /\ wire' = wire \/ wire' = <<>> \/ (wire # <<>> /\ wire' = Tail(wire))
  <2>1. wire' \in Seq(Records)
    <3>1. wire # <<>> => Tail(wire) \in Seq(Records)
      BY <1>1 DEF RelayTypeOK
    <3>2. <<>> \in Seq(Records) /\ wire \in Seq(Records)
      BY <1>1 DEF RelayTypeOK
    <3>3. QED
      BY <1>6, <3>1, <3>2
  <2>2. QED
    BY <1>1, <1>6, <2>1 DEF RelayInv, RelayTypeOK, OneCopy, PayloadsListed, Listed
<1>7. QED
  BY <1>2, <1>3, <1>4, <1>5, <1>6 DEF RelayStepped

-----------------------------------------------------------------------------
(* The helpers.                                                            *)

\* A slot names its origin and its message.
LEMMA SlotFacts ==
    /\ \A s \in Slots : s[2] \in Envelopes \cup Own
    /\ \A s \in Slots : s[1] = "page" => s[2] \in Envelopes /\ s = <<"page", s[2]>>
    /\ \A s \in Slots : s[1] = "ws" => s[2] \in Envelopes
    /\ \A e \in Envelopes : <<"page", e>> \in Slots /\ <<"ws", e>> \in Slots
    /\ \A o \in Own : <<"own", o>> \in Slots
    /\ \A e, f : <<"page", e>> = <<"page", f>> => e = f
    /\ \A e, f : <<"page", e>> # <<"ws", f>> /\ <<"page", e>> # <<"own", f>>
  BY DEF Slots

\* A task that is not at work.
LEMMA IdleFacts == Idle \in Works /\ Idle.stage = "none"
  BY RelayAssumption DEF Idle, Works, Stages

\* A step of one task.
LEMMA SetFacts ==
    ASSUME task \in [Slots -> Works], NEW s \in Slots, NEW stg \in Stages, Set(s, stg)
    PROVE  /\ task' \in [Slots -> Works]
           /\ task'[s].stage = stg
           /\ \A q \in Slots : q # s => task'[q] = task[q]
<1> DEFINE x == [task[s] EXCEPT !.stage = stg]
<1>1. task[s] \in Works
  OBVIOUS
<1>2. x \in Works /\ x.stage = stg
  BY <1>1 DEF Works
<1>3. task' = [task EXCEPT ![s] = x]
  BY DEF Set
<1> HIDE DEF x
<1>4. QED
  BY <1>2, <1>3

\* A step that gives one task new work.
LEMMA PutFacts ==
    ASSUME task \in [Slots -> Works], NEW s \in Slots, NEW x \in Works,
           task' = [task EXCEPT ![s] = x]
    PROVE  /\ task' \in [Slots -> Works]
           /\ task'[s] = x
           /\ \A q \in Slots : q # s => task'[q] = task[q]
  OBVIOUS

\* What is new of a batch: each message once, and none that the chat knows.
LEMMA TakenFacts ==
    ASSUME NEW b \in Seq(Envelopes)
    PROVE  /\ Taken(b) \in Seq(Envelopes)
           /\ IsInjective(Taken(b))
           /\ ToSet(Taken(b)) \subseteq ToSet(b)
           /\ ToSet(Taken(b)) \cap known = {}
<1> DEFINE F == FirstKnown(b)
           n == IF F = {} THEN Len(b) ELSE Min(F) - 1
<1>1. F = {i \in DOMAIN b : b[i] \in known \/ \E j \in 1..i-1 : b[j] = b[i]}
  BY DEF FirstKnown
<1>2. F \subseteq Nat /\ F \subseteq DOMAIN b
  BY <1>1
<1>3. F # {} => Min(F) \in F /\ \A i \in F : Min(F) <= i
  BY <1>2, MinProperties
<1>4. n \in 0..Len(b)
  <2> HIDE DEF F
  <2>1. F # {} => Min(F) \in 1..Len(b)
    <3>1. DOMAIN b = 1..Len(b)
      OBVIOUS
    <3>2. QED
      BY <1>2, <1>3, <3>1
  <2>2. QED
    BY <2>1
<1>5. ASSUME NEW i \in 1..n
      PROVE  i \notin F
  <2> HIDE DEF F
  <2>1. CASE F # {}
    <3>1. Min(F) \in Nat /\ i <= Min(F) - 1
      <4>1. Min(F) \in Nat
        BY <1>2, <1>3, <2>1
      <4>2. n = Min(F) - 1
        BY <2>1
      <4> HIDE DEF n
      <4>3. QED
        BY <4>1, <4>2
    <3>2. QED
      BY <1>3, <2>1, <3>1
  <2>2. QED
    BY <2>1
<1>6. SubSeq(b, 1, Len(b)) = b
  OBVIOUS
<1>7. Taken(b) = SubSeq(b, 1, n)
  BY <1>6 DEF Taken
<1> HIDE DEF n, F
<1>8. /\ SubSeq(b, 1, n) \in Seq(Envelopes)
      /\ Len(SubSeq(b, 1, n)) = n
      /\ \A i \in 1..n : SubSeq(b, 1, n)[i] = b[i]
      /\ ToSet(SubSeq(b, 1, n)) = {b[i] : i \in 1..n}
      /\ ToSet(SubSeq(b, 1, n)) \subseteq ToSet(b)
  BY <1>4, PrefixOnce
<1>9. \A i \in 1..n : b[i] \notin known /\ \A j \in 1..i-1 : b[j] # b[i]
  BY <1>1, <1>4, <1>5
<1>10. IsInjective(SubSeq(b, 1, n))
  <2>1. DOMAIN SubSeq(b, 1, n) = 1..n
    BY <1>8
  <2>2. \A i, j \in 1..n : b[i] = b[j] => i = j
    <3> SUFFICES ASSUME NEW i \in 1..n, NEW j \in 1..n, i < j, b[i] = b[j] PROVE FALSE
      BY <1>4
    <3>1. i \in 1..j-1
      BY <1>4
    <3>2. QED
      BY <1>9, <3>1
  <2>3. QED
    BY <1>8, <2>1, <2>2 DEF IsInjective
<1>11. QED
  BY <1>7, <1>8, <1>9, <1>10

\* A chat with one message spliced out.
LEMMA WithoutFacts ==
    ASSUME NEW T, NEW c \in Seq(T), NEW e
    PROVE  /\ Without(c, e) \in Seq(T)
           /\ ToSet(Without(c, e)) \subseteq ToSet(c)
           /\ IsInjective(c) => IsInjective(Without(c, e)) /\ e \notin ToSet(Without(c, e))
<1>1. CASE e \in ToSet(c)
  <2> DEFINE P == {k \in DOMAIN c : c[k] = e}
             i == Min(P)
  <2>1. P \subseteq Nat /\ P # {}
    BY <1>1 DEF ToSet
  <2>2. i \in P
    BY <2>1, MinProperties
  <2>3. Without(c, e) = RemoveAt(c, i)
    BY <1>1 DEF Without
  <2>4. i \in DOMAIN c /\ c[i] = e
    BY <2>2
  <2> HIDE DEF i
  <2>5. QED
    BY <2>3, <2>4, RemoveOnce
<1>2. CASE e \notin ToSet(c) /\ c = <<>>
  BY <1>2 DEF Without
<1>3. CASE e \notin ToSet(c) /\ c # <<>>
  <2>1. Without(c, e) = SubSeq(c, 1, Len(c) - 1)
    BY <1>3 DEF Without, Front
  <2> DEFINE n == Len(c) - 1
  <2>2. n \in 0..Len(c)
    BY <1>3
  <2> HIDE DEF n
  <2>3. /\ SubSeq(c, 1, n) \in Seq(T)
        /\ ToSet(SubSeq(c, 1, n)) \subseteq ToSet(c)
        /\ IsInjective(c) => IsInjective(SubSeq(c, 1, n))
    BY <2>2, PrefixOnce
  <2>4. QED
    BY <1>3, <2>1, <2>3 DEF n
<1>4. QED
  BY <1>1, <1>2, <1>3

-----------------------------------------------------------------------------
(* What is left to show of a step.                                         *)

\* What was announced and held before is held, when no save is given up.
LEMMA HeldKept ==
    ASSUME AllHeld,
           \A e \in store \ Deletable : e \in store',
           \A s \in Slots : task[s].stage \in {"read", "write", "put"} =>
               task'[s].stage \in {"read", "write", "put"} \/ s[2] \in store',
           \A e \in Announced' \ Deletable : e \in Announced \/ Held(e)'
    PROVE  AllHeld'
  BY DEF AllHeld, Held, Saving

\* A step that leaves the tasks, the stores and the lists alone loses nothing.
LEMMA HeldSame ==
    ASSUME AllHeld, UNCHANGED <<task, store, chat, results, batches>>
    PROVE  AllHeld'
  BY DEF AllHeld, Held, Saving, Announced

\* Fewer messages at work need no more threads.
LEMMA BusyShrinks ==
    ASSUME ClientType, ThreadForEach, threads' = threads,
           \A e \in Envelopes : task'[<<"page", e>>].stage \in {"lookup", "open"} =>
               task[<<"page", e>>].stage \in {"lookup", "open"}
    PROVE  ThreadForEach'
<1>1. Busy' \subseteq Busy /\ Busy \subseteq Envelopes
  BY DEF Busy, PageTasks
<1>2. IsFiniteSet(Busy)
  BY <1>1, SyncAssumption, FS_Subset
<1>3. Cardinality(Busy') <= Cardinality(Busy) /\ Cardinality(Busy) \in Nat /\ Cardinality(Busy') \in Nat
  BY <1>1, <1>2, FS_Subset, FS_CardinalityType
<1>4. QED
  BY <1>3, SyncAssumption DEF ThreadForEach, ClientType

-----------------------------------------------------------------------------
(* The steps.                                                              *)

\* The invariant holds at the first start.
LEMMA SyncInitInv == Init => SyncInv
<1> SUFFICES ASSUME Init PROVE SyncInv
  OBVIOUS
<1>0. Idle \in Works /\ Idle.stage = "none"
  BY IdleFacts
<1>1. RelayInv
  <2>1. /\ clock = 0 /\ mailbox = {} /\ payloads = {} /\ socket = FALSE /\ wire = <<>>
        /\ <<>> \in Seq(Records)
    BY DEF Init, RelayInit
  <2>2. RelayTypeOK
    <3>1. clock \in 0..MaxClock
      BY <2>1, RelayAssumption
    <3>2. wire \in Seq(Records)
      BY <2>1
    <3>3. QED
      BY <2>1, <3>1, <3>2 DEF RelayTypeOK
  <2>3. IsFiniteSet(mailbox)
    BY <2>1, FS_EmptySet
  <2>4. OneCopy /\ PayloadsListed
    BY <2>1 DEF OneCopy, PayloadsListed, Listed
  <2>5. QED
    BY <2>2, <2>3, <2>4 DEF RelayInv
<1>2. ClientType
  <2>1. /\ task = [s \in Slots |-> Idle] /\ page = <<>> /\ chat = <<>>
        /\ <<>> \in Seq(Envelopes) /\ <<>> \in Seq(Envelopes \cup Own)
    BY DEF Init
  <2>2. task \in [Slots -> Works]
    BY <1>0, <2>1
  <2>3. QED
    BY <2>1, <2>2, RelayAssumption, SyncAssumption DEF Init, ClientType
<1>3. PageNotBegun /\ OnlyDeletable
  BY SlotFacts DEF Init, PageNotBegun, OnlyDeletable
<1>4. ThreadForEach
  <2>1. Busy = {}
    BY <1>0, SlotFacts DEF Init, Busy, PageTasks
  <2>2. Cardinality(Busy) = 0
    BY <2>1, FS_EmptySet
  <2>3. QED
    BY <2>2, SyncAssumption DEF Init, ThreadForEach
<1>5. chat = <<>> /\ results = {} /\ batches = {} /\ IsInjective(<<>>) /\ ToSet(<<>>) = {}
  BY DEF Init, IsInjective, ToSet
<1>6. ChatInv /\ AllHeld
  BY <1>5 DEF ChatInv, AllHeld, Announced
<1>7. QED
  BY <1>1, <1>2, <1>3, <1>4, <1>6 DEF SyncInv

\* The environment leaves the client's variables alone.
LEMMA EnvironmentSteps ==
    ASSUME SyncInv,
           \/ \E e \in Envelopes : SenderPuts(e)
           \/ TimePasses \/ SocketOpens \/ SocketCloses \/ RelayGoes
    PROVE  SyncInv'
<1>1. UNCHANGED <<clientVars, restarts>>
  BY DEF SenderPuts, TimePasses, SocketOpens, SocketCloses, RelayGoes
<1>2. nputs' \in 0..MaxPuts /\ drops' \in 0..MaxDrops
  BY SyncAssumption DEF SyncInv, ClientType, SenderPuts, TimePasses, SocketOpens, SocketCloses, RelayGoes
<1>3. RelayInv'
  <2>1. RelayStepped
    BY DEF SyncInv, RelayInv, RelayTypeOK, RelayStepped, SenderPuts, TimePasses, SocketOpens,
           SocketCloses, RelayGoes
  <2>2. QED
    BY <2>1, RelayStep DEF SyncInv
<1>4. ClientType'
  BY <1>1, <1>2 DEF SyncInv, ClientType, clientVars
<1>5. PageNotBegun' /\ ThreadForEach' /\ ChatInv' /\ OnlyDeletable' /\ AllHeld'
  BY <1>1, HeldSame DEF SyncInv, clientVars, PageNotBegun, ThreadForEach, Busy, PageTasks, ChatInv,
                        OnlyDeletable
<1>6. QED
  BY <1>3, <1>4, <1>5 DEF SyncInv

\* A step of one task that touches neither the relay nor the chat.
LEMMA TaskStep ==
    ASSUME SyncInv, NEW s \in Slots, RelayInv',
           UNCHANGED <<from, tries, page, chat, known, deleting, nputs, drops, restarts>>,
           refresh' = refresh \/ refresh' = "done",
           task' \in [Slots -> Works],
           \A q \in Slots : q # s => task'[q] = task[q],
           task[s].stage \in {"read", "write", "put"} =>
               task'[s].stage \in {"read", "write", "put"} \/ s[2] \in store',
           \/ ThreadForEach'
           \/ /\ threads' = threads
              /\ task'[s].stage \in {"lookup", "open"} =>
                    s[1] # "page" \/ task[s].stage \in {"lookup", "open"},
           s[1] = "page" => refresh \in {"running", "done"},
           store' \in SUBSET (Envelopes \cup Own), store \subseteq store',
           cursor' \in 0..MaxClock, threads' \in 0..Threads,
           results' \in SUBSET Envelopes, batches' \in SUBSET Seq(Envelopes),
           results' = {} \/ results' = results \/ refresh = "running",
           \A e \in Announced' : e \in Announced \/ e \in store' \/ (e = s[2] /\ task'[s].stage = "read")
    PROVE  SyncInv'
<1>1. ClientType'
  BY DEF SyncInv, ClientType
<1>2. PageNotBegun'
  <2> SUFFICES ASSUME refresh' = refresh, refresh \in {"idle", "asking", "failed"}
               PROVE  results' = {} /\ \A e \in Envelopes : task'[<<"page", e>>] = Idle
    BY DEF PageNotBegun
  <2>1. results = {} /\ \A e \in Envelopes : task[<<"page", e>>] = Idle
    BY DEF SyncInv, PageNotBegun
  <2>2. \A e \in Envelopes : <<"page", e>> \in Slots /\ <<"page", e>>[1] = "page"
    BY SlotFacts
  <2>3. s[1] # "page"
    OBVIOUS
  <2>4. QED
    BY <2>1, <2>2, <2>3
<1>3. ChatInv' /\ OnlyDeletable'
  BY DEF SyncInv, ChatInv, OnlyDeletable
<1>4. ThreadForEach'
  <2>1. CASE /\ threads' = threads
             /\ task'[s].stage \in {"lookup", "open"} =>
                   s[1] # "page" \/ task[s].stage \in {"lookup", "open"}
    <3>1. ASSUME NEW e \in Envelopes, task'[<<"page", e>>].stage \in {"lookup", "open"}
          PROVE  task[<<"page", e>>].stage \in {"lookup", "open"}
      <4>1. <<"page", e>> \in Slots /\ <<"page", e>>[1] = "page"
        BY SlotFacts
      <4>2. QED
        BY <2>1, <3>1, <4>1
    <3>2. QED
      BY <2>1, <3>1, BusyShrinks DEF SyncInv
  <2>2. QED
    BY <2>1
<1>5. AllHeld'
  <2>1. \A e \in Announced' \ Deletable : e \in Announced \/ Held(e)'
    BY DEF Held, Saving
  <2>2. \A q \in Slots : task[q].stage \in {"read", "write", "put"} =>
               task'[q].stage \in {"read", "write", "put"} \/ q[2] \in store'
    OBVIOUS
  <2>3. QED
    BY <2>1, <2>2, HeldKept DEF SyncInv
<1>6. QED
  BY <1>1, <1>2, <1>3, <1>4, <1>5 DEF SyncInv

\* A message of a page is at work only after the answer of the relay.
LEMMA PageAtWork ==
    ASSUME SyncInv, NEW s \in Slots, s[1] = "page", task[s].stage # "none"
    PROVE  refresh \in {"running", "done"}
<1>1. s[2] \in Envelopes /\ s = <<"page", s[2]>> /\ task[s] # Idle
  BY SlotFacts, IdleFacts
<1>2. QED
  BY <1>1 DEF SyncInv, PageNotBegun, ClientType

\* The relay as it was.
LEMMA RelaySame ==
    ASSUME SyncInv, UNCHANGED relayVars
    PROVE  RelayInv'
  BY DEF relayVars, SyncInv, RelayInv, RelayTypeOK, OneCopy, PayloadsListed, Listed

\* receiveMessage and saveMessage, from the lookup to the write.
LEMMA WorkSteps ==
    ASSUME SyncInv, NEW s \in Slots,
           getMessage(s) \/ receiveMessage(s) \/ ReadCursor(s) \/ WriteCursor(s) \/ saveMessage(s)
    PROVE  SyncInv'
<1>0. ClientType /\ s[2] \in Envelopes \cup Own
  BY SlotFacts DEF SyncInv
<1>1. /\ UNCHANGED <<refresh, from, tries, page, chat, known, deleting, nputs, drops, restarts>>
      /\ threads' = threads
      /\ task[s].stage # "none"
      /\ UNCHANGED relayVars
  BY DEF getMessage, receiveMessage, ReadCursor, WriteCursor, saveMessage, others
<1>2. s[1] = "page" => refresh \in {"running", "done"}
  BY <1>1, PageAtWork
<1>3. RelayInv'
  BY <1>1, RelaySame
<1>4. threads' \in 0..Threads
  BY <1>0, <1>1 DEF ClientType
<1>5. task \in [Slots -> Works] /\ Idle \in Works /\ Idle.stage = "none"
  BY <1>0, IdleFacts DEF ClientType
<1>6. CASE getMessage(s)
  <2>1. /\ store' = store /\ cursor' = cursor /\ results' = results /\ batches' = batches
        /\ task[s].stage = "lookup"
        /\ Set(s, "open") \/ task' = [task EXCEPT ![s] = Idle]
    BY <1>6 DEF getMessage
  <2>2. /\ task' \in [Slots -> Works]
        /\ \A q \in Slots : q # s => task'[q] = task[q]
        /\ task'[s].stage \in {"open", "none"}
    <3>1. CASE Set(s, "open")
      BY <1>5, <3>1, SetFacts DEF Stages
    <3>2. CASE task' = [task EXCEPT ![s] = Idle]
      BY <1>5, <3>2, PutFacts
    <3>3. QED
      BY <2>1, <3>1, <3>2
  <2>3. Announced' = Announced
    BY <1>1, <2>1 DEF Announced
  <2>4. store' \in SUBSET (Envelopes \cup Own) /\ store \subseteq store' /\ cursor' \in 0..MaxClock
        /\ results' \in SUBSET Envelopes /\ batches' \in SUBSET Seq(Envelopes)
    BY <1>0, <2>1 DEF ClientType
  <2>5. QED
    BY <1>1, <1>2, <1>3, <1>4, <2>1, <2>2, <2>3, <2>4, TaskStep
<1>7. CASE receiveMessage(s)
  <2>1. /\ store' = store /\ cursor' = cursor /\ batches' = batches
        /\ task[s].stage = "open"
        /\ Set(s, "read")
        /\ results' = IF s[1] = "page" /\ refresh = "running" THEN results \cup {s[2]} ELSE results
    BY <1>7 DEF receiveMessage
  <2>2. /\ task' \in [Slots -> Works]
        /\ \A q \in Slots : q # s => task'[q] = task[q]
        /\ task'[s].stage = "read"
    BY <1>5, <2>1, SetFacts DEF Stages
  <2>3. Announced' \subseteq Announced \cup {s[2]}
    BY <1>1, <2>1 DEF Announced
  <2>4. store' \in SUBSET (Envelopes \cup Own) /\ store \subseteq store' /\ cursor' \in 0..MaxClock
        /\ results' \in SUBSET Envelopes /\ batches' \in SUBSET Seq(Envelopes)
    BY <1>0, <2>1, SlotFacts DEF ClientType
  <2>5. results' = results \/ refresh = "running"
    BY <2>1
  <2>6. QED
    BY <1>1, <1>2, <1>3, <1>4, <2>1, <2>2, <2>3, <2>4, <2>5, TaskStep
<1>8. CASE ReadCursor(s)
  <2>1. /\ store' = store /\ cursor' = cursor /\ results' = results /\ batches' = batches
        /\ task[s].stage = "read"
        /\ Set(s, IF cursor < task[s].time THEN "write" ELSE "put")
    BY <1>8 DEF ReadCursor
  <2> DEFINE stg == IF cursor < task[s].time THEN "write" ELSE "put"
  <2>2. stg \in {"write", "put"} /\ stg \in Stages /\ Set(s, stg)
    BY <2>1 DEF Stages
  <2> HIDE DEF stg
  <2>3. /\ task' \in [Slots -> Works]
        /\ \A q \in Slots : q # s => task'[q] = task[q]
        /\ task'[s].stage \in {"write", "put"}
    BY <1>5, <2>2, SetFacts
  <2>4. Announced' = Announced
    BY <1>1, <2>1 DEF Announced
  <2>5. store' \in SUBSET (Envelopes \cup Own) /\ store \subseteq store' /\ cursor' \in 0..MaxClock
        /\ results' \in SUBSET Envelopes /\ batches' \in SUBSET Seq(Envelopes)
    BY <1>0, <2>1 DEF ClientType
  <2>6. QED
    BY <1>1, <1>2, <1>3, <1>4, <2>1, <2>3, <2>4, <2>5, TaskStep
<1>9. CASE WriteCursor(s)
  <2>1. /\ store' = store /\ cursor' = task[s].time /\ results' = results /\ batches' = batches
        /\ task[s].stage = "write"
        /\ Set(s, "put")
    BY <1>9 DEF WriteCursor
  <2>2. /\ task' \in [Slots -> Works]
        /\ \A q \in Slots : q # s => task'[q] = task[q]
        /\ task'[s].stage = "put"
    BY <1>5, <2>1, SetFacts DEF Stages
  <2>3. Announced' = Announced
    BY <1>1, <2>1 DEF Announced
  <2>4. store' \in SUBSET (Envelopes \cup Own) /\ store \subseteq store' /\ cursor' \in 0..MaxClock
        /\ results' \in SUBSET Envelopes /\ batches' \in SUBSET Seq(Envelopes)
    BY <1>0, <2>1 DEF ClientType, Works
  <2>5. QED
    BY <1>1, <1>2, <1>3, <1>4, <2>1, <2>2, <2>3, <2>4, TaskStep
<1>10. CASE saveMessage(s)
  <2>1. /\ store' = store \cup {s[2]} /\ cursor' = cursor /\ results' = results
        /\ batches' = IF s[1] = "ws" THEN batches \cup {<<s[2]>>} ELSE batches
        /\ task[s].stage = "put"
        /\ task' = [task EXCEPT ![s] = Idle]
    BY <1>10 DEF saveMessage
  <2>2. /\ task' \in [Slots -> Works]
        /\ \A q \in Slots : q # s => task'[q] = task[q]
        /\ task'[s].stage = "none"
    BY <1>5, <2>1, PutFacts
  <2>3. ToSet(<<s[2]>>) = {s[2]}
    BY DEF ToSet
  <2>4. \A e \in Announced' : e \in Announced \/ e \in store'
    BY <1>1, <2>1, <2>3 DEF Announced
  <2>5. batches' \in SUBSET Seq(Envelopes)
    <3>1. s[1] = "ws" => <<s[2]>> \in Seq(Envelopes)
      BY SlotFacts
    <3>2. QED
      BY <1>0, <2>1, <3>1 DEF ClientType
  <2>6. store' \in SUBSET (Envelopes \cup Own) /\ store \subseteq store' /\ cursor' \in 0..MaxClock
        /\ results' \in SUBSET Envelopes
    BY <1>0, <2>1 DEF ClientType
  <2>7. s[2] \in store'
    BY <2>1
  <2>8. QED
    BY <1>1, <1>2, <1>3, <1>4, <2>1, <2>2, <2>4, <2>5, <2>6, <2>7, TaskStep
<1>11. QED
  BY <1>6, <1>7, <1>8, <1>9, <1>10

\* receiveMessage throws: a thread of the page is lost with the message it
\* was busy with.
LEMMA ThrowStep ==
    ASSUME SyncInv, NEW s \in Slots, ReceiveThrows(s)
    PROVE  SyncInv'
<1>0. ClientType
  BY DEF SyncInv
<1>1. /\ UNCHANGED <<from, tries, page, chat, known, deleting, nputs, drops, restarts>>
      /\ UNCHANGED <<store, cursor, results, batches>>
      /\ UNCHANGED relayVars
      /\ task[s].stage = "open"
      /\ task' = [task EXCEPT ![s] = Idle]
      /\ \/ s[1] = "page" /\ threads' = threads - 1 /\ refresh' = "done"
         \/ s[1] # "page" /\ threads' = threads /\ refresh' = refresh
  BY DEF ReceiveThrows
<1>2. s[1] = "page" => refresh \in {"running", "done"}
  BY <1>1, PageAtWork
<1>3. RelayInv'
  BY <1>1, RelaySame
<1>4. /\ task' \in [Slots -> Works]
      /\ \A q \in Slots : q # s => task'[q] = task[q]
      /\ task'[s].stage = "none"
  BY <1>0, <1>1, IdleFacts, PutFacts DEF ClientType
<1>5. Announced' = Announced
  BY <1>1 DEF Announced
<1>6. store' \in SUBSET (Envelopes \cup Own) /\ store \subseteq store' /\ cursor' \in 0..MaxClock
        /\ results' \in SUBSET Envelopes /\ batches' \in SUBSET Seq(Envelopes)
  BY <1>0, <1>1 DEF ClientType
<1>7. CASE s[1] # "page"
  <2>1. threads' = threads /\ refresh' = refresh /\ threads' \in 0..Threads
    BY <1>0, <1>1, <1>7 DEF ClientType
  <2>2. QED
    BY <1>1, <1>2, <1>3, <1>4, <1>5, <1>6, <1>7, <2>1, TaskStep
<1>8. CASE s[1] = "page"
  <2> DEFINE e == s[2]
  <2>1. e \in Envelopes /\ s = <<"page", e>>
    BY <1>8, SlotFacts
  <2>2. e \in Busy /\ Busy \subseteq Envelopes
    BY <1>1, <2>1 DEF Busy, PageTasks
  <2>3. IsFiniteSet(Busy)
    BY <2>2, SyncAssumption, FS_Subset
  <2>4. Busy' = Busy \ {e}
    <3>1. \A f \in Envelopes : f # e => task'[<<"page", f>>] = task[<<"page", f>>]
      BY <1>4, <2>1, SlotFacts
    <3>2. task'[<<"page", e>>].stage \notin {"lookup", "open"}
      BY <1>4, <2>1
    <3> HIDE DEF e
    <3>3. QED
      BY <3>1, <3>2 DEF Busy, PageTasks
  <2>5. Cardinality(Busy') = Cardinality(Busy) - 1 /\ Cardinality(Busy) \in Nat /\ Cardinality(Busy') \in Nat
    BY <2>2, <2>3, <2>4, FS_RemoveElement, FS_CardinalityType, FS_Subset
  <2>6. threads' = threads - 1 /\ threads \in 0..Threads /\ Cardinality(Busy) <= threads
    BY <1>0, <1>1, <1>8 DEF ClientType, SyncInv, ThreadForEach
  <2>7. threads' \in 0..Threads /\ Cardinality(Busy') <= threads'
    BY <2>5, <2>6, SyncAssumption
  <2>8. ThreadForEach'
    BY <2>7 DEF ThreadForEach
  <2>9. refresh' = "done"
    BY <1>1, <1>8
  <2> HIDE DEF e
  <2>10. QED
    BY <1>1, <1>2, <1>3, <1>4, <1>5, <1>6, <2>7, <2>8, <2>9, TaskStep
<1>9. QED
  BY <1>7, <1>8

\* The websocket hands over a message; a thread takes one of the page.
LEMMA TakeSteps ==
    ASSUME SyncInv, onmessage \/ \E i \in DOMAIN page : NextOfPage(i)
    PROVE  SyncInv'
<1>0. ClientType /\ RelayInv
  BY DEF SyncInv
<1>1. CASE onmessage
  <2> DEFINE r == Head(wire)
             s == <<"ws", r.env>>
             x == [stage |-> "lookup", time |-> r.time]
  <2>1. /\ wire # <<>> /\ task[s] = Idle /\ task' = [task EXCEPT ![s] = x] /\ wire' = Tail(wire)
        /\ UNCHANGED <<clock, mailbox, payloads, socket>>
        /\ UNCHANGED <<refresh, from, tries, page, chat, known, deleting, nputs, drops, restarts>>
        /\ UNCHANGED <<store, cursor, threads, results, batches>>
    BY <1>1 DEF onmessage
  <2>2. r \in Records
    BY <1>0, <2>1 DEF RelayInv, RelayTypeOK
  <2>3. s \in Slots /\ s[1] = "ws" /\ x \in Works /\ x.stage = "lookup"
    BY <2>2, SlotFacts DEF Records, Works, Stages
  <2>4. RelayStepped
    BY <1>0, <2>1 DEF RelayStepped, RelayInv, RelayTypeOK
  <2>5. RelayInv'
    BY <1>0, <2>4, RelayStep
  <2> HIDE DEF r, s, x
  <2>6. /\ task' \in [Slots -> Works]
        /\ task'[s] = x
        /\ \A q \in Slots : q # s => task'[q] = task[q]
    BY <1>0, <2>1, <2>3, PutFacts DEF ClientType
  <2>7. Announced' = Announced
    BY <2>1 DEF Announced
  <2>8. task[s].stage = "none"
    BY <2>1, IdleFacts
  <2>9. store' \in SUBSET (Envelopes \cup Own) /\ store \subseteq store' /\ cursor' \in 0..MaxClock
        /\ results' \in SUBSET Envelopes /\ batches' \in SUBSET Seq(Envelopes) /\ threads' \in 0..Threads
    BY <1>0, <2>1 DEF ClientType
  <2>10. QED
    BY <2>1, <2>3, <2>5, <2>6, <2>7, <2>8, <2>9, TaskStep
<1>2. CASE \E i \in DOMAIN page : NextOfPage(i)
  <2>1. PICK i \in DOMAIN page : NextOfPage(i)
    BY <1>2
  <2> DEFINE e == page[i]
             s == <<"page", e>>
  <2>2. e \in Envelopes
    BY <1>0 DEF ClientType
  <2>3. /\ task[s].stage = "queued"
        /\ Cardinality(Busy) < threads
        /\ Set(s, "lookup")
        /\ UNCHANGED relayVars
        /\ UNCHANGED <<refresh, from, tries, page, chat, known, deleting, nputs, drops, restarts>>
        /\ UNCHANGED <<store, cursor, threads, results, batches>>
    BY <2>1 DEF NextOfPage, others, Busy
  <2>4. s \in Slots /\ s[1] = "page"
    BY <2>2, SlotFacts
  <2>5. /\ task' \in [Slots -> Works]
        /\ task'[s].stage = "lookup"
        /\ \A q \in Slots : q # s => task'[q] = task[q]
    <3>1. task \in [Slots -> Works] /\ "lookup" \in Stages
      BY <1>0 DEF ClientType, Stages
    <3>2. s \in Slots /\ Set(s, "lookup")
      BY <2>3, <2>4
    <3> HIDE DEF s
    <3>3. QED
      BY <3>1, <3>2, SetFacts
  <2>6. Busy' \subseteq Busy \cup {e}
    <3>1. \A f \in Envelopes : f # e => task'[<<"page", f>>] = task[<<"page", f>>]
      BY <2>5, SlotFacts
    <3> HIDE DEF e, s
    <3>2. QED
      BY <3>1 DEF Busy, PageTasks
  <2>7. Busy \subseteq Envelopes
    BY DEF Busy, PageTasks
  <2>8. IsFiniteSet(Busy)
    BY <2>7, SyncAssumption, FS_Subset
  <2>9. /\ IsFiniteSet(Busy \cup {e})
        /\ Cardinality(Busy \cup {e}) <= Cardinality(Busy) + 1
        /\ Cardinality(Busy) \in Nat
        /\ Cardinality(Busy \cup {e}) \in Nat
    <3>1. IsFiniteSet(Busy \cup {e})
      BY <2>8, FS_AddElement
    <3>2. Cardinality(Busy) \in Nat /\ Cardinality(Busy \cup {e}) \in Nat
      BY <2>8, <3>1, FS_CardinalityType
    <3>3. Cardinality(Busy \cup {e}) = Cardinality(Busy) \/ Cardinality(Busy \cup {e}) = Cardinality(Busy) + 1
      BY <2>8, FS_AddElement
    <3>4. QED
      BY <3>1, <3>2, <3>3
  <2>10. Cardinality(Busy') <= Cardinality(Busy \cup {e}) /\ Cardinality(Busy') \in Nat
    BY <2>6, <2>9, FS_Subset, FS_CardinalityType
  <2>11. threads' \in 0..Threads /\ threads' = threads
    BY <1>0, <2>3 DEF ClientType
  <2>12. ThreadForEach'
    BY <2>3, <2>9, <2>10, <2>11, SyncAssumption DEF ThreadForEach
  <2>13. refresh \in {"running", "done"}
    BY <2>3, <2>4, PageAtWork
  <2>14. RelayInv'
    BY <2>3, RelaySame
  <2>15. Announced' = Announced
    BY <2>3 DEF Announced
  <2>16. store' \in SUBSET (Envelopes \cup Own) /\ store \subseteq store' /\ cursor' \in 0..MaxClock
        /\ results' \in SUBSET Envelopes /\ batches' \in SUBSET Seq(Envelopes)
    BY <1>0, <2>3 DEF ClientType
  <2> HIDE DEF s, e
  <2>17. QED
    BY <2>3, <2>4, <2>5, <2>11, <2>12, <2>13, <2>14, <2>15, <2>16, TaskStep
<1>3. QED
  BY <1>1, <1>2

\* A message of one's own is shown and on its way to the disk.
LEMMA OwnStep ==
    ASSUME SyncInv, NEW o \in Own, SaveOwn(o)
    PROVE  SyncInv'
<1>0. ClientType /\ RelayInv /\ ChatInv /\ PageNotBegun /\ ThreadForEach /\ OnlyDeletable /\ AllHeld
  BY DEF SyncInv
<1> DEFINE s == <<"own", o>>
           x == [stage |-> "read", time |-> clock]
<1>1. /\ task[s] = Idle /\ task' = [task EXCEPT ![s] = x]
      /\ chat' = IF o \in known THEN chat ELSE Append(chat, o)
      /\ known' = known \cup {o}
      /\ UNCHANGED relayVars
      /\ UNCHANGED <<store, cursor, refresh, from, tries, threads, page, results, batches, deleting,
                     nputs, drops, restarts>>
  BY DEF SaveOwn
<1>2. s \in Slots /\ s[1] = "own" /\ s[2] = o /\ x \in Works /\ x.stage = "read"
  BY <1>0, SlotFacts DEF RelayInv, RelayTypeOK, Works, Stages
<1>3. \A e \in Envelopes : <<"page", e>> \in Slots /\ <<"page", e>> # s
  BY SlotFacts
<1> HIDE DEF s, x
<1>4. /\ task' \in [Slots -> Works]
      /\ task'[s] = x
      /\ \A q \in Slots : q # s => task'[q] = task[q]
  BY <1>0, <1>1, <1>2, PutFacts DEF ClientType
<1>5. /\ Append(chat, o) \in Seq(Envelopes \cup Own)
      /\ ToSet(Append(chat, o)) = ToSet(chat) \cup {o}
      /\ o \notin known => IsInjective(Append(chat, o))
  <2>1. chat \in Seq(Envelopes \cup Own) /\ o \in Envelopes \cup Own
    BY <1>0 DEF ClientType
  <2>2. IsInjective(chat) /\ (o \notin known => o \notin ToSet(chat))
    BY <1>0 DEF ChatInv
  <2>3. QED
    BY <2>1, <2>2, AppendOnce
<1>6. RelayInv'
  BY <1>1, RelaySame
<1>7. ClientType'
  BY <1>0, <1>1, <1>4, <1>5 DEF ClientType
<1>8. PageNotBegun' /\ OnlyDeletable'
  BY <1>0, <1>1, <1>3, <1>4 DEF PageNotBegun, OnlyDeletable
<1>9. ThreadForEach'
  BY <1>0, <1>1, <1>3, <1>4, BusyShrinks
<1>10. ChatInv'
  BY <1>0, <1>1, <1>5 DEF ChatInv
<1>11. AllHeld'
  <2>1. Held(o)'
    BY <1>2, <1>4 DEF Held, Saving
  <2>2. Announced' \subseteq Announced \cup {o}
    BY <1>1, <1>5 DEF Announced
  <2>3. task[s].stage = "none"
    BY <1>1, IdleFacts
  <2>4. QED
    BY <1>0, <1>1, <1>4, <2>1, <2>2, <2>3, HeldKept
<1>12. QED
  BY <1>6, <1>7, <1>8, <1>9, <1>10, <1>11 DEF SyncInv

\* A refresh begins, is answered and ends.
LEMMA RefreshSteps ==
    ASSUME SyncInv, StartRefresh \/ RefreshFails \/ PageAnswered \/ RefreshDone
    PROVE  SyncInv'
<1>0. ClientType /\ RelayInv /\ ChatInv /\ PageNotBegun /\ ThreadForEach /\ OnlyDeletable /\ AllHeld
  BY DEF SyncInv
<1>1. /\ UNCHANGED relayVars
      /\ UNCHANGED <<store, cursor, threads, chat, known, deleting, nputs, drops, restarts>>
  BY DEF StartRefresh, RefreshFails, PageAnswered, RefreshDone
<1>2. RelayInv'
  BY <1>1, RelaySame
<1>3. ChatInv' /\ OnlyDeletable'
  BY <1>0, <1>1 DEF ChatInv, OnlyDeletable
<1>4. CASE StartRefresh \/ RefreshFails
  <2>1. /\ UNCHANGED <<task, page, results, batches>>
        /\ refresh \in {"idle", "asking"} /\ refresh' \in {"idle", "asking", "failed"}
        /\ from' \in {from, cursor} /\ tries' \in {tries, tries + 1}
        /\ tries' # tries => tries < MaxRetries
    BY <1>4 DEF StartRefresh, RefreshFails
  <2>2. ClientType'
    <3>1. tries' \in 0..MaxRetries
      BY <1>0, <2>1, SyncAssumption DEF ClientType
    <3>2. from' \in 0..MaxClock
      BY <1>0, <2>1 DEF ClientType
    <3>3. QED
      BY <1>0, <1>1, <2>1, <3>1, <3>2 DEF ClientType
  <2>3. PageNotBegun'
    BY <1>0, <2>1 DEF PageNotBegun
  <2>4. ThreadForEach' /\ AllHeld'
    BY <1>0, <1>1, <2>1, HeldSame DEF ThreadForEach, Busy, PageTasks
  <2>5. QED
    BY <1>2, <1>3, <2>2, <2>3, <2>4 DEF SyncInv
<1>5. CASE PageAnswered
  <2> DEFINE M == GetMessages(from)
             Of(s) == CHOOSE r \in M : r.env = s[2]
  <2>1. /\ refresh = "asking" /\ refresh' = "running"
        /\ UNCHANGED <<from, tries, results, batches>>
        /\ \E R \in InOrder(M) : page' = [i \in DOMAIN R |-> R[i].env]
        /\ task' = [s \in Slots |->
                  IF \E r \in M : s = <<"page", r.env>> THEN Queued(Of(s)) ELSE task[s]]
    BY <1>5 DEF PageAnswered
  <2>2. M \subseteq mailbox /\ M \subseteq Records
    BY <1>0 DEF GetMessages, RelayInv, RelayTypeOK
  <2>3. IsFiniteSet(M)
    BY <1>0, <2>2, FS_Subset DEF RelayInv
  <2> HIDE DEF M
  <2>4. page' \in Seq(Envelopes)
    <3>1. PICK R \in SetToSeqs(M) : page' = [i \in DOMAIN R |-> R[i].env]
      BY <2>1 DEF InOrder
    <3>2. R \in Seq(M)
      BY <2>3, OrderOnce
    <3>3. \A i \in 1..Len(R) : R[i].env \in Envelopes
      BY <2>2, <3>2 DEF Records
    <3>4. DOMAIN R = 1..Len(R) /\ Len(R) \in Nat
      BY <3>2
    <3>5. QED
      BY <3>1, <3>3, <3>4
  <2>5. ASSUME NEW s \in Slots, NEW r \in M, s = <<"page", r.env>>
        PROVE  Queued(Of(s)) \in Works /\ Queued(Of(s)).stage = "queued"
    <3>1. r.env = s[2]
      BY <2>5
    <3>2. Of(s) \in M
      BY <3>1
    <3> DEFINE y == Of(s)
    <3>3. y \in Records
      BY <2>2, <3>2
    <3> HIDE DEF y
    <3>4. Queued(y) \in Works /\ Queued(y).stage = "queued"
      BY <3>3 DEF Queued, Works, Records, Stages
    <3>5. QED
      BY <3>4 DEF y
  <2> HIDE DEF Of
  <2>6. ASSUME NEW s \in Slots
        PROVE  /\ task'[s] \in Works
               /\ \/ task'[s] = task[s]
                  \/ /\ s[1] = "page" /\ s[2] \in Envelopes /\ s = <<"page", s[2]>>
                     /\ task'[s].stage = "queued"
    <3>1. CASE \E r \in M : s = <<"page", r.env>>
      <4>1. PICK r \in M : s = <<"page", r.env>>
        BY <3>1
      <4>2. task'[s] = Queued(Of(s))
        BY <2>1, <3>1
      <4>3. s[1] = "page"
        BY <4>1
      <4>4. QED
        BY <2>5, <4>1, <4>2, <4>3, SlotFacts
    <3>2. CASE ~ \E r \in M : s = <<"page", r.env>>
      <4>1. task'[s] = task[s]
        BY <2>1, <3>2
      <4>2. QED
        BY <1>0, <4>1 DEF ClientType
    <3>3. QED
      BY <3>1, <3>2
  <2>7. task' \in [Slots -> Works]
    <3>1. task' = [s \in Slots |-> task'[s]]
      BY <2>1
    <3>2. QED
      BY <2>6, <3>1
  <2>8. ClientType'
    BY <1>0, <1>1, <2>1, <2>4, <2>7 DEF ClientType
  <2>9. PageNotBegun'
    BY <2>1 DEF PageNotBegun
  <2>10. ThreadForEach'
    <3>1. \A e \in Envelopes : task'[<<"page", e>>].stage \in {"lookup", "open"} =>
               task[<<"page", e>>].stage \in {"lookup", "open"}
      BY <2>6, SlotFacts
    <3>2. QED
      BY <1>0, <1>1, <3>1, BusyShrinks
  <2>11. AllHeld'
    <3>1. Announced' = Announced
      BY <1>1, <2>1 DEF Announced
    <3>2. \A s \in Slots : s[1] = "page" /\ s[2] \in Envelopes /\ s = <<"page", s[2]>> => task[s].stage = "none"
      BY <1>0, <2>1, IdleFacts DEF PageNotBegun
    <3>3. \A s \in Slots : task[s].stage \in {"read", "write", "put"} =>
               task'[s].stage \in {"read", "write", "put"} \/ s[2] \in store'
      BY <2>6, <3>2
    <3>4. QED
      BY <1>0, <1>1, <3>1, <3>3, HeldKept
  <2>12. QED
    BY <1>2, <1>3, <2>8, <2>9, <2>10, <2>11 DEF SyncInv
<1>6. CASE RefreshDone
  <2> DEFINE at == {i \in DOMAIN page : page[i] \in results}
             b == Picked(page, at)
  <2>1. /\ refresh' = "done" /\ results' = {} /\ batches' = batches \cup {b}
        /\ UNCHANGED <<task, from, tries, page>>
    BY <1>6 DEF RefreshDone
  <2>2. page \in Seq(Envelopes) /\ at \subseteq DOMAIN page
    BY <1>0 DEF ClientType
  <2>3. b \in Seq(Envelopes) /\ ToSet(b) = {page[i] : i \in at}
    <3> HIDE DEF at
    <3>1. QED
      BY <2>2, PickedProperties
  <2>4. ToSet(b) \subseteq results
    BY <2>3
  <2> HIDE DEF b
  <2>5. ClientType'
    BY <1>0, <1>1, <2>1, <2>3 DEF ClientType
  <2>6. PageNotBegun'
    BY <2>1 DEF PageNotBegun
  <2>7. ThreadForEach'
    BY <1>0, <1>1, <2>1 DEF ThreadForEach, Busy, PageTasks
  <2>8. AllHeld'
    <3>1. Announced' \subseteq Announced
      BY <1>1, <2>1, <2>4 DEF Announced
    <3>2. QED
      BY <1>0, <1>1, <2>1, <3>1, HeldKept
  <2>9. QED
    BY <1>2, <1>3, <2>5, <2>6, <2>7, <2>8 DEF SyncInv
<1>7. QED
  BY <1>4, <1>5, <1>6

\* The chat takes a batch, and messages are deleted.
LEMMA ChatSteps ==
    ASSUME SyncInv,
           \/ \E b \in batches : receiveMessages(b)
           \/ \E e \in Envelopes : \/ deleteMessage(e) \/ RelayDeletes(e)
                                   \/ DeleteFails(e) \/ LocalDelete(e)
    PROVE  SyncInv'
<1>0. ClientType /\ RelayInv /\ ChatInv /\ PageNotBegun /\ ThreadForEach /\ OnlyDeletable /\ AllHeld
  BY DEF SyncInv
<1>1. UNCHANGED <<cursor, task, refresh, from, tries, threads, page, results, nputs, drops, restarts>>
  BY DEF receiveMessages, deleteMessage, RelayDeletes, DeleteFails, LocalDelete
<1>2. PageNotBegun' /\ ThreadForEach'
  BY <1>0, <1>1 DEF PageNotBegun, ThreadForEach, Busy, PageTasks
<1>3. CASE \E b \in batches : receiveMessages(b)
  <2>1. PICK b \in batches : receiveMessages(b)
    BY <1>3
  <2>2. /\ batches' = batches \ {b}
        /\ chat' = chat \o Taken(b)
        /\ known' = known \cup ToSet(Taken(b))
        /\ UNCHANGED relayVars /\ UNCHANGED <<store, deleting>>
    BY <2>1 DEF receiveMessages
  <2>3. b \in Seq(Envelopes)
    BY <1>0 DEF ClientType
  <2> DEFINE t == Taken(b)
  <2>4. /\ t \in Seq(Envelopes) /\ IsInjective(t)
        /\ ToSet(t) \subseteq ToSet(b) /\ ToSet(t) \cap known = {}
    BY <2>3, TakenFacts
  <2>5. chat' = chat \o t /\ known' = known \cup ToSet(t)
    BY <2>2
  <2> HIDE DEF t
  <2>6. /\ chat' \in Seq(Envelopes \cup Own)
        /\ ToSet(chat') = ToSet(chat) \cup ToSet(t)
        /\ IsInjective(chat')
    <3>1. chat \in Seq(Envelopes \cup Own) /\ t \in Seq(Envelopes \cup Own)
      BY <1>0, <2>4 DEF ClientType
    <3>2. IsInjective(chat) /\ ToSet(chat) \cap ToSet(t) = {}
      BY <1>0, <2>4 DEF ChatInv
    <3>3. QED
      BY <2>4, <2>5, <3>1, <3>2, ConcatOnce
  <2>7. known' \in SUBSET (Envelopes \cup Own)
    <3>1. ToSet(t) \subseteq Envelopes
      BY <2>4 DEF ToSet
    <3>2. QED
      BY <1>0, <2>5, <3>1 DEF ClientType
  <2>8. ClientType'
    BY <1>0, <1>1, <2>2, <2>6, <2>7 DEF ClientType
  <2>9. ChatInv' /\ OnlyDeletable'
    BY <1>0, <2>2, <2>5, <2>6 DEF ChatInv, OnlyDeletable
  <2>10. Announced' \subseteq Announced
    BY <1>1, <2>2, <2>4, <2>6 DEF Announced
  <2>11. AllHeld'
    BY <1>0, <1>1, <2>2, <2>10, HeldKept
  <2>12. RelayInv'
    BY <2>2, RelaySame
  <2>13. QED
    BY <1>2, <2>8, <2>9, <2>11, <2>12 DEF SyncInv
<1>4. CASE \E e \in Envelopes : deleteMessage(e) \/ RelayDeletes(e) \/ DeleteFails(e)
  <2>1. PICK e \in Envelopes : deleteMessage(e) \/ RelayDeletes(e) \/ DeleteFails(e)
    BY <1>4
  <2>2. /\ UNCHANGED <<store, batches, chat, known>>
        /\ \/ e \in Deletable /\ deleting' = [deleting EXCEPT ![e] = "asked"]
           \/ deleting[e] = "asked" /\ deleting' = [deleting EXCEPT ![e] = "gone"]
           \/ deleting' = [deleting EXCEPT ![e] = "no"]
        /\ DeleteMessage(e) \/ UNCHANGED relayVars
    BY <2>1 DEF deleteMessage, RelayDeletes, DeleteFails
  <2>3. ClientType'
    BY <1>0, <1>1, <2>2 DEF ClientType
  <2>4. OnlyDeletable'
    BY <1>0, <2>2 DEF OnlyDeletable, ClientType
  <2>5. ChatInv' /\ AllHeld'
    BY <1>0, <1>1, <2>2, HeldSame DEF ChatInv
  <2>6. RelayInv'
    BY <1>0, <2>2, RelaySame, RelayStep DEF RelayStepped
  <2>7. QED
    BY <1>2, <2>3, <2>4, <2>5, <2>6 DEF SyncInv
<1>5. CASE \E e \in Envelopes : LocalDelete(e)
  <2>1. PICK e \in Envelopes : LocalDelete(e)
    BY <1>5
  <2>2. /\ deleting[e] = "gone" /\ deleting' = [deleting EXCEPT ![e] = "no"]
        /\ store' = store \ {e} /\ known' = known \ {e}
        /\ chat' = Without(chat, e)
        /\ UNCHANGED relayVars /\ batches' = batches
    BY <2>1 DEF LocalDelete
  <2>3. e \in Deletable
    BY <1>0, <2>2 DEF OnlyDeletable
  <2>4. /\ chat' \in Seq(Envelopes \cup Own)
        /\ ToSet(chat') \subseteq ToSet(chat)
        /\ IsInjective(chat') /\ e \notin ToSet(chat')
    <3>1. chat \in Seq(Envelopes \cup Own) /\ IsInjective(chat)
      BY <1>0 DEF ClientType, ChatInv
    <3>2. QED
      BY <2>2, <3>1, WithoutFacts
  <2>5. ClientType'
    BY <1>0, <1>1, <2>2, <2>4 DEF ClientType
  <2>6. OnlyDeletable' /\ ChatInv'
    BY <1>0, <2>2, <2>4 DEF OnlyDeletable, ClientType, ChatInv
  <2>7. Announced' \subseteq Announced
    BY <1>1, <2>2, <2>4 DEF Announced
  <2>8. AllHeld'
    BY <1>0, <1>1, <2>2, <2>3, <2>7, HeldKept
  <2>9. RelayInv'
    BY <2>2, RelaySame
  <2>10. QED
    BY <1>2, <2>5, <2>6, <2>8, <2>9 DEF SyncInv
<1>6. QED
  BY <1>3, <1>4, <1>5

\* The client ends at any point and reads its store again.
LEMMA RestartStep ==
    ASSUME SyncInv, Restart
    PROVE  SyncInv'
<1>0. ClientType /\ RelayInv
  BY DEF SyncInv
<1>1. /\ restarts < MaxRestarts /\ restarts' = restarts + 1
      /\ task' = [s \in Slots |-> Idle]
      /\ refresh' = "idle" /\ from' = 0 /\ tries' = 0 /\ threads' = Threads
      /\ page' = <<>> /\ results' = {} /\ batches' = {}
      /\ chat' = SetToSeq(store) /\ known' = store
      /\ deleting' = [e \in Envelopes |-> "no"]
      /\ socket' = FALSE /\ wire' = <<>>
      /\ UNCHANGED <<clock, mailbox, payloads, store, cursor, nputs, drops>>
  BY DEF Restart
<1>2. Idle \in Works /\ Idle.stage = "none"
  BY IdleFacts
<1>3. store \subseteq Envelopes \cup Own
  BY <1>0 DEF ClientType
<1>4. IsFiniteSet(store)
  BY <1>3, SyncAssumption, FS_Union, FS_Subset
<1>5. chat' \in Seq(store) /\ IsInjective(chat') /\ ToSet(chat') = store
  BY <1>1, <1>4, SomeOrder, OrderOnce
<1>6. task' \in [Slots -> Works]
  BY <1>1, <1>2
<1>7. ClientType'
  <2>1. chat' \in Seq(Envelopes \cup Own)
    BY <1>3, <1>5
  <2>2. page' \in Seq(Envelopes)
    BY <1>1
  <2>3. restarts' \in 0..MaxRestarts
    BY <1>0, <1>1, SyncAssumption DEF ClientType
  <2>4. from' \in 0..MaxClock /\ tries' \in 0..MaxRetries /\ threads' \in 0..Threads
    BY <1>1, SyncAssumption, RelayAssumption
  <2>5. QED
    BY <1>0, <1>1, <1>6, <2>1, <2>2, <2>3, <2>4 DEF ClientType
<1>8. RelayInv'
  <2>1. RelayStepped
    BY <1>1 DEF RelayStepped
  <2>2. QED
    BY <1>0, <2>1, RelayStep
<1>9. PageNotBegun' /\ OnlyDeletable'
  BY <1>1, SlotFacts DEF PageNotBegun, OnlyDeletable
<1>10. ThreadForEach'
  <2>1. Busy' = {}
    BY <1>1, <1>2, SlotFacts DEF Busy, PageTasks
  <2>2. Cardinality(Busy') = 0
    BY <2>1, FS_EmptySet
  <2>3. QED
    BY <1>1, <2>2, SyncAssumption DEF ThreadForEach
<1>11. ChatInv'
  BY <1>1, <1>5 DEF ChatInv
<1>12. AllHeld'
  <2>1. Announced' = store'
    BY <1>1, <1>5 DEF Announced
  <2>2. QED
    BY <2>1 DEF AllHeld, Held
<1>13. QED
  BY <1>7, <1>8, <1>9, <1>10, <1>11, <1>12 DEF SyncInv

\* Every step of the senders, the relay, the client and the user keeps the
\* invariant.
LEMMA SyncStepInv == SyncInv /\ [Next]_vars => SyncInv'
<1> SUFFICES ASSUME SyncInv, [Next]_vars PROVE SyncInv'
  OBVIOUS
<1>1. CASE UNCHANGED vars
  <2>1. RelayInv' /\ AllHeld'
    BY <1>1, RelaySame, HeldSame DEF vars, clientVars, SyncInv
  <2>2. ClientType'
    BY <1>1 DEF vars, clientVars, SyncInv, ClientType
  <2>3. PageNotBegun' /\ ThreadForEach' /\ ChatInv' /\ OnlyDeletable'
    BY <1>1 DEF vars, clientVars, SyncInv, PageNotBegun, ThreadForEach, Busy, PageTasks, ChatInv,
                OnlyDeletable
  <2>4. QED
    BY <2>1, <2>2, <2>3 DEF SyncInv
<1>2. CASE Next
  BY <1>2, EnvironmentSteps, WorkSteps, ThrowStep, TakeSteps, OwnStep, RefreshSteps, ChatSteps,
     RestartStep DEF Next, Work, PageStep
<1>3. QED
  BY <1>1, <1>2

-----------------------------------------------------------------------------
(* The theorems.                                                           *)

\* The client's picture of its mailbox stays consistent through retried PUTs,
\* broken sockets, restarts of the relay and of the client, throwing messages
\* and deletions.
THEOREM SyncInvariant == Spec => []SyncInv
<1>1. QED
  BY SyncInitInv, SyncStepInv, PTL DEF Spec

\* Relay, message store and chat keep their types; in particular pAll never
\* loses more threads than it has (relay/index.ts).
THEOREM SyncTypeCorrect == Spec => []TypeOK
<1>1. SyncInv => TypeOK
  BY DEF SyncInv, RelayInv, ClientType, Works, TypeOK
<1>2. QED
  BY <1>1, SyncInvariant, PTL

\* A message is in the chat once, however often it is brought
\* (receiveMessages of stores/chats.ts).
THEOREM ShownOnceTheorem == Spec => []ShownOnce
<1>1. SyncInv => ShownOnce
  BY DEF SyncInv, ChatInv, IsInjective, ShownOnce
<1>2. QED
  BY <1>1, SyncInvariant, PTL

\* A message that the chat shows is in the message store or being written to
\* it, although a refresh does not wait for saveMessage (relay/index.ts).
THEOREM SavedTheorem == Spec => []ShownIsSavedOrSaving
<1>1. SyncInv => ShownIsSavedOrSaving
  BY DEF SyncInv, AllHeld, Announced, Held, ShownIsSavedOrSaving
<1>2. QED
  BY <1>1, SyncInvariant, PTL

\* The relay has the payload of exactly the messages it lists
\* (local-services/server.js).
THEOREM PayloadsTheorem == Spec => []PayloadsListed
<1>1. SyncInv => PayloadsListed
  BY DEF SyncInv, RelayInv
<1>2. QED
  BY <1>1, SyncInvariant, PTL

\* The relay keeps one copy of an envelope, however often its PUT is repeated
\* (the "exists" test of local-services/server.js).
THEOREM OneCopyTheorem == Spec => []OneCopy
<1>1. SyncInv => OneCopy
  BY DEF SyncInv, RelayInv
<1>2. QED
  BY <1>1, SyncInvariant, PTL
=============================================================================
