--------------------------- MODULE PaidSendProofs ---------------------------
(***************************************************************************)
(* Proofs about the paid send: the safety properties of PaidSend hold for  *)
(* every set of envelopes and items, every number of attempts and crashes, *)
(* and every choice of the envelopes that the relay accepts.               *)
(***************************************************************************)
EXTENDS PaidSend, TLAPS

\* Every variable keeps its type: the shape of sendMessageImpl's progress, of
\* the requests on the network and of the relay's tables.
LEMMA TypeStep == TypeOK /\ AttemptsBounded /\ [Next]_vars => TypeOK'
<1> SUFFICES ASSUME TypeOK, AttemptsBounded, [Next]_vars PROVE TypeOK'
    OBVIOUS
<1> USE SendAssumption, RelayAssumption
<1>1. ASSUME NEW e \in Envelopes, sendMessageImpl(e) PROVE TypeOK'
  BY <1>1 DEF sendMessageImpl, Begin, TypeOK, RelayTypeOK, relayVars, Stages, Busy, Statuses
<1>2. ASSUME NEW e \in Envelopes, NEW f \in Envelopes, resend(e, f) PROVE TypeOK'
  BY <1>2 DEF resend, Begin, TypeOK, RelayTypeOK, relayVars, Stages, Busy, Statuses
<1>3. ASSUME NEW e \in Envelopes, SendStep(e) PROVE TypeOK'
  <2>1. CASE InputsChecked(e) \/ validateMessages(e) \/ broadcastTxs(e)
    BY <2>1 DEF InputsChecked, validateMessages, broadcastTxs, Proceed, TypeOK, RelayTypeOK, relayVars, Stages, Busy
  <2>2. CASE SendFails(e)
    BY <2>2 DEF SendFails, Throw, TypeOK, RelayTypeOK, relayVars, Stages, Busy, Statuses
  <2>3. CASE BroadcastReplied(e) \/ Retry(e)
    <3>1. stage[e] \in {"accepted", "waiting"}
      BY <2>3 DEF BroadcastReplied, Retry, pushMessages, Proceed
    <3>2. attempt[e] \in 0..MaxAttempts
      BY DEF TypeOK
    <3>3. attempt[e] + 1 \in 1..MaxAttempts
      BY <3>1, <3>2 DEF AttemptsBounded
    <3>4. attempt' \in [Envelopes -> 0..MaxAttempts]
      BY <2>3, <3>3 DEF BroadcastReplied, Retry, pushMessages, TypeOK
    <3>5. puts' \in SUBSET (Envelopes \X (1..MaxAttempts))
      BY <2>3, <3>3 DEF BroadcastReplied, Retry, pushMessages, TypeOK
    <3>6. stage' \in [Envelopes -> Stages]
      BY <2>3 DEF BroadcastReplied, Retry, pushMessages, Proceed, TypeOK, Stages, Busy
    <3> QED BY <2>3, <3>4, <3>5, <3>6
            DEF BroadcastReplied, Retry, pushMessages, TypeOK, RelayTypeOK, relayVars
  <2>4. CASE PushSucceeds(e) \/ PushLost(e)
    BY <2>4 DEF PushSucceeds, PushLost, Proceed, Forget, TypeOK, RelayTypeOK, relayVars, Stages, Busy
  <2>5. CASE PushRefused(e) \/ PushGivenUp(e)
    BY <2>5 DEF PushRefused, PushGivenUp, Throw, Forget, TypeOK, RelayTypeOK, relayVars, Stages, Busy, Statuses
  <2>6. CASE \E ok \in BOOLEAN : SaveOutbound(e, ok)
    BY <2>6 DEF SaveOutbound, Proceed, TypeOK, RelayTypeOK, relayVars, Stages, Busy
  <2>7. CASE MessageSent(e)
    BY <2>7 DEF MessageSent, Proceed, TypeOK, RelayTypeOK, relayVars, Stages, Busy, Statuses
  <2> QED BY <1>3, <2>1, <2>2, <2>3, <2>4, <2>5, <2>6, <2>7 DEF SendStep
<1>4. ASSUME NEW p \in puts, PutTaken(p) PROVE TypeOK'
  <2>1. p[1] \in Envelopes /\ p[2] \in 1..MaxAttempts /\ p = <<p[1], p[2]>>
    BY <1>4 DEF TypeOK
  <2>2. [env |-> p[1], time |-> clock] \in Records
    BY <2>1 DEF Records, TypeOK, RelayTypeOK
  <2>3. RelayTypeOK'
    BY <1>4, <2>1, <2>2 DEF PutTaken, PutMessage, TypeOK, RelayTypeOK
  <2>4. answers' \in SUBSET (Envelopes \X (1..MaxAttempts) \X Codes)
    BY <1>4, <2>1 DEF PutTaken, Answer, TypeOK, Codes
  <2> QED BY <1>4, <2>1, <2>3, <2>4 DEF PutTaken, TypeOK
<1>5. ASSUME NEW p \in puts, PutRefused(p) PROVE TypeOK'
  BY <1>5 DEF PutRefused, Answer, TypeOK, RelayTypeOK, relayVars, Codes
<1>6. CASE Crash
  BY <1>6 DEF Crash, TypeOK, RelayTypeOK, relayVars, Stages, Busy, Statuses
<1>7. ASSUME NEW e \in Envelopes, RecipientDeletes(e) PROVE TypeOK'
  BY <1>7 DEF RecipientDeletes, DeleteMessage, sendVars, TypeOK, RelayTypeOK
<1>8. CASE RelayStep
  <2>1. UNCHANGED sendVars /\ RelayTypeOK'
    <3>1. CASE Tick
      <4>1. clock' \in 0..MaxClock
        <5>1. clock \in 0..MaxClock /\ clock < MaxClock /\ clock' = clock + 1
          BY <3>1 DEF Tick, TypeOK, RelayTypeOK
        <5> QED BY <5>1
      <4> QED BY <1>8, <3>1, <4>1 DEF RelayStep, Tick, TypeOK, RelayTypeOK
    <3>2. CASE RelayRestart
      <4>1. clock' \in 0..MaxClock
        BY <3>2 DEF RelayRestart, TypeOK, RelayTypeOK
      <4>2. mailbox' = {} /\ payloads' = {} /\ socket' = FALSE /\ wire' = <<>>
        BY <3>2 DEF RelayRestart
      <4>3. mailbox' \in SUBSET Records /\ payloads' \in SUBSET Envelopes
        BY <4>2
      <4>4. socket' \in BOOLEAN
        BY <4>2
      <4>5. wire' \in Seq(Records)
        BY <4>2
      <4> QED BY <1>8, <4>1, <4>3, <4>4, <4>5 DEF RelayStep, RelayTypeOK
    <3> QED BY <1>8, <3>1, <3>2 DEF RelayStep
  <2> QED BY <2>1 DEF sendVars, TypeOK
<1>9. CASE UNCHANGED vars
  BY <1>9 DEF vars, relayVars, sendVars, TypeOK, RelayTypeOK
<1> QED BY <1>1, <1>2, <1>3, <1>4, <1>5, <1>6, <1>7, <1>8, <1>9 DEF Next

\* What the steps of a send may do to its progress, its payment and its
\* requests (all but the relay's own tables).
LEMMA PaidStep ==
    TypeOK /\ AttemptsBounded /\ PaidFollows /\ [Next]_vars
        => AttemptsBounded' /\ PaidFollows'
<1> SUFFICES ASSUME TypeOK, AttemptsBounded, PaidFollows, [Next]_vars
             PROVE  AttemptsBounded' /\ PaidFollows'
    OBVIOUS
<1> USE DEF AttemptsBounded, PaidFollows, PaidStages, TypeOK
<1>1. ASSUME NEW e \in Envelopes, sendMessageImpl(e) PROVE AttemptsBounded' /\ PaidFollows'
  BY <1>1 DEF sendMessageImpl, Begin
<1>2. ASSUME NEW e \in Envelopes, NEW f \in Envelopes, resend(e, f)
      PROVE  AttemptsBounded' /\ PaidFollows'
  BY <1>2 DEF resend, Begin
<1>3. ASSUME NEW e \in Envelopes, SendStep(e) PROVE AttemptsBounded' /\ PaidFollows'
  <2>1. CASE InputsChecked(e) \/ validateMessages(e) \/ broadcastTxs(e)
    BY <2>1 DEF InputsChecked, validateMessages, broadcastTxs, Proceed
  <2>2. CASE SendFails(e)
    BY <2>2 DEF SendFails, Throw
  <2>3. CASE BroadcastReplied(e) \/ Retry(e)
    BY <2>3, SendAssumption DEF BroadcastReplied, Retry, pushMessages, Proceed
  <2>4. CASE PushSucceeds(e) \/ PushLost(e)
    BY <2>4 DEF PushSucceeds, PushLost, Proceed, Forget
  <2>5. CASE PushRefused(e) \/ PushGivenUp(e)
    BY <2>5 DEF PushRefused, PushGivenUp, Throw, Forget
  <2>6. CASE (\E ok \in BOOLEAN : SaveOutbound(e, ok)) \/ MessageSent(e)
    BY <2>6 DEF SaveOutbound, MessageSent, Proceed
  <2> QED BY <1>3, <2>1, <2>2, <2>3, <2>4, <2>5, <2>6 DEF SendStep
<1>4. ASSUME NEW p \in puts, PutTaken(p) \/ PutRefused(p)
      PROVE  AttemptsBounded' /\ PaidFollows'
  BY <1>4 DEF PutTaken, PutRefused, Answer
<1>5. CASE Crash
  BY <1>5 DEF Crash, Busy
<1>6. ASSUME NEW e \in Envelopes, RecipientDeletes(e) PROVE AttemptsBounded' /\ PaidFollows'
  BY <1>6 DEF RecipientDeletes, sendVars
<1>7. CASE RelayStep \/ UNCHANGED vars
  BY <1>7 DEF RelayStep, vars, sendVars
<1> QED BY <1>1, <1>2, <1>3, <1>4, <1>5, <1>6, <1>7 DEF Next

\* Answers are true, and a delivered message was taken by the relay.
LEMMA TakenStep ==
    TypeOK /\ TakenFollows /\ [Next]_vars => TakenFollows'
<1> SUFFICES ASSUME TypeOK, TakenFollows, [Next]_vars
             PROVE  TakenFollows'
    OBVIOUS
<1> USE DEF TakenFollows, TypeOK
<1>1. ASSUME NEW e \in Envelopes, sendMessageImpl(e) PROVE TakenFollows'
  BY <1>1 DEF sendMessageImpl, Begin
<1>2. ASSUME NEW e \in Envelopes, NEW f \in Envelopes, resend(e, f)
      PROVE  TakenFollows'
  BY <1>2 DEF resend, Begin
<1>3. ASSUME NEW e \in Envelopes, SendStep(e) PROVE TakenFollows'
  <2>1. CASE InputsChecked(e) \/ validateMessages(e) \/ broadcastTxs(e)
    BY <2>1 DEF InputsChecked, validateMessages, broadcastTxs, Proceed
  <2>2. CASE SendFails(e)
    BY <2>2 DEF SendFails, Throw
  <2>3. CASE BroadcastReplied(e) \/ Retry(e)
    BY <2>3 DEF BroadcastReplied, Retry, pushMessages, Proceed
  <2>4. CASE PushSucceeds(e) \/ PushLost(e)
    BY <2>4 DEF PushSucceeds, PushLost, Proceed, Forget
  <2>5. CASE PushRefused(e) \/ PushGivenUp(e)
    BY <2>5 DEF PushRefused, PushGivenUp, Throw, Forget
  <2>6. CASE (\E ok \in BOOLEAN : SaveOutbound(e, ok)) \/ MessageSent(e)
    BY <2>6 DEF SaveOutbound, MessageSent, Proceed
  <2> QED BY <1>3, <2>1, <2>2, <2>3, <2>4, <2>5, <2>6 DEF SendStep
<1>4. ASSUME NEW p \in puts, PutTaken(p) PROVE TakenFollows'
  BY <1>4 DEF PutTaken, PutMessage, Answer
<1>5. ASSUME NEW p \in puts, PutRefused(p) PROVE TakenFollows'
  BY <1>5 DEF PutRefused, Answer
<1>6. CASE Crash
  BY <1>6 DEF Crash, Busy
<1>7. ASSUME NEW e \in Envelopes, RecipientDeletes(e) PROVE TakenFollows'
  BY <1>7 DEF RecipientDeletes, sendVars
<1>8. CASE RelayStep \/ UNCHANGED vars
  BY <1>8 DEF RelayStep, vars, sendVars
<1> QED BY <1>1, <1>2, <1>3, <1>4, <1>5, <1>6, <1>7, <1>8 DEF Next

\* Nothing is broadcast that the preflight has not let through.
LEMMA PreflightStep ==
    TypeOK /\ PreflightHolds /\ [Next]_vars => PreflightHolds'
<1> SUFFICES ASSUME TypeOK, PreflightHolds, [Next]_vars, LocalRelay
             PROVE  PreflightHolds'
    BY DEF PreflightHolds
<1> USE DEF PreflightHolds, TypeOK, Accepts
<1>1. ASSUME NEW e \in Envelopes, sendMessageImpl(e) PROVE PreflightHolds'
  BY <1>1 DEF sendMessageImpl, Begin
<1>2. ASSUME NEW e \in Envelopes, NEW f \in Envelopes, resend(e, f)
      PROVE  PreflightHolds'
  BY <1>2 DEF resend, Begin
<1>3. ASSUME NEW e \in Envelopes, SendStep(e) PROVE PreflightHolds'
  <2>1. CASE InputsChecked(e) \/ validateMessages(e) \/ broadcastTxs(e)
    BY <2>1 DEF InputsChecked, validateMessages, broadcastTxs, Proceed
  <2>2. CASE SendFails(e)
    BY <2>2 DEF SendFails, Throw
  <2>3. CASE BroadcastReplied(e) \/ Retry(e)
    BY <2>3 DEF BroadcastReplied, Retry, pushMessages, Proceed
  <2>4. CASE PushSucceeds(e) \/ PushLost(e)
    BY <2>4 DEF PushSucceeds, PushLost, Proceed
  <2>5. CASE PushRefused(e) \/ PushGivenUp(e)
    BY <2>5 DEF PushRefused, PushGivenUp, Throw
  <2>6. CASE (\E ok \in BOOLEAN : SaveOutbound(e, ok)) \/ MessageSent(e)
    BY <2>6 DEF SaveOutbound, MessageSent, Proceed
  <2> QED BY <1>3, <2>1, <2>2, <2>3, <2>4, <2>5, <2>6 DEF SendStep
<1>4. ASSUME NEW p \in puts, PutTaken(p) \/ PutRefused(p) PROVE PreflightHolds'
  BY <1>4 DEF PutTaken, PutRefused
<1>5. CASE Crash
  BY <1>5 DEF Crash, Busy
<1>6. ASSUME NEW e \in Envelopes, RecipientDeletes(e) PROVE PreflightHolds'
  BY <1>6 DEF RecipientDeletes, sendVars
<1>7. CASE RelayStep \/ UNCHANGED vars
  BY <1>7 DEF RelayStep, vars, sendVars
<1> QED BY <1>1, <1>2, <1>3, <1>4, <1>5, <1>6, <1>7 DEF Next

\* The relay's tables change in four ways: they stay, an envelope that was
\* paid for is put, one is deleted, or they are emptied.
LEMMA RelayMove ==
    ASSUME PaidFollows, [Next]_vars
    PROVE  /\ paid \subseteq paid'
           /\ \/ UNCHANGED <<mailbox, payloads, accepted>>
              \/ \E e \in paid : PutMessage(e) /\ accepted' = accepted \cup {e}
              \/ \E e \in Envelopes : DeleteMessage(e) /\ UNCHANGED accepted
              \/ RelayRestart /\ UNCHANGED accepted
<1>1. ASSUME NEW e \in Envelopes, sendMessageImpl(e) \/ SendStep(e)
      PROVE  paid \subseteq paid' /\ UNCHANGED <<mailbox, payloads, accepted>>
  BY <1>1 DEF sendMessageImpl, Begin, SendStep, InputsChecked, validateMessages,
       broadcastTxs, SendFails, BroadcastReplied, Retry, pushMessages, PushSucceeds,
       PushLost, PushRefused, PushGivenUp, SaveOutbound, MessageSent, relayVars
<1>2. ASSUME NEW e \in Envelopes, NEW f \in Envelopes, resend(e, f)
      PROVE  paid \subseteq paid' /\ UNCHANGED <<mailbox, payloads, accepted>>
  BY <1>2 DEF resend, Begin, relayVars
<1>3. ASSUME NEW p \in puts, PutTaken(p)
      PROVE  /\ paid \subseteq paid'
             /\ \E e \in paid : PutMessage(e) /\ accepted' = accepted \cup {e}
  BY <1>3 DEF PutTaken, PaidFollows
<1>4. ASSUME NEW p \in puts, PutRefused(p)
      PROVE  paid \subseteq paid' /\ UNCHANGED <<mailbox, payloads, accepted>>
  BY <1>4 DEF PutRefused, relayVars
<1>5. ASSUME Crash \/ (Tick /\ UNCHANGED sendVars) \/ UNCHANGED vars
      PROVE  paid \subseteq paid' /\ UNCHANGED <<mailbox, payloads, accepted>>
  BY <1>5 DEF Crash, Tick, vars, relayVars, sendVars
<1>6. ASSUME NEW e \in Envelopes, RecipientDeletes(e)
      PROVE  paid \subseteq paid' /\ DeleteMessage(e) /\ UNCHANGED accepted
  BY <1>6 DEF RecipientDeletes, sendVars
<1>7. ASSUME RelayRestart, UNCHANGED sendVars
      PROVE  paid \subseteq paid' /\ UNCHANGED accepted
  BY <1>7 DEF sendVars
<1> QED BY <1>1, <1>2, <1>3, <1>4, <1>5, <1>6, <1>7 DEF Next, RelayStep

\* The relay holds one copy of what was paid for, with its payload.
LEMMA RelayTablesStep ==
    ASSUME PaidFollows, PaidBeforeRelayed, OneCopy, PayloadsListed, [Next]_vars
    PROVE  PaidBeforeRelayed' /\ OneCopy' /\ PayloadsListed'
<1> USE DEF PaidBeforeRelayed, OneCopy, PayloadsListed, Listed
<1>1. CASE UNCHANGED <<mailbox, payloads, accepted>>
  BY <1>1, RelayMove
<1>2. ASSUME NEW e \in paid, PutMessage(e), accepted' = accepted \cup {e}
      PROVE  PaidBeforeRelayed' /\ OneCopy' /\ PayloadsListed'
  BY <1>2, RelayMove DEF PutMessage, Fresh
<1>3. ASSUME NEW e \in Envelopes, DeleteMessage(e), UNCHANGED accepted
      PROVE  PaidBeforeRelayed' /\ OneCopy' /\ PayloadsListed'
  BY <1>3, RelayMove DEF DeleteMessage
<1>4. CASE RelayRestart /\ UNCHANGED accepted
  BY <1>4, RelayMove DEF RelayRestart
<1> QED BY <1>1, <1>2, <1>3, <1>4, RelayMove

\* A confirmed or saved message was paid for and taken.
LEMMA ConfirmedStep ==
    ASSUME TypeOK, PaidFollows, TakenFollows, ConfirmedWasDelivered, [Next]_vars
    PROVE  ConfirmedWasDelivered'
<1> USE DEF ConfirmedWasDelivered, TypeOK
<1>1. ASSUME NEW e \in Envelopes, sendMessageImpl(e) PROVE ConfirmedWasDelivered'
  BY <1>1 DEF sendMessageImpl, Begin
<1>2. ASSUME NEW e \in Envelopes, NEW f \in Envelopes, resend(e, f)
      PROVE  ConfirmedWasDelivered'
  BY <1>2 DEF resend, Begin
<1>3. ASSUME NEW e \in Envelopes, SendStep(e) PROVE ConfirmedWasDelivered'
  <2>1. CASE InputsChecked(e) \/ validateMessages(e) \/ broadcastTxs(e)
    BY <2>1 DEF InputsChecked, validateMessages, broadcastTxs
  <2>2. CASE SendFails(e)
    BY <2>2 DEF SendFails, Throw
  <2>3. CASE BroadcastReplied(e) \/ Retry(e)
    BY <2>3 DEF BroadcastReplied, Retry, pushMessages
  <2>4. CASE PushSucceeds(e) \/ PushLost(e)
    BY <2>4 DEF PushSucceeds, PushLost
  <2>5. CASE PushRefused(e) \/ PushGivenUp(e)
    BY <2>5 DEF PushRefused, PushGivenUp, Throw
  <2>6. CASE (\E ok \in BOOLEAN : SaveOutbound(e, ok)) \/ MessageSent(e)
    <3>1. e \in accepted /\ e \in paid
      BY <2>6 DEF SaveOutbound, MessageSent, Proceed, TakenFollows, PaidFollows, PaidStages
    <3> QED BY <2>6, <3>1 DEF SaveOutbound, MessageSent
  <2> QED BY <1>3, <2>1, <2>2, <2>3, <2>4, <2>5, <2>6 DEF SendStep
<1>4. ASSUME NEW p \in puts, PutTaken(p) \/ PutRefused(p) PROVE ConfirmedWasDelivered'
  BY <1>4 DEF PutTaken, PutRefused
<1>5. CASE Crash
  BY <1>5 DEF Crash
<1>6. ASSUME NEW e \in Envelopes, RecipientDeletes(e) PROVE ConfirmedWasDelivered'
  BY <1>6 DEF RecipientDeletes, sendVars
<1>7. CASE RelayStep \/ UNCHANGED vars
  BY <1>7 DEF RelayStep, vars, sendVars
<1> QED BY <1>1, <1>2, <1>3, <1>4, <1>5, <1>6, <1>7 DEF Next

\* The inductive invariant: what a send has reached tells what has been paid,
\* what the relay has taken and what its preflight let through.
THEOREM SendInvariant == Spec => []SendInv
<1>1. Init => SendInv
  <2> SUFFICES ASSUME Init PROVE SendInv
      OBVIOUS
  <2>1. TypeOK
    <3>1. RelayTypeOK
      <4>1. clock \in 0..MaxClock
        BY RelayAssumption DEF Init, RelayInit
      <4>2. mailbox \in SUBSET Records /\ payloads \in SUBSET Envelopes
        BY DEF Init, RelayInit
      <4>3. socket = FALSE /\ wire = <<>>
        BY DEF Init, RelayInit
      <4>4. socket \in BOOLEAN
        BY <4>3
      <4>5. wire \in Seq(Records)
        BY <4>3
      <4> QED BY <4>1, <4>2, <4>4, <4>5 DEF RelayTypeOK
    <3>2. attempt \in [Envelopes -> 0..MaxAttempts] /\ crashes \in 0..MaxCrashes
      BY SendAssumption DEF Init
    <3> QED BY <3>1, <3>2 DEF Init, TypeOK, Stages, Statuses
  <2>2. AttemptsBounded /\ PaidFollows /\ TakenFollows
    BY DEF Init, AttemptsBounded, PaidFollows, PaidStages, TakenFollows
  <2>3. PreflightHolds /\ ConfirmedWasDelivered
    BY DEF Init, PreflightHolds, ConfirmedWasDelivered
  <2>4. PaidBeforeRelayed /\ OneCopy /\ PayloadsListed
    BY DEF Init, RelayInit, PaidBeforeRelayed, OneCopy, PayloadsListed, Listed
  <2> QED BY <2>1, <2>2, <2>3, <2>4 DEF SendInv
<1>2. SendInv /\ [Next]_vars => SendInv'
  BY TypeStep, PaidStep, TakenStep, PreflightStep, RelayTablesStep, ConfirmedStep
     DEF SendInv
<1> QED BY <1>1, <1>2, PTL DEF Spec

\* Every variable of the sender, of the network and of the relay keeps its
\* type; in particular no send makes more than MaxAttempts attempts.
THEOREM SendTypeCorrect == Spec => []TypeOK
<1>1. SendInv => TypeOK
  BY DEF SendInv
<1> QED BY <1>1, SendInvariant, PTL

\* The relay never holds an envelope whose stamp was not broadcast.
THEOREM PaidBeforeRelayedTheorem == Spec => []PaidBeforeRelayed
<1>1. SendInv => PaidBeforeRelayed
  BY DEF SendInv
<1> QED BY <1>1, SendInvariant, PTL

\* The localhost relay never refuses an envelope that has been paid for, for
\* whatever sets of envelopes its two checks accept.
THEOREM PaidNeverRefusedTheorem == Spec => []PaidNeverRefused
<1>1. SendInv => PaidNeverRefused
  <2> SUFFICES ASSUME SendInv, LocalRelay, NEW a \in answers, a[3] = "refused"
               PROVE  FALSE
      BY DEF PaidNeverRefused
  <2>1. ~Accepts(a[1]) /\ a[1] \in paid
    BY DEF SendInv, TakenFollows, PaidFollows
  <2>2. a[1] \in Envelopes
    BY <2>1 DEF SendInv, TypeOK
  <2> QED BY <2>1, <2>2 DEF SendInv, PreflightHolds
<1> QED BY <1>1, SendInvariant, PTL

\* A message shown as confirmed was paid for and taken by the relay, across
\* any number of retries, lost replies and restarts.
THEOREM ConfirmedTheorem == Spec => []ConfirmedWasDelivered
<1>1. SendInv => ConfirmedWasDelivered
  BY DEF SendInv
<1> QED BY <1>1, SendInvariant, PTL

\* The relay's mailbox holds one copy of an envelope.
THEOREM OneCopyTheorem == Spec => []OneCopy
<1>1. SendInv => OneCopy
  BY DEF SendInv
<1> QED BY <1>1, SendInvariant, PTL
=============================================================================
