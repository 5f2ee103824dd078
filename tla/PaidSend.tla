------------------------------ MODULE PaidSend ------------------------------
(***************************************************************************)
(* sendMessageImpl and pushMessagesWithRetry (cashweb/relay/index.ts):     *)
(* check the inputs, ask the relay whether it would take the envelope,     *)
(* broadcast the stamp, then deliver the envelope with retries; and the    *)
(* status of the message in the sender's chat, with its resend button.     *)
(*                                                                         *)
(* A step is what runs between two awaits.  Requests and replies may be    *)
(* lost, and a PUT whose sender saw an error may still reach the relay.    *)
(* Which coins a send spends is the subject of module Wallet.              *)
(***************************************************************************)
EXTENDS RelayServer

CONSTANTS
    Items,         \* what the user writes; a resend repeats the item
    LocalRelay,    \* the relay is the one on localhost
    MaxAttempts,   \* maxAttempts of pushMessagesWithRetry
    MaxCrashes     \* bound on the sender's restarts

ASSUME SendAssumption ==
    /\ LocalRelay \in BOOLEAN
    /\ MaxAttempts \in Nat \ {0}
    /\ MaxCrashes \in Nat

VARIABLES
    stage,      \* progress of the send of each envelope
    item,       \* the item an envelope was built from
    attempt,    \* attempt of pushMessagesWithRetry
    puts,       \* PUT requests on their way to the relay
    answers,    \* the relay's answers on their way back
    paid,       \* envelopes whose stamp transaction the network accepted
    status,     \* status of the message in the sender's chat
    saved,      \* outbound messages in the sender's message store
    accepted,   \* history: envelopes the relay has taken
    crashes

sendVars == <<stage, item, attempt, puts, answers, paid, status, saved,
              accepted, crashes>>
vars == <<relayVars, sendVars>>

Busy == {"checking", "validating", "broadcasting", "accepted", "pushing",
         "waiting", "saving", "saved"}
Stages == Busy \cup {"none", "sent", "failed", "undelivered", "dead"}
Statuses == {"absent", "sending", "error", "confirmed"}
Codes == {"ok", "refused"}

TypeOK ==
    /\ RelayTypeOK
    /\ stage \in [Envelopes -> Stages]
    /\ item \in [Envelopes -> Items]
    /\ attempt \in [Envelopes -> 0..MaxAttempts]
    /\ puts \in SUBSET (Envelopes \X (1..MaxAttempts))
    /\ answers \in SUBSET (Envelopes \X (1..MaxAttempts) \X Codes)
    /\ paid \in SUBSET Envelopes
    /\ status \in [Envelopes -> Statuses]
    /\ saved \in SUBSET Envelopes
    /\ accepted \in SUBSET Envelopes
    /\ crashes \in 0..MaxCrashes

Init ==
    /\ RelayInit
    /\ stage = [e \in Envelopes |-> "none"]
    /\ item \in [Envelopes -> Items]
    /\ attempt = [e \in Envelopes |-> 0]
    /\ puts = {}
    /\ answers = {}
    /\ paid = {}
    /\ status = [e \in Envelopes |-> "absent"]
    /\ saved = {}
    /\ accepted = {}
    /\ crashes = 0

-----------------------------------------------------------------------------
\* The part of a send before its first await: the envelope and its stamp are
\* built and "messageSending" puts the message into the chat.
Begin(e) ==
    /\ stage[e] = "none"
    /\ stage' = [stage EXCEPT ![e] = "checking"]
    /\ UNCHANGED <<relayVars, item, attempt, puts, answers, paid, saved,
                   accepted, crashes>>

\* The user sends something new.
sendMessageImpl(e) ==
    /\ \A f \in Envelopes : item[f] = item[e] => stage[f] = "none"
    /\ Begin(e)
    /\ status' = [status EXCEPT ![e] = "sending"]

\* The replay button of a message in error: the message is removed from the
\* chat and its items are sent again.
resend(e, f) ==
    /\ status[e] = "error"
    /\ item[f] = item[e]
    /\ Begin(f)
    /\ status' = [status EXCEPT ![e] = "absent", ![f] = "sending"]

\* A send goes on to its next stage.
Proceed(e, from, to) ==
    /\ stage[e] = from
    /\ stage' = [stage EXCEPT ![e] = to]

\* A send throws: "messageSendError".
Throw(e, to) ==
    /\ stage' = [stage EXCEPT ![e] = to]
    /\ status' = [status EXCEPT ![e] = "error"]

\* checkAndFixUtxos finds every input unspent.
InputsChecked(e) ==
    /\ Proceed(e, "checking", "validating")
    /\ UNCHANGED <<relayVars, item, attempt, puts, answers, paid, status,
                   saved, accepted, crashes>>

\* Mutant of validateMessages: the relay's refusal is not thrown.
validateMessagesIgnored(e) ==
    /\ Proceed(e, "validating", "broadcasting")
    /\ UNCHANGED <<relayVars, item, attempt, puts, answers, paid, status,
                   saved, accepted, crashes>>

\* validateMessages: a relay that is not on localhost is not asked.
validateMessages(e) ==
    /\ LocalRelay => Accepts(e)
    /\ Proceed(e, "validating", "broadcasting")
    /\ UNCHANGED <<relayVars, item, attempt, puts, answers, paid, status,
                   saved, accepted, crashes>>

\* An input is spent, a request fails, the relay's preflight or the node
\* refuses, or the reply to the broadcast is lost.
SendFails(e) ==
    /\ \/ stage[e] \in {"checking", "broadcasting", "accepted"}
       \/ stage[e] = "validating" /\ LocalRelay
    /\ Throw(e, "failed")
    /\ UNCHANGED <<relayVars, item, attempt, puts, answers, paid, saved,
                   accepted, crashes>>

\* broadcastTxs: the network takes the stamp; the reply is still to come.
broadcastTxs(e) ==
    /\ Proceed(e, "broadcasting", "accepted")
    /\ paid' = paid \cup {e}
    /\ UNCHANGED <<relayVars, item, attempt, puts, answers, status, saved,
                   accepted, crashes>>

\* Mutant of pushMessages: the attempts are not counted.
pushMessagesUncounted(e, from) ==
    /\ Proceed(e, from, "pushing")
    /\ puts' = puts \cup {<<e, attempt[e] + 1>>}
    /\ UNCHANGED <<relayVars, item, attempt, answers, paid, status, saved,
                   accepted, crashes>>

\* One attempt of pushMessagesWithRetry sends its PUT.
pushMessages(e, from) ==
    /\ Proceed(e, from, "pushing")
    /\ attempt' = [attempt EXCEPT ![e] = @ + 1]
    /\ puts' = puts \cup {<<e, attempt[e] + 1>>}
    /\ UNCHANGED <<relayVars, item, answers, paid, status, saved, accepted,
                   crashes>>

\* Mutant of BroadcastReplied: the envelope is delivered before it is paid.
PushBeforeBroadcast(e) == pushMessages(e, "broadcasting")

\* The first attempt follows the reply to the broadcast ...
BroadcastReplied(e) == pushMessages(e, "accepted")

\* ... and the next ones a timer.
Retry(e) == pushMessages(e, "waiting")

\* The relay handles a PUT.  Nobody waits for the answer to an attempt that
\* the sender has given up.
Answer(p, code) ==
    answers' = IF stage[p[1]] = "pushing" /\ attempt[p[1]] = p[2]
               THEN answers \cup {<<p[1], p[2], code>>} ELSE answers

PutTaken(p) ==
    /\ p \in puts
    /\ puts' = puts \ {p}
    /\ PutMessage(p[1])
    /\ accepted' = accepted \cup {p[1]}
    /\ Answer(p, "ok")
    /\ UNCHANGED <<stage, item, attempt, paid, status, saved, crashes>>

PutRefused(p) ==
    /\ p \in puts
    /\ puts' = puts \ {p}
    /\ ~Accepts(p[1])
    /\ Answer(p, "refused")
    /\ UNCHANGED <<relayVars, stage, item, attempt, paid, status, saved,
                   accepted, crashes>>

Forget(e) == {a \in answers : a[1] # e}

\* The relay took the envelope.
PushSucceeds(e) ==
    /\ <<e, attempt[e], "ok">> \in answers
    /\ Proceed(e, "pushing", "saving")
    /\ answers' = Forget(e)
    /\ UNCHANGED <<relayVars, item, attempt, puts, paid, status, saved,
                   accepted, crashes>>

\* A 4xx answer is final: "deliveryPending".
PushRefused(e) ==
    /\ stage[e] = "pushing"
    /\ <<e, attempt[e], "refused">> \in answers
    /\ Throw(e, "undelivered")
    /\ answers' = Forget(e)
    /\ UNCHANGED <<relayVars, item, attempt, puts, paid, saved, accepted,
                   crashes>>

\* Mutant of PushLost: every attempt may be followed by another.
PushLostUnbounded(e) ==
    /\ Proceed(e, "pushing", "waiting")
    /\ answers' = Forget(e)
    /\ UNCHANGED <<relayVars, item, attempt, puts, paid, status, saved,
                   accepted, crashes>>

\* No answer: try again, or give up after the last attempt.
PushLost(e) ==
    /\ attempt[e] < MaxAttempts
    /\ Proceed(e, "pushing", "waiting")
    /\ answers' = Forget(e)
    /\ UNCHANGED <<relayVars, item, attempt, puts, paid, status, saved,
                   accepted, crashes>>

\* Mutant of PushGivenUp: the loop ends without throwing the last error.
PushGivenUpSilently(e) ==
    /\ attempt[e] = MaxAttempts
    /\ Proceed(e, "pushing", "saving")
    /\ answers' = Forget(e)
    /\ UNCHANGED <<relayVars, item, attempt, puts, paid, status, saved,
                   accepted, crashes>>

PushGivenUp(e) ==
    /\ stage[e] = "pushing"
    /\ attempt[e] = MaxAttempts
    /\ Throw(e, "undelivered")
    /\ answers' = Forget(e)
    /\ UNCHANGED <<relayVars, item, attempt, puts, paid, saved, accepted,
                   crashes>>

\* The delivered message is saved; an error of the store is only logged.
SaveOutbound(e, ok) ==
    /\ Proceed(e, "saving", "saved")
    /\ saved' = IF ok THEN saved \cup {e} ELSE saved
    /\ UNCHANGED <<relayVars, item, attempt, puts, answers, paid, status,
                   accepted, crashes>>

\* "messageSent".
MessageSent(e) ==
    /\ Proceed(e, "saved", "sent")
    /\ status' = [status EXCEPT ![e] = "confirmed"]
    /\ UNCHANGED <<relayVars, item, attempt, puts, answers, paid, saved,
                   accepted, crashes>>

-----------------------------------------------------------------------------
\* The sender's process ends and starts again: what was under way is forgotten
\* and the chat is rebuilt from the message store.
Crash ==
    /\ crashes < MaxCrashes
    /\ crashes' = crashes + 1
    /\ stage' = [e \in Envelopes |-> IF stage[e] \in Busy THEN "dead" ELSE stage[e]]
    /\ status' = [e \in Envelopes |-> IF e \in saved THEN "confirmed" ELSE "absent"]
    /\ answers' = {}
    /\ UNCHANGED <<relayVars, item, attempt, puts, paid, saved, accepted>>

\* The recipient deletes a message it has read.
RecipientDeletes(e) ==
    /\ e \in Listed
    /\ DeleteMessage(e)
    /\ UNCHANGED sendVars

RelayStep == (Tick \/ RelayRestart) /\ UNCHANGED sendVars

SendStep(e) ==
    \/ InputsChecked(e) \/ validateMessages(e) \/ SendFails(e)
    \/ broadcastTxs(e) \/ BroadcastReplied(e) \/ Retry(e)
    \/ PushSucceeds(e) \/ PushRefused(e) \/ PushLost(e) \/ PushGivenUp(e)
    \/ \E ok \in BOOLEAN : SaveOutbound(e, ok)
    \/ MessageSent(e)

Next ==
    \/ \E e \in Envelopes : \/ sendMessageImpl(e) \/ RecipientDeletes(e)
                            \/ \E f \in Envelopes : resend(e, f)
                            \/ SendStep(e)
    \/ \E p \in puts : PutTaken(p) \/ PutRefused(p)
    \/ Crash
    \/ RelayStep

Spec == Init /\ [][Next]_vars

\* The event loop runs every continuation and every timer, and a request is
\* answered or fails.
FairSpec == Spec /\ \A e \in Envelopes : WF_vars(SendStep(e))

-----------------------------------------------------------------------------
\* The relay never holds, and never took, an envelope whose stamp was not
\* broadcast: the preflight stores nothing and every PUT follows the broadcast.
PaidBeforeRelayed == Listed \cup accepted \subseteq paid

\* A deterministic 4xx cannot consume a stamp: the localhost relay never
\* refuses an envelope that has been paid for.
PaidNeverRefused ==
    LocalRelay => \A a \in answers : a[3] # "refused"

\* A message is shown as confirmed, in this process or after a restart, only
\* if its stamp was paid and the relay took it.
ConfirmedWasDelivered ==
    \A e \in Envelopes : status[e] = "confirmed" \/ e \in saved =>
                            e \in paid \cap accepted

\* A send never hangs: it ends confirmed or in error, or with its process.
SendsSettle ==
    \A e \in Envelopes : stage[e] \in Busy ~> stage[e] \notin Busy

\* A stamp is paid at most once for what the user wrote: no replacement stamp
\* is broadcast for a message whose stamp has been paid.
NoReplacementStamp ==
    \A e, f \in paid : item[e] = item[f] => e = f

-----------------------------------------------------------------------------
(* The inductive invariant behind the safety properties.                   *)

PaidStages == {"accepted", "pushing", "waiting", "saving", "saved", "sent",
               "undelivered"}

\* Attempts are counted from the first PUT, and the last is not repeated.
AttemptsBounded ==
    \A e \in Envelopes :
        /\ stage[e] \in {"none", "checking", "validating", "broadcasting", "accepted"}
              => attempt[e] = 0
        /\ stage[e] = "waiting" => attempt[e] < MaxAttempts

\* Whatever follows the broadcast has been paid.
PaidFollows ==
    /\ \A e \in Envelopes : stage[e] \in PaidStages => e \in paid
    /\ \A p \in puts : p[1] \in paid
    /\ \A a \in answers : a[1] \in paid

\* Answers tell what the relay did, and what is being saved was taken.
TakenFollows ==
    /\ \A a \in answers : IF a[3] = "ok" THEN a[1] \in accepted ELSE ~Accepts(a[1])
    /\ \A e \in Envelopes :
          stage[e] \in {"saving", "saved", "sent"} => e \in accepted

\* What is past the preflight of the localhost relay is acceptable to it.
PreflightHolds ==
    LocalRelay => \A e \in Envelopes :
                    e \in paid \/ stage[e] = "broadcasting" => Accepts(e)

SendInv ==
    /\ TypeOK /\ AttemptsBounded /\ PaidFollows /\ TakenFollows /\ PreflightHolds
    /\ PaidBeforeRelayed /\ ConfirmedWasDelivered /\ OneCopy /\ PayloadsListed
=============================================================================
