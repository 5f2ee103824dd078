--------------------------- MODULE RegistryProofs ---------------------------
(***************************************************************************)
(* Proofs about the payments of RegistryPayments, alone and under the      *)
(* forum, and about the posts of the topic store: their types and the      *)
(* properties that the forum run checks.                                   *)
(*                                                                         *)
(* The payments.  A call holds its coins while it is under way, and for    *)
(* ever once a payment of it was acknowledged.  The coins of two holders   *)
(* are disjoint and none of them is free, so a coin that is selected is    *)
(* new to every holder, and a check that frees the coins of a failed call  *)
(* frees no coin of another one.                                           *)
(***************************************************************************)
EXTENDS Forum, SequenceProofs

Holds(j) == phase[j] \in UnderWay \/ j \in acked

\* A call that has not begun holds nothing.
IdleHoldsNothing == \A j \in Jobs : phase[j] = "idle" => held[j] = {}

\* No holder's coin can be selected, ...
HeldNotFree == \A j \in Jobs : Holds(j) => \A c \in held[j] : wallet[c] # "free"

\* ... and no coin has two holders.
HoldersDisjoint ==
    \A j, k \in Jobs : j # k /\ Holds(j) /\ Holds(k) => held[j] \cap held[k] = {}

\* The coins of an acknowledged burn are deleted, and the call selects no more.
PaidAreGone ==
    \A j \in acked \ MailboxJobs :
        /\ phase[j] \notin {"idle", "asking", "paying"}
        /\ \A c \in held[j] : wallet[c] = "gone"

\* getMessages has no error path that checks its coins.
MailboxNeverFixes ==
    \A j \in MailboxJobs : phase[j] \notin {"putting", "fixing", "fixed"}

\* What a call of getMessages has paid and may still pay.
RetriesPay ==
    \A j \in MailboxJobs : /\ IsFiniteSet(held[j])
                           /\ Cardinality(held[j]) + retries[j] <= MaxRetries

PayInv == /\ PayTypeOK
          /\ IdleHoldsNothing
          /\ HeldNotFree
          /\ HoldersDisjoint
          /\ PaidAreGone
          /\ MailboxNeverFixes
          /\ RetriesPay

-----------------------------------------------------------------------------
\* Nothing is held before the first call.
LEMMA PayInitInv == PayInit => PayInv
<1> SUFFICES ASSUME PayInit PROVE PayInv
  OBVIOUS
<1>1. PayTypeOK
  <2>1. retries \in [Jobs -> 0..MaxRetries]
    BY PaymentAssumption DEF PayInit
  <2> QED
    BY <2>1 DEF PayInit, PayTypeOK
<1>2. IdleHoldsNothing /\ HeldNotFree /\ HoldersDisjoint
  BY DEF PayInit, IdleHoldsNothing, HeldNotFree, HoldersDisjoint
<1>3. PaidAreGone /\ MailboxNeverFixes
  BY DEF PayInit, PaidAreGone, MailboxNeverFixes, Jobs
<1>4. RetriesPay
  BY FS_EmptySet, PaymentAssumption DEF PayInit, RetriesPay, Jobs
<1> QED
  BY <1>1, <1>2, <1>3, <1>4 DEF PayInv

\* The places a call's phase may go in a step that selects no coin.
PhasesAdvance ==
    \A k \in Jobs :
        /\ phase'[k] = "idle" => phase[k] = "idle"
        /\ phase'[k] \in UnderWay => phase[k] \in UnderWay \cup {"idle"}
        /\ phase[k] \notin {"idle", "asking", "paying"}
               => phase'[k] \notin {"idle", "asking", "paying"}
        /\ k \in MailboxJobs => phase'[k] \notin {"putting", "fixing", "fixed"}

\* A step that leaves the coins, the holders and the acknowledgements alone
\* keeps the invariant: it is enough to look at the phases.
LEMMA QuietStep ==
    ASSUME PayInv, PayTypeOK', PhasesAdvance, UNCHANGED <<wallet, held, acked, retries>>
    PROVE  PayInv'
<1> USE DEF PayInv, PayTypeOK
<1>1. IdleHoldsNothing'
  BY DEF IdleHoldsNothing, PhasesAdvance
<1>2. HeldNotFree'
  BY DEF HeldNotFree, IdleHoldsNothing, Holds, PhasesAdvance
<1>3. HoldersDisjoint'
  BY DEF HoldersDisjoint, IdleHoldsNothing, Holds, PhasesAdvance
<1>4. PaidAreGone'
  BY DEF PaidAreGone, PhasesAdvance
<1>5. MailboxNeverFixes'
  BY DEF MailboxNeverFixes, PhasesAdvance, Jobs
<1>6. RetriesPay'
  BY DEF RetriesPay
<1> QED
  BY <1>1, <1>2, <1>3, <1>4, <1>5, <1>6

\* The steps of a call that select no coin and change no coin's state.
QuietSteps(j) ==
    \/ j \in MetadataJobs /\ updateKeyMetadata(j)
    \/ j \in MailboxJobs /\ getMessages(j)
    \/ PageAnswered(j) \/ AskFails(j) \/ PaymentFails(j) \/ putMetadata(j) \/ PutFails(j)
    \/ FixAnswered(j) \/ FixFails(j) \/ ServerTakes(j) \/ RequestLost(j)

\* The quiet steps of a call keep the invariant.
LEMMA QuietInv ==
    ASSUME PayInv, NEW j \in Jobs, QuietSteps(j)
    PROVE  PayInv'
<1> USE DEF PayInv, PayTypeOK, JobGoes
<1>1. UNCHANGED <<wallet, held, acked, retries>>
  BY DEF QuietSteps, updateKeyMetadata, getMessages, PageAnswered, AskFails, PaymentFails,
         putMetadata, PutFails, FixAnswered, FixFails, ServerTakes, RequestLost
<1>2. PayTypeOK' /\ PhasesAdvance
  <2> USE PaymentAssumption DEF PhasesAdvance, MailboxNeverFixes, UnderWay, Jobs
  <2>1. CASE j \in MetadataJobs /\ updateKeyMetadata(j)
    BY <2>1 DEF updateKeyMetadata
  <2>2. CASE j \in MailboxJobs /\ getMessages(j)
    BY <2>2 DEF getMessages
  <2>3. CASE PageAnswered(j)
    BY <2>3 DEF PageAnswered
  <2>4. CASE AskFails(j)
    BY <2>4 DEF AskFails
  <2>5. CASE PaymentFails(j)
    BY <2>5 DEF PaymentFails
  <2>6. CASE putMetadata(j)
    BY <2>6 DEF putMetadata
  <2>7. CASE PutFails(j)
    BY <2>7 DEF PutFails
  <2>8. CASE FixAnswered(j)
    BY <2>8 DEF FixAnswered
  <2>9. CASE FixFails(j)
    BY <2>9 DEF FixFails
  <2>10. CASE ServerTakes(j)
    BY <2>10 DEF ServerTakes
  <2>11. CASE RequestLost(j)
    BY <2>11 DEF RequestLost
  <2> QED
    BY <2>1, <2>2, <2>3, <2>4, <2>5, <2>6, <2>7, <2>8, <2>9, <2>10, <2>11 DEF QuietSteps
<1> QED
  BY <1>1, <1>2, QuietStep

\* Selecting a coin: a free coin is new to every holder.
LEMMA ConstructInv ==
    ASSUME PayInv, NEW j \in Jobs,
           \/ PaymentRequired(j)
           \/ j \in PostJobs \cup OfferJobs /\ createBroadcast(j)
    PROVE  PayInv'
<1> USE DEF PayInv, PayTypeOK
<1> DEFINE from == IF j \in PostJobs \cup OfferJobs /\ createBroadcast(j) THEN "idle" ELSE "asking"
<1>1. construct(j, from)
  BY DEF PaymentRequired, createBroadcast
<1>2. PICK c \in Coins :
        /\ wallet[c] = "free"
        /\ JobGoes(j, from, "paying")
        /\ wallet' = [wallet EXCEPT ![c] = "frozen"]
        /\ held' = [held EXCEPT ![j] = @ \cup {c}]
        /\ sent' = sent \cup {j}
        /\ taken' = taken \ {j}
        /\ UNCHANGED <<registry, spent, indexed, acked, snap, keys>>
  BY <1>1 DEF construct
<1>3. /\ retries' \in [Jobs -> 0..MaxRetries]
      /\ j \in MailboxJobs => retries'[j] = retries[j] - 1
      /\ \A k \in Jobs \ {j} : retries'[k] = retries[k]
  BY PaymentAssumption DEF PaymentRequired, createBroadcast, Jobs
<1>4. /\ phase[j] \in {"idle", "asking"} /\ phase'[j] = "paying"
      /\ \A k \in Jobs \ {j} : phase'[k] = phase[k]
  BY <1>2 DEF JobGoes
<1>5. PayTypeOK'
  BY <1>2, <1>3 DEF JobGoes, UnderWay
<1>6. \A k \in Jobs : Holds(k) => c \notin held[k]
  BY <1>2 DEF HeldNotFree
<1>7. \A k \in Jobs \ {j} : Holds(k)' = Holds(k) /\ held'[k] = held[k]
  BY <1>2, <1>4 DEF Holds
<1>8. held'[j] = held[j] \cup {c} /\ (~Holds(j) => held[j] = {})
  BY <1>2, <1>4 DEF Holds, UnderWay, IdleHoldsNothing
<1>9. IdleHoldsNothing'
  BY <1>4, <1>7 DEF IdleHoldsNothing
<1>10. HeldNotFree'
  BY <1>2, <1>6, <1>7, <1>8 DEF HeldNotFree
<1>11. HoldersDisjoint'
  BY <1>6, <1>7, <1>8 DEF HoldersDisjoint
<1>12. PaidAreGone'
  BY <1>2, <1>4, <1>7 DEF PaidAreGone
<1>13. MailboxNeverFixes'
  BY <1>4 DEF MailboxNeverFixes, Jobs
<1>14. RetriesPay'
  <2> SUFFICES ASSUME NEW k \in MailboxJobs
               PROVE  /\ IsFiniteSet(held'[k])
                      /\ Cardinality(held'[k]) + retries'[k] <= MaxRetries
    BY DEF RetriesPay
  <2>1. CASE k # j
    BY <2>1, <1>3, <1>7 DEF RetriesPay, Jobs
  <2>2. CASE k = j
    <3>1. /\ IsFiniteSet(held[j]) /\ Cardinality(held[j]) \in Nat
          /\ Cardinality(held[j]) + retries[j] <= MaxRetries
      BY <2>2, FS_CardinalityType DEF RetriesPay
    <3>2. /\ IsFiniteSet(held[j] \cup {c})
          /\ Cardinality(held[j] \cup {c}) \in {Cardinality(held[j]), Cardinality(held[j]) + 1}
      BY <3>1, FS_AddElement
    <3>3. retries[j] \in Nat /\ retries'[j] = retries[j] - 1 /\ MaxRetries \in Nat
      BY <1>3, <2>2, PaymentAssumption
    <3>4. Cardinality(held[j] \cup {c}) + retries'[j] <= MaxRetries
      BY <3>1, <3>2, <3>3
    <3> QED
      BY <3>2, <3>4, <1>8, <2>2
  <2> QED
    BY <2>1, <2>2
<1> QED
  BY <1>5, <1>9, <1>10, <1>11, <1>12, <1>13, <1>14

\* The acknowledgement of a payment.
LEMMA AcknowledgedInv ==
    ASSUME PayInv, NEW j \in Jobs, Acknowledged(j)
    PROVE  PayInv'
<1> USE DEF PayInv, PayTypeOK, Acknowledged, WithoutHeld
<1>1. PayTypeOK'
  BY DEF UnderWay
<1>2. \A k \in Jobs : Holds(k)' => Holds(k)
  BY DEF Holds, UnderWay
<1>3. IdleHoldsNothing'
  BY DEF IdleHoldsNothing
<1>4. HeldNotFree'
  BY <1>2 DEF HeldNotFree
<1>5. HoldersDisjoint'
  BY <1>2 DEF HoldersDisjoint
<1>6. PaidAreGone'
  BY DEF PaidAreGone
<1>7. MailboxNeverFixes'
  BY PaymentAssumption DEF MailboxNeverFixes, Jobs
<1>8. RetriesPay'
  BY DEF RetriesPay
<1> QED
  BY <1>1, <1>3, <1>4, <1>5, <1>6, <1>7, <1>8

\* A check frees the coins of its own, failed call: the call has ended, no other
\* holder has them, and an acknowledged payment's coins are deleted already.
LEMMA FixInv ==
    ASSUME PayInv, NEW j \in Jobs, fixUtxos(j)
    PROVE  PayInv'
<1> USE DEF PayInv, PayTypeOK, fixUtxos, JobGoes
<1>1. PayTypeOK'
  BY DEF UnderWay
<1>2. j \notin MailboxJobs /\ Holds(j)
  BY DEF MailboxNeverFixes, Holds, UnderWay
<1>3. \A k \in Jobs : Holds(k)' => Holds(k) /\ (k = j => j \in acked)
  BY DEF Holds, UnderWay
<1>4. \A c \in Coins : wallet[c] = "gone" => wallet'[c] = "gone"
  OBVIOUS
<1>5. IdleHoldsNothing'
  BY DEF IdleHoldsNothing
<1>6. HeldNotFree'
  <2> SUFFICES ASSUME NEW k \in Jobs, Holds(k)', NEW c \in held[k]
               PROVE  wallet'[c] # "free"
    BY DEF HeldNotFree
  <2>1. CASE k = j
    BY <2>1, <1>2, <1>3, <1>4 DEF PaidAreGone
  <2>2. CASE k # j
    <3>1. c \notin held[j] /\ wallet[c] # "free"
      BY <2>2, <1>2, <1>3 DEF HoldersDisjoint, HeldNotFree
    <3> QED
      BY <3>1
  <2> QED
    BY <2>1, <2>2
<1>7. HoldersDisjoint'
  BY <1>3 DEF HoldersDisjoint
<1>8. PaidAreGone'
  BY <1>4 DEF PaidAreGone
<1>9. MailboxNeverFixes'
  BY DEF MailboxNeverFixes, Jobs
<1>10. RetriesPay'
  BY DEF RetriesPay
<1> QED
  BY <1>1, <1>5, <1>6, <1>7, <1>8, <1>9, <1>10

\* The indexer and its notices only delete coins.
LEMMA ChainInv ==
    ASSUME PayInv, ChainStep
    PROVE  PayInv'
<1>1. PICK c \in Coins : Index(c) \/ Noticed(c)
  BY DEF ChainStep
<1> USE DEF PayInv, PayTypeOK
<1>2. CASE Index(c)
  <2>1. PayTypeOK' /\ PhasesAdvance /\ UNCHANGED <<wallet, held, acked, retries>>
    BY <1>2 DEF Index, PhasesAdvance, MailboxNeverFixes
  <2> QED
    BY <2>1, QuietStep
<1>3. CASE Noticed(c)
  <2> USE <1>3 DEF Noticed
  <2>1. PayTypeOK'
    OBVIOUS
  <2>2. IdleHoldsNothing' /\ HoldersDisjoint' /\ MailboxNeverFixes' /\ RetriesPay'
    BY DEF IdleHoldsNothing, HoldersDisjoint, Holds, MailboxNeverFixes, RetriesPay
  <2>3. HeldNotFree' /\ PaidAreGone'
    BY DEF HeldNotFree, PaidAreGone, Holds
  <2> QED
    BY <2>1, <2>2, <2>3
<1> QED
  BY <1>1, <1>2, <1>3

\* Every step of the payments keeps the invariant.
LEMMA PayStepInv == PayInv /\ [PayNext]_payVars => PayInv'
<1> SUFFICES ASSUME PayInv, [PayNext]_payVars PROVE PayInv'
  OBVIOUS
<1>1. ASSUME NEW j \in Jobs, ClientStep(j) PROVE PayInv'
  BY <1>1, QuietInv, ConstructInv, FixInv DEF ClientStep, QuietSteps
<1>2. ASSUME NEW j \in Jobs, RequestLost(j) \/ ServerTakes(j) PROVE PayInv'
  BY <1>2, QuietInv DEF QuietSteps
<1>3. CASE UNCHANGED payVars
  BY <1>3 DEF payVars, PayInv, PayTypeOK, IdleHoldsNothing, HeldNotFree, HoldersDisjoint,
              Holds, PaidAreGone, MailboxNeverFixes, RetriesPay
<1> QED
  BY <1>1, <1>2, <1>3, AcknowledgedInv, ChainInv DEF PayNext

\* The payments keep their types, and the invariant, in every behaviour.
THEOREM PaymentInvariant == PaySpec => []PayInv
BY PayInitInv, PayStepInv, PTL DEF PaySpec

-----------------------------------------------------------------------------
(* Under the forum *)

\* A step of the forum is a step of the payments, or leaves them alone.
LEMMA ForumStepPays == [ForumNext]_allForumVars => [PayNext]_payVars
<1> SUFFICES ASSUME [ForumNext]_allForumVars PROVE [PayNext]_payVars
  OBVIOUS
<1>1. ASSUME NEW j \in Jobs,
             \/ (ClientStep(j) \/ Acknowledged(j) \/ RequestLost(j)) /\ UNCHANGED forumVars
             \/ PutPost(j) \/ PutOffering(j) \/ TakePayment(j)
      PROVE  PayNext
  BY <1>1 DEF PayNext, PutPost, PutOffering, TakePayment
<1>2. ASSUME ChainStep PROVE PayNext
  BY <1>2 DEF PayNext
<1>3. ASSUME \/ \E q \in Others : OthersPost(q)
             \/ refreshMessages
             \/ \E d \in Digests : fetchMessage(d)
             \/ \E a \in answers : setEntries(a) \/ setMessage(a)
             \/ deleteTopic
      PROVE  UNCHANGED payVars
  BY <1>3 DEF OthersPost, refreshMessages, fetchMessage, Asked, setEntries, setMessage,
              Applied, deleteTopic
<1>4. ASSUME UNCHANGED allForumVars PROVE UNCHANGED payVars
  BY <1>4 DEF allForumVars
<1> QED
  BY <1>1, <1>2, <1>3, <1>4 DEF ForumNext

\* The forum composes the payments without adding to them: what holds of the
\* payments alone holds of them while posts are stored, read and listed.
THEOREM ForumImplementsPayments == ForumSpec => PaySpec
BY ForumStepPays, PTL DEF ForumSpec, ForumInit, PaySpec

\* The types of the payments of updateKeyMetadata, createBroadcast,
\* addOfferings and getMessages.
THEOREM PaymentTypeCorrect == ForumSpec => []PayTypeOK
<1>1. PayInv => PayTypeOK
  BY DEF PayInv
<1> QED
  BY <1>1, PaymentInvariant, ForumImplementsPayments, PTL

\* Two calls under way never hold the same coin, whatever fails and however
\* many calls there are.
THEOREM HeldByOneTheorem == ForumSpec => []HeldByOne
<1>1. PayInv => HeldByOne
  BY DEF PayInv, HoldersDisjoint, HeldByOne, Holds
<1> QED
  BY <1>1, PaymentInvariant, ForumImplementsPayments, PTL

\* A coin whose payment was acknowledged is never free again: also not when
\* putMetadata fails after it and fixUtxos asks an indexer that lags behind.
THEOREM PaidNotFreeTheorem == ForumSpec => []PaidNotFree
<1>1. PayInv => PaidNotFree
  BY DEF PayInv, PayTypeOK, HeldNotFree, PaidNotFree, Holds
<1> QED
  BY <1>1, PaymentInvariant, ForumImplementsPayments, PTL

\* A call of getMessages pays at most MaxRetries times.
THEOREM MailboxBoundedTheorem == ForumSpec => []MailboxBounded
<1>1. PayInv => MailboxBounded
  <2> SUFFICES ASSUME PayInv, NEW j \in MailboxJobs
               PROVE  Cardinality(held[j]) <= MaxRetries
    BY DEF MailboxBounded
  <2>1. IsFiniteSet(held[j]) /\ Cardinality(held[j]) + retries[j] <= MaxRetries
    BY DEF PayInv, RetriesPay
  <2>2. Cardinality(held[j]) \in Nat /\ retries[j] \in Nat
    BY <2>1, FS_CardinalityType, PaymentAssumption DEF PayInv, PayTypeOK, Jobs
  <2> QED
    BY <2>1, <2>2, PaymentAssumption
<1> QED
  BY <1>1, PaymentInvariant, ForumImplementsPayments, PTL

-----------------------------------------------------------------------------
(***************************************************************************)
(* The topic store.  An answer names each post once, since the registry    *)
(* stores it under its digest; only the items of the offerings, which have *)
(* no payload, repeat.  A post that is known and whose parent is not was   *)
(* known before it: setEntries looks for the parents after all messages of *)
(* an answer are in the index.                                             *)
(***************************************************************************)

\* No message of s but the empty one is listed twice.
OncePerPost(s) == \A i, j \in DOMAIN s : s[i] = s[j] /\ s[i] # Empty => i = j

ForumTypes ==
    /\ items \in [Digests -> Nat]
    /\ \A a \in answers : a.kind \in {"page", "one"} /\ a.msgs \in Seq(Message)
    /\ index \in [Digests -> Nat]
    /\ listed \in Seq(Digests)
    /\ replies \in [Posts -> Seq(Posts)]
    /\ early \in SUBSET Posts
    /\ fetches \in 0..MaxFetches

AnswersOnce == \A a \in answers : OncePerPost(DigestsOf(a.msgs))

OrphansAreEarly ==
    \A p \in Posts \ early : p \in Known /\ Parent[p] # NoPost => Parent[p] \in Known

ForumInv == /\ ForumTypes
            /\ AnswersOnce
            /\ OrphansAreEarly
            /\ PostsListedOnce
            /\ RepliesAttached

\* Two lists that repeat nothing but the empty message, and share nothing else,
\* make one.
LEMMA ConcatOncePerPost ==
    ASSUME NEW s \in Seq(Digests), NEW t \in Seq(Digests), OncePerPost(s), OncePerPost(t),
           ToSet(s) \cap ToSet(t) \subseteq {Empty}
    PROVE  OncePerPost(s \o t)
<1>1. /\ Len(s) \in Nat /\ Len(t) \in Nat
      /\ DOMAIN s = 1..Len(s) /\ DOMAIN t = 1..Len(t)
      /\ DOMAIN (s \o t) = 1..(Len(s) + Len(t))
      /\ \A i \in 1..(Len(s) + Len(t)) :
            (s \o t)[i] = IF i <= Len(s) THEN s[i] ELSE t[i - Len(s)]
  OBVIOUS
<1> SUFFICES ASSUME NEW i \in 1..(Len(s) + Len(t)), NEW j \in 1..(Len(s) + Len(t)),
                    (s \o t)[i] = (s \o t)[j], (s \o t)[i] # Empty
             PROVE  i = j
  BY <1>1 DEF OncePerPost
<1>2. CASE i <= Len(s) /\ j <= Len(s)
  BY <1>1, <1>2 DEF OncePerPost
<1>3. CASE ~(i <= Len(s)) /\ ~(j <= Len(s))
  <2>1. /\ i - Len(s) \in DOMAIN t /\ j - Len(s) \in DOMAIN t
        /\ t[i - Len(s)] = t[j - Len(s)] /\ t[i - Len(s)] # Empty
    BY <1>1, <1>3
  <2>2. i - Len(s) = j - Len(s)
    BY <2>1 DEF OncePerPost
  <2> QED
    BY <1>1, <2>2
<1>4. ASSUME NEW k \in 1..(Len(s) + Len(t)), NEW l \in 1..(Len(s) + Len(t)),
             k <= Len(s), ~(l <= Len(s)), (s \o t)[k] = (s \o t)[l], (s \o t)[k] # Empty
      PROVE  FALSE
  <2>1. /\ k \in DOMAIN s /\ l - Len(s) \in DOMAIN t
        /\ s[k] = t[l - Len(s)] /\ s[k] # Empty
    BY <1>1, <1>4
  <2> QED
    BY <2>1 DEF ToSet
<1> QED
  BY <1>2, <1>3, <1>4

\* A page is a list of messages that names each post once.
LEMMA PageOncePerPost ==
    ASSUME items \in [Digests -> Nat], NEW page \in Pages
    PROVE  page \in Seq(Message) /\ OncePerPost(DigestsOf(page))
<1> DEFINE stored == {d \in Posts : items[d] > 0}
           rows == (stored \X {1}) \cup ({Empty} \X (1..items[Empty]))
<1>1. PICK o \in SetToSeqs(rows) : page = [k \in DOMAIN o |-> Msg(o[k][1])]
  BY DEF Pages
<1>2. IsFiniteSet(rows)
  <2>1. IsFiniteSet(Posts)
    <3>1. IsFiniteSet(PostJobs)
      BY PaymentAssumption, FS_Subset DEF Jobs
    <3> QED
      BY <3>1, ForumAssumption, FS_Union DEF Posts
  <2>2. IsFiniteSet(stored) /\ IsFiniteSet({1}) /\ IsFiniteSet({Empty})
    BY <2>1, FS_Subset, FS_Singleton
  <2>3. IsFiniteSet(1..items[Empty])
    <3>1. items[Empty] \in Nat
      BY DEF Digests
    <3> QED
      BY <3>1, FS_Interval
  <2>4. IsFiniteSet(stored \X {1}) /\ IsFiniteSet({Empty} \X (1..items[Empty]))
    BY <2>2, <2>3, FS_Product
  <2> QED
    BY <2>4, FS_Union
<1>3. o \in Seq(rows) /\ IsInjective(o)
  BY <1>1, <1>2, OrderOnce
<1>4. ASSUME NEW r \in rows
      PROVE  /\ Msg(r[1]) \in Message /\ Msg(r[1]).digest = r[1]
             /\ r[1] # Empty => r = <<r[1], 1>>
  <2>1. CASE r \in stored \X {1}
    BY <2>1, ForumAssumption DEF Msg, Message, Digests
  <2>2. CASE r \in {Empty} \X (1..items[Empty])
    BY <2>2 DEF Msg, Message, Digests
  <2> QED
    BY <2>1, <2>2
<1> HIDE DEF rows, stored
<1>5. DOMAIN o = 1..Len(o) /\ Len(o) \in Nat /\ \A k \in DOMAIN o : o[k] \in rows
  BY <1>3
<1>6. page \in Seq(Message) /\ DOMAIN page = DOMAIN o
  BY <1>1, <1>4, <1>5
<1>7. \A k \in DOMAIN o : DigestsOf(page)[k] = o[k][1]
  BY <1>1, <1>4, <1>5, <1>6 DEF DigestsOf
<1>8. DOMAIN DigestsOf(page) = DOMAIN o
  BY <1>6 DEF DigestsOf
<1>9. \A i, j \in DOMAIN o : o[i] = o[j] => i = j
  BY <1>3 DEF IsInjective
<1>10. \A i, j \in DOMAIN o : o[i][1] = o[j][1] /\ o[i][1] # Empty => o[i] = o[j]
  BY <1>4, <1>5
<1> QED
  BY <1>6, <1>7, <1>8, <1>9, <1>10 DEF OncePerPost

\* Nothing is stored or known before the first post.
LEMMA ForumInitInv == ForumInit => ForumInv
<1> SUFFICES ASSUME ForumInit PROVE ForumInv
  OBVIOUS
<1>1. <<>> \in Seq(Digests) /\ <<>> \in Seq(Posts) /\ IsInjective(<<>>)
  BY DEF IsInjective
<1>2. ForumTypes
  BY <1>1, ForumAssumption DEF ForumInit, ForumTypes
<1>3. Known = {}
  BY DEF ForumInit, Known
<1>4. PostsListedOnce
  BY <1>1 DEF ForumInit, PostsListedOnce
<1> QED
  BY <1>2, <1>3, <1>4 DEF ForumInit, ForumInv, AnswersOnce, OrphansAreEarly, RepliesAttached

\* A step that leaves the topic store alone keeps what its properties say.
LEMMA StoreUnchanged ==
    ASSUME ForumInv, ForumTypes', AnswersOnce', UNCHANGED <<index, listed, replies, early>>
    PROVE  ForumInv'
<1>1. Known' = Known
  BY DEF Known
<1> QED
  BY <1>1 DEF ForumInv, OrphansAreEarly, PostsListedOnce, RepliesAttached

\* The registry's steps keep the invariant: items are counted.
LEMMA RegistryStepInv ==
    ASSUME ForumInv,
           \/ \E j \in Jobs : PutPost(j) \/ PutOffering(j) \/ TakePayment(j)
           \/ \E q \in Others : OthersPost(q)
           \/ UNCHANGED forumVars
    PROVE  ForumInv'
<1>1. UNCHANGED <<answers, index, listed, replies, early, fetches>>
  BY DEF PutPost, PutOffering, TakePayment, OthersPost, forumVars
<1>2. items' \in [Digests -> Nat]
  <2> USE DEF ForumInv, ForumTypes
  <2>1. CASE \E j \in Jobs : PutPost(j)
    BY <2>1 DEF PutPost, Posts, Digests
  <2>2. ASSUME NEW j \in Jobs, PutOffering(j) PROVE items' \in [Digests -> Nat]
    <3>1. Target[j] \in Digests /\ Empty \in Digests
      BY <2>2, ForumAssumption DEF PutOffering, Digests
    <3> QED
      BY <2>2, <3>1 DEF PutOffering
  <2>3. CASE \E j \in Jobs : TakePayment(j)
    BY <2>3 DEF TakePayment, forumVars
  <2>4. CASE \E q \in Others : OthersPost(q)
    BY <2>4 DEF OthersPost, Posts, Digests
  <2>5. CASE UNCHANGED forumVars
    BY <2>5 DEF forumVars
  <2> QED
    BY <2>1, <2>2, <2>3, <2>4, <2>5
<1>3. ForumTypes' /\ AnswersOnce'
  BY <1>1, <1>2 DEF ForumInv, ForumTypes, AnswersOnce
<1> QED
  BY <1>1, <1>3, StoreUnchanged

\* An answer that is on its way names each post once.
LEMMA AskedInv ==
    ASSUME ForumInv, refreshMessages \/ \E d \in Digests : fetchMessage(d)
    PROVE  ForumInv'
<1>1. PICK a : Asked(a) /\ (a \in getBroadcastMessages
                             \/ \E d \in Digests : d # Empty /\ items[d] > 0
                                                   /\ a = getBroadcastMessage(d))
  BY DEF refreshMessages, fetchMessage
<1>2. a.kind \in {"page", "one"} /\ a.msgs \in Seq(Message) /\ OncePerPost(DigestsOf(a.msgs))
  <2>1. CASE a \in getBroadcastMessages
    <3>1. PICK page \in Pages : a = [kind |-> "page", msgs |-> page]
      BY <2>1 DEF getBroadcastMessages
    <3>2. page \in Seq(Message) /\ OncePerPost(DigestsOf(page))
      BY PageOncePerPost DEF ForumInv, ForumTypes
    <3> QED
      BY <3>1, <3>2
  <2>2. ASSUME NEW d \in Digests, d # Empty, items[d] > 0, a = getBroadcastMessage(d)
        PROVE  /\ a.kind \in {"page", "one"} /\ a.msgs \in Seq(Message)
               /\ OncePerPost(DigestsOf(a.msgs))
    <3>1. Msg(d) \in Message
      BY <2>2 DEF Msg, Message, ForumInv, ForumTypes
    <3>2. a.kind = "one" /\ a.msgs = <<Msg(d)>>
      BY <2>2 DEF getBroadcastMessage
    <3>3. a.msgs \in Seq(Message) /\ DOMAIN a.msgs = {1}
      BY <3>1, <3>2
    <3> QED
      BY <3>2, <3>3 DEF OncePerPost, DigestsOf
  <2> QED
    BY <1>1, <2>1, <2>2
<1>3. /\ answers' = answers \cup {a} /\ fetches' \in 0..MaxFetches
      /\ UNCHANGED <<items, index, listed, replies, early>>
  BY <1>1, ForumAssumption DEF Asked, ForumInv, ForumTypes
<1>4. ForumTypes' /\ AnswersOnce'
  BY <1>2, <1>3 DEF ForumInv, ForumTypes, AnswersOnce
<1> QED
  BY <1>3, <1>4, StoreUnchanged

\* An answer's digests, and the index after it: what was known stays known,
\* and what the answer names is known.
LEMMA IndexedProperties ==
    ASSUME index \in [Digests -> Nat], NEW msgs \in Seq(Message)
    PROVE  /\ DigestsOf(msgs) \in Seq(Digests) /\ DOMAIN DigestsOf(msgs) = DOMAIN msgs
           /\ Indexed(msgs) \in [Digests -> Nat]
           /\ \A d \in Digests :
                 Indexed(msgs)[d] > 0 <=> d \in Known \cup ToSet(DigestsOf(msgs))
<1>1. /\ DOMAIN msgs = 1..Len(msgs) /\ Len(msgs) \in Nat
      /\ \A i \in DOMAIN msgs : msgs[i] \in Message
  OBVIOUS
<1>2. \A i \in DOMAIN msgs :
         msgs[i].digest \in Digests /\ msgs[i].satoshis \in Nat /\ msgs[i].satoshis > 0
  BY <1>1 DEF Message
<1>3. DigestsOf(msgs) \in Seq(Digests) /\ DOMAIN DigestsOf(msgs) = DOMAIN msgs
  BY <1>1, <1>2 DEF DigestsOf
<1>4. ToSet(DigestsOf(msgs)) = {msgs[i].digest : i \in DOMAIN msgs}
  BY DEF ToSet, DigestsOf
<1>5. ASSUME NEW d \in Digests
      PROVE  /\ Indexed(msgs)[d] \in Nat
             /\ Indexed(msgs)[d] > 0 <=> d \in Known \cup ToSet(DigestsOf(msgs))
  <2> DEFINE at == {i \in DOMAIN msgs : msgs[i].digest = d}
  <2>1. Indexed(msgs)[d] = IF at = {} THEN index[d]
                           ELSE msgs[CHOOSE i \in at : TRUE].satoshis
    BY DEF Indexed
  <2>2. CASE at = {}
    BY <2>1, <2>2, <1>4 DEF Known
  <2>3. CASE at # {}
    <3>1. (CHOOSE i \in at : TRUE) \in at
      BY <2>3
    <3>2. d \in ToSet(DigestsOf(msgs))
      BY <2>3, <1>4
    <3> QED
      BY <2>1, <2>3, <3>1, <3>2, <1>2
  <2> QED
    BY <2>2, <2>3
<1>6. Indexed(msgs) \in [Digests -> Nat]
  BY <1>5 DEF Indexed
<1> QED
  BY <1>3, <1>5, <1>6

\* The replies of a message after an answer: those it had, and the messages
\* that are adopted, each once.
LEMMA RepliesProperties ==
    ASSUME replies \in [Posts -> Seq(Posts)], NEW msgs \in Seq(Message),
           NEW at \in SUBSET DOMAIN msgs, NEW p \in Posts
    PROVE  /\ Replies(msgs, at)[p] \in Seq(Posts)
           /\ ToSet(replies[p]) \subseteq ToSet(Replies(msgs, at)[p])
           /\ IsInjective(replies[p]) => IsInjective(Replies(msgs, at)[p])
           /\ p \in Known \cup ToSet(DigestsOf(msgs)) =>
                 \A d \in Posts : Parent[d] = p /\ (\E i \in at : msgs[i].digest = d)
                                     => d \in ToSet(Replies(msgs, at)[p])
<1> DEFINE ds == DigestsOf(msgs)
           found == Adopted(p, msgs, at)
           new == Picked(ds, found)
<1>1. /\ DOMAIN msgs = 1..Len(msgs) /\ Len(msgs) \in Nat
      /\ DOMAIN ds = DOMAIN msgs /\ \A i \in DOMAIN msgs : ds[i] = msgs[i].digest
  BY DEF DigestsOf
<1>2. \A i \in found : /\ i \in at /\ i \in DOMAIN ds /\ ds[i] \in Posts
                       /\ ds[i] \notin ToSet(replies[p])
                       /\ \A j \in at : j < i => ds[j] # ds[i]
  BY <1>1 DEF Adopted
<1>3. ds \in Seq(Digests)
  <2>1. \A i \in DOMAIN msgs : msgs[i] \in Message
    BY <1>1
  <2>2. \A i \in DOMAIN msgs : msgs[i].digest \in Digests
    BY <2>1 DEF Message
  <2> QED
    BY <1>1, <2>2 DEF DigestsOf
<1>4. \A d \in Posts : Parent[d] = p /\ d \notin ToSet(replies[p])
         /\ (\E i \in at : ds[i] = d) => d \in {ds[i] : i \in found}
  <2> SUFFICES ASSUME NEW d \in Posts, Parent[d] = p, d \notin ToSet(replies[p]),
                      NEW i \in at, ds[i] = d
               PROVE  d \in {ds[k] : k \in found}
    OBVIOUS
  <2> DEFINE same == {k \in at : ds[k] = d}
  <2>1. same \subseteq Nat /\ same # {}
    BY <1>1
  <2>2. Min(same) \in same /\ \A y \in same : Min(same) <= y
    BY <2>1, MinProperties
  <2>3. PICK m \in at : ds[m] = d /\ \A y \in at : ds[y] = d => m <= y
    BY <2>2
  <2>4. \A y \in at : y \in Nat /\ m \in Nat
    BY <1>1
  <2>5. \A y \in at : y < m => ds[y] # d
    BY <2>3, <2>4
  <2>6. m \in found
    BY <1>1, <2>3, <2>5 DEF Adopted
  <2> QED
    BY <2>3, <2>6
<1>5. \A i, j \in found : ds[i] = ds[j] => i = j
  <2> SUFFICES ASSUME NEW i \in found, NEW j \in found, ds[i] = ds[j] PROVE i = j
    OBVIOUS
  <2>1. i \in Nat /\ j \in Nat /\ ~(i < j) /\ ~(j < i)
    BY <1>1, <1>2
  <2> QED
    BY <2>1
<1> HIDE DEF ds, found
<1>6. found \subseteq DOMAIN ds
  BY <1>2
<1>7. ToSet(new) = {ds[i] : i \in found} /\ IsInjective(new) /\ new \in Seq(Digests)
  BY <1>3, <1>5, <1>6, PickedProperties
<1>8. new \in Seq(Posts)
  <2>1. \A e \in ToSet(new) : e \in Posts
    BY <1>2, <1>7
  <2> HIDE DEF new
  <2>2. DOMAIN new = 1..Len(new) /\ Len(new) \in Nat
    BY <1>7
  <2>3. \A k \in 1..Len(new) : new[k] \in Posts
    BY <2>1, <2>2 DEF ToSet
  <2> DEFINE n == Len(new)
  <2>4. new = [k \in 1..n |-> new[k]]
    BY <1>7
  <2>5. n \in Nat /\ \A k \in 1..n : new[k] \in Posts
    BY <2>2, <2>3
  <2> HIDE DEF n
  <2>6. [k \in 1..n |-> new[k]] \in Seq(Posts)
    BY <2>5
  <2> QED
    BY <2>4, <2>6
<1>9. ToSet(replies[p]) \cap ToSet(new) = {}
  BY <1>2, <1>7
<1> HIDE DEF new
<1>10. replies[p] \in Seq(Posts)
  OBVIOUS
<1>11. /\ replies[p] \o new \in Seq(Posts)
       /\ ToSet(replies[p] \o new) = ToSet(replies[p]) \cup ToSet(new)
       /\ IsInjective(replies[p]) => IsInjective(replies[p] \o new)
  BY <1>7, <1>8, <1>9, <1>10, ConcatOnce
<1>12. Replies(msgs, at)[p] = IF p \in Known \cup ToSet(ds) THEN replies[p] \o new
                              ELSE replies[p]
  BY DEF Replies, ds, found, new
<1>13. \A d \in Posts : Parent[d] = p /\ (\E i \in at : ds[i] = d)
          => d \in ToSet(replies[p] \o new)
  BY <1>4, <1>7, <1>11
<1>14. \A i \in at : ds[i] = msgs[i].digest
  BY <1>1
<1> QED
  BY <1>10, <1>11, <1>12, <1>13, <1>14 DEF ds

\* The topic's list after an answer names each post once.
LEMMA ListedProperties ==
    ASSUME listed \in Seq(Digests), OncePerPost(listed), NEW msgs \in Seq(Message),
           DigestsOf(msgs) \in Seq(Digests), OncePerPost(DigestsOf(msgs))
    PROVE  LET l == listed \o Picked(DigestsOf(msgs), NewToTopic(msgs))
           IN  l \in Seq(Digests) /\ OncePerPost(l)
<1> DEFINE ds == DigestsOf(msgs)
           at == NewToTopic(msgs)
           new == Picked(ds, at)
<1>1. at \subseteq DOMAIN ds /\ \A i \in at : ds[i] \notin ToSet(listed)
  BY DEF NewToTopic, DigestsOf
<1>2. \A i, j \in at : ds[i] = ds[j] /\ ds[i] # Empty => i = j
  BY <1>1 DEF OncePerPost
<1> HIDE DEF ds, at
<1>3. ds \in Seq(Digests)
  BY DEF ds
<1>4. /\ new \in Seq(Digests) /\ ToSet(new) = {ds[i] : i \in at}
      /\ \A k, l \in DOMAIN new : new[k] = new[l] /\ new[k] # Empty => k = l
  <2>1. new \in Seq(Digests) /\ ToSet(new) = {ds[i] : i \in at}
    BY <1>1, <1>3, PickedProperties
  <2>2. \A k, l \in DOMAIN new : new[k] = new[l] /\ new[k] # Empty => k = l
    <3>1. /\ \A k \in DOMAIN new : Nth(at, k) \in at /\ new[k] = ds[Nth(at, k)]
          /\ \A k, l \in DOMAIN new : Nth(at, k) = Nth(at, l) => k = l
      BY <1>1, <1>3, PickedPositions
    <3> HIDE DEF new
    <3> QED
      BY <1>2, <3>1
  <2> QED
    BY <2>1, <2>2
<1>5. ToSet(listed) \cap ToSet(new) \subseteq {Empty}
  BY <1>1, <1>4
<1> HIDE DEF new
<1>6. OncePerPost(new)
  BY <1>4 DEF OncePerPost
<1>7. OncePerPost(listed \o new) /\ listed \o new \in Seq(Digests)
  BY <1>4, <1>5, <1>6, ConcatOncePerPost
<1> QED
  BY <1>7 DEF new, ds, at

\* An answer that is applied keeps the invariant, whichever answers were
\* applied since it was asked for.
LEMMA AppliedInv ==
    ASSUME ForumInv, NEW a \in answers, setEntries(a) \/ setMessage(a)
    PROVE  ForumInv'
<1> DEFINE msgs == a.msgs
           ds == DigestsOf(msgs)
<1>1. PICK at \in SUBSET DOMAIN msgs :
         /\ Applied(a, at)
         /\ \A i \in DOMAIN msgs : msgs[i].digest \notin Known => i \in at
  BY DEF setEntries, setMessage
<1>2. msgs \in Seq(Message) /\ OncePerPost(ds)
  BY DEF ForumInv, ForumTypes, AnswersOnce
<1>3. index \in [Digests -> Nat] /\ listed \in Seq(Digests) /\ replies \in [Posts -> Seq(Posts)]
  BY DEF ForumInv, ForumTypes
<1>4. /\ answers' \subseteq answers /\ early' = early \cup Orphans
      /\ items' = items /\ fetches' = fetches
      /\ index' = Indexed(msgs) /\ replies' = Replies(msgs, at)
      /\ listed' = listed \o Picked(ds, NewToTopic(msgs))
  BY <1>1 DEF Applied
<1> HIDE DEF msgs
<1>5. /\ ds \in Seq(Digests) /\ DOMAIN ds = DOMAIN msgs /\ index' \in [Digests -> Nat]
      /\ \A d \in Digests : index'[d] > 0 <=> d \in Known \cup ToSet(ds)
  BY <1>2, <1>3, <1>4, IndexedProperties
<1>6. \A d \in ToSet(ds) \ Known : \E i \in at : msgs[i].digest = d
  BY <1>1 DEF ToSet, DigestsOf
<1>7. Known' = Known \cup ToSet(ds)
  <2>1. ToSet(ds) \subseteq Digests
    BY <1>5 DEF ToSet
  <2> QED
    BY <1>5, <2>1 DEF Known
<1>8. ASSUME NEW p \in Posts
      PROVE  /\ replies'[p] \in Seq(Posts)
             /\ ToSet(replies[p]) \subseteq ToSet(replies'[p])
             /\ IsInjective(replies[p]) => IsInjective(replies'[p])
             /\ p \in Known' =>
                   \A d \in Posts : Parent[d] = p /\ (\E i \in at : msgs[i].digest = d)
                                       => d \in ToSet(replies'[p])
  BY <1>2, <1>3, <1>4, <1>7, RepliesProperties
<1>9. replies' \in [Posts -> Seq(Posts)]
  <2>1. replies' = [p \in Posts |-> replies'[p]]
    BY <1>4 DEF Replies
  <2> QED
    BY <2>1, <1>8
<1>10. listed' \in Seq(Digests) /\ OncePerPost(listed')
  <2>1. OncePerPost(listed)
    BY DEF ForumInv, PostsListedOnce, OncePerPost
  <2> QED
    BY <2>1, <1>2, <1>3, <1>4, <1>5, ListedProperties
<1>11. ForumTypes'
  BY <1>4, <1>5, <1>9, <1>10 DEF ForumInv, ForumTypes, Orphans
<1>12. AnswersOnce'
  BY <1>4 DEF ForumInv, AnswersOnce
<1>13. PostsListedOnce'
  <2>1. \A p \in Posts : IsInjective(replies'[p])
    BY <1>8 DEF ForumInv, PostsListedOnce
  <2> QED
    BY <2>1, <1>10 DEF OncePerPost, PostsListedOnce
<1>14. \A p \in Posts : Parent[p] # NoPost => Parent[p] \in Posts /\ Parent[p] \in Digests
  BY ForumAssumption DEF Digests
<1>15. \A p \in Posts : p \in Digests
  BY DEF Digests
<1>16. OrphansAreEarly'
  <2> SUFFICES ASSUME NEW p \in Posts, p \notin early', p \in Known', Parent[p] # NoPost
               PROVE  Parent[p] \in Known'
    BY DEF OrphansAreEarly
  <2>1. CASE p \in Known
    BY <2>1, <1>4, <1>7 DEF ForumInv, OrphansAreEarly
  <2>2. CASE p \notin Known
    <3>1. index[p] = 0 /\ index'[p] > 0
      BY <2>2, <1>3, <1>15 DEF Known
    <3>2. index'[Parent[p]] # 0
      BY <3>1, <1>4 DEF Orphans
    <3> QED
      BY <3>2, <1>5, <1>14 DEF Known
  <2> QED
    BY <2>1, <2>2
<1>17. RepliesAttached'
  <2> SUFFICES ASSUME NEW p \in Posts, p \notin early', p \in Known', Parent[p] # NoPost,
                      Parent[p] \in Known'
               PROVE  p \in ToSet(replies'[Parent[p]])
    BY DEF RepliesAttached
  <2>1. CASE p \in Known
    <3>1. Parent[p] \in Known /\ p \in ToSet(replies[Parent[p]])
      BY <2>1, <1>4 DEF ForumInv, OrphansAreEarly, RepliesAttached
    <3> QED
      BY <3>1, <1>8, <1>14
  <2>2. CASE p \notin Known
    <3>1. \E i \in at : msgs[i].digest = p
      BY <2>2, <1>6, <1>7
    <3> QED
      BY <3>1, <1>8, <1>14
  <2> QED
    BY <2>1, <2>2
<1> QED
  BY <1>11, <1>12, <1>13, <1>16, <1>17 DEF ForumInv

\* A deleted topic lists nothing; the index and the replies are kept.
LEMMA DeleteInv ==
    ASSUME ForumInv, deleteTopic
    PROVE  ForumInv'
<1>1. <<>> \in Seq(Digests)
  OBVIOUS
<1>2. listed' = <<>> /\ UNCHANGED <<items, answers, index, replies, early, fetches>>
  BY DEF deleteTopic
<1>3. Known' = Known
  BY <1>2 DEF Known
<1> QED
  BY <1>1, <1>2, <1>3 DEF ForumInv, ForumTypes, AnswersOnce, OrphansAreEarly, PostsListedOnce,
                          RepliesAttached

\* Every step of the forum keeps the invariant.
LEMMA ForumStepInv == ForumInv /\ [ForumNext]_allForumVars => ForumInv'
<1> SUFFICES ASSUME ForumInv, [ForumNext]_allForumVars PROVE ForumInv'
  OBVIOUS
<1>1. CASE UNCHANGED forumVars
  BY <1>1, RegistryStepInv
<1>2. ASSUME NEW j \in Jobs, PutPost(j) \/ PutOffering(j) \/ TakePayment(j) PROVE ForumInv'
  BY <1>2, RegistryStepInv
<1>3. ASSUME NEW q \in Others, OthersPost(q) PROVE ForumInv'
  BY <1>3, RegistryStepInv
<1> QED
  BY <1>1, <1>2, <1>3, AskedInv, AppliedInv, DeleteInv DEF ForumNext, allForumVars

\* The invariant of the topic store holds in every behaviour of the forum.
THEOREM ForumInvariant == ForumSpec => []ForumInv
BY ForumInitInv, ForumStepInv, PTL DEF ForumSpec

\* The items of the registry, the answers on their way, the index, the topic
\* and the replies keep their types.
THEOREM ForumTypeCorrect == ForumSpec => []ForumTypeOK
<1>1. PayTypeOK /\ ForumInv => ForumTypeOK
  BY DEF ForumInv, ForumTypes, ForumTypeOK
<1> QED
  BY <1>1, ForumInvariant, PaymentTypeCorrect, PTL

\* However many posts, pages and single reads there are, and in whatever order
\* they are applied, setEntries and setMessage list a post once in its topic
\* and once among the replies of its parent.
THEOREM PostsOnceTheorem == ForumSpec => []PostsListedOnce
<1>1. ForumInv => PostsListedOnce
  BY DEF ForumInv
<1> QED
  BY <1>1, ForumInvariant, PTL

\* setEntries and setMessage show a known reply under its known parent, unless
\* the reply was indexed first.
THEOREM RepliesTheorem == ForumSpec => []RepliesAttached
<1>1. ForumInv => RepliesAttached
  BY DEF ForumInv
<1> QED
  BY <1>1, ForumInvariant, PTL
=============================================================================
