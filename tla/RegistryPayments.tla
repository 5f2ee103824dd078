-------------------------- MODULE RegistryPayments --------------------------
(***************************************************************************)
(* The payments that are not stamps: key metadata and forum burns of the   *)
(* registry handler (cashweb/registry/index.ts) and the mailbox fee that a *)
(* relay asks for with status 402 (RelayClient.getMessages), all built by  *)
(* pop.ts or constructBurnTransaction and carried to the network by the    *)
(* server that receives them.                                              *)
(*                                                                         *)
(* A payment takes one coin; how fixUtxos pairs several coins with their   *)
(* answers is the subject of module Wallet, and so are the sweeps.  The    *)
(* indexer may learn of a payment later than the server that took it.      *)
(***************************************************************************)
EXTENDS Naturals, FiniteSets

CONSTANTS
    Coins,
    MetadataJobs,   \* calls of updateKeyMetadata
    PostJobs,       \* calls of createBroadcast
    OfferJobs,      \* calls of addOfferings
    MailboxJobs,    \* calls of getMessages
    MaxRetries,     \* retries of getMessages
    MaxBusy,        \* bound on the calls under way at once
    MaxBegun        \* bound on the calls in all

Jobs == MetadataJobs \cup PostJobs \cup OfferJobs \cup MailboxJobs

ASSUME PaymentAssumption ==
    /\ IsFiniteSet(Jobs)
    /\ MaxRetries \in Nat
    /\ {MaxBusy, MaxBegun} \subseteq Nat
    \* a call is of one kind
    /\ MetadataJobs \cap (PostJobs \cup OfferJobs \cup MailboxJobs) = {}
    /\ PostJobs \cap (OfferJobs \cup MailboxJobs) = {}
    /\ OfferJobs \cap MailboxJobs = {}

VARIABLES
    registry,   \* "local" (the development server) or "remote"
    wallet,     \* what the wallet makes of each coin
    spent,      \* coins spent by transactions the servers have broadcast
    indexed,    \* those the indexer knows of
    phase,      \* progress of each call
    held,       \* the coins a call has selected
    sent,       \* calls whose paying request may still reach the server
    taken,      \* calls whose last paying request the server has taken
    acked,      \* calls that saw a payment acknowledged
    retries,    \* retries left
    snap,       \* the check under way: coins it found spent
    keys        \* the registry holds the metadata

payVars == <<registry, wallet, spent, indexed, phase, held, sent, taken, acked,
             retries, snap, keys>>

UnderWay == {"asking", "paying", "putting", "fixing", "fixed"}

PayTypeOK ==
    /\ registry \in {"local", "remote"}
    /\ wallet \in [Coins -> {"free", "frozen", "gone"}]
    /\ spent \in SUBSET Coins
    /\ indexed \in SUBSET spent
    /\ phase \in [Jobs -> UnderWay \cup {"idle", "done", "failed"}]
    /\ held \in [Jobs -> SUBSET Coins]
    /\ sent \in SUBSET Jobs
    /\ taken \in SUBSET Jobs
    /\ acked \in SUBSET Jobs
    /\ retries \in [Jobs -> 0..MaxRetries]
    /\ snap \in [Jobs -> SUBSET Coins]
    /\ keys \in BOOLEAN

PayInit ==
    /\ registry \in {"local", "remote"}
    /\ wallet = [c \in Coins |-> "free"]
    /\ spent = {}
    /\ indexed = {}
    /\ phase = [j \in Jobs |-> "idle"]
    /\ held = [j \in Jobs |-> {}]
    /\ sent = {}
    /\ taken = {}
    /\ acked = {}
    /\ retries = [j \in Jobs |-> MaxRetries]
    /\ snap = [j \in Jobs |-> {}]
    /\ keys = FALSE

JobGoes(j, from, to) == phase[j] = from /\ phase' = [phase EXCEPT ![j] = to]

\* Mutant of construct: the selected coin is not frozen.
constructUnfrozen(j, from) ==
    \E c \in Coins :
        /\ wallet[c] = "free"
        /\ JobGoes(j, from, "paying")
        /\ held' = [held EXCEPT ![j] = @ \cup {c}]
        /\ sent' = sent \cup {j}
        /\ taken' = taken \ {j}
        /\ UNCHANGED <<registry, wallet, spent, indexed, acked, snap, keys>>

\* constructTransaction selects and freezes a coin; the request that carries
\* the transaction is on its way.
construct(j, from) ==
    \E c \in Coins :
        /\ wallet[c] = "free"
        /\ JobGoes(j, from, "paying")
        /\ wallet' = [wallet EXCEPT ![c] = "frozen"]
        /\ held' = [held EXCEPT ![j] = @ \cup {c}]
        /\ sent' = sent \cup {j}
        /\ taken' = taken \ {j}
        /\ UNCHANGED <<registry, spent, indexed, acked, snap, keys>>

\* updateKeyMetadata: the local registry takes a development token, another
\* one is asked for its price.
updateKeyMetadata(j) ==
    /\ JobGoes(j, "idle", IF registry = "local" THEN "putting" ELSE "asking")
    /\ UNCHANGED <<registry, wallet, spent, indexed, held, sent, taken, acked,
                   retries, snap, keys>>

\* getMessages of a relay other than the local one.
getMessages(j) ==
    /\ registry = "remote"
    /\ JobGoes(j, "idle", "asking")
    /\ UNCHANGED <<registry, wallet, spent, indexed, held, sent, taken, acked,
                   retries, snap, keys>>

\* Mutant of PaymentRequired: the retries are not counted.
PaymentRequiredUncounted(j) == construct(j, "asking") /\ UNCHANGED retries

\* Status 402 with payment details: the payment is built and sent.
PaymentRequired(j) ==
    /\ j \in MailboxJobs => retries[j] > 0
    /\ construct(j, "asking")
    /\ retries' = IF j \in MailboxJobs THEN [retries EXCEPT ![j] = @ - 1] ELSE retries

\* The mailbox page is answered.
PageAnswered(j) ==
    /\ j \in MailboxJobs
    /\ JobGoes(j, "asking", "done")
    /\ UNCHANGED <<registry, wallet, spent, indexed, held, sent, taken, acked,
                   retries, snap, keys>>

\* Another status, no coins, or a 402 after the last retry: the call throws.
AskFails(j) ==
    /\ JobGoes(j, "asking", "failed")
    /\ UNCHANGED <<registry, wallet, spent, indexed, held, sent, taken, acked,
                   retries, snap, keys>>

\* createBroadcast and addOfferings burn without asking.
createBroadcast(j) == construct(j, "idle") /\ UNCHANGED retries

\* The server takes the transaction, now or after the caller has given up.  A
\* remote one broadcasts it; the local registry only stores the item.
ServerTakes(j) ==
    /\ j \in sent
    /\ registry = "remote" => \E c \in held[j] : c \notin spent
    /\ sent' = sent \ {j}
    /\ taken' = taken \cup {j}
    /\ spent' = IF registry = "remote" THEN spent \cup held[j] ELSE spent
    /\ UNCHANGED <<registry, wallet, indexed, phase, held, acked, retries, snap, keys>>

\* The request is refused or lost.
RequestLost(j) ==
    /\ j \in sent
    /\ sent' = sent \ {j}
    /\ UNCHANGED <<registry, wallet, spent, indexed, phase, held, taken, acked,
                   retries, snap, keys>>

WithoutHeld(j) == [c \in Coins |-> IF c \in held[j] THEN "gone" ELSE wallet[c]]

\* Mutant of Acknowledged: the coins of the metadata payment are deleted only
\* after the metadata is stored.
AcknowledgedLate(j) ==
    /\ phase[j] = "paying" /\ j \in taken
    /\ acked' = acked \cup {j}
    /\ phase' = [phase EXCEPT ![j] = CASE j \in MetadataJobs -> "putting"
                                       [] j \in MailboxJobs -> "asking"
                                       [] OTHER -> "done"]
    /\ wallet' = IF j \in MailboxJobs \cup MetadataJobs THEN wallet ELSE WithoutHeld(j)
    /\ UNCHANGED <<registry, spent, indexed, held, sent, taken, retries, snap, keys>>

\* The acknowledgement: the coins are deleted, except by getMessages, which
\* sets its token and asks again.
Acknowledged(j) ==
    /\ phase[j] = "paying" /\ j \in taken
    /\ acked' = acked \cup {j}
    /\ phase' = [phase EXCEPT ![j] = CASE j \in MetadataJobs -> "putting"
                                       [] j \in MailboxJobs -> "asking"
                                       [] OTHER -> "done"]
    /\ wallet' = IF j \in MailboxJobs THEN wallet ELSE WithoutHeld(j)
    /\ UNCHANGED <<registry, spent, indexed, held, sent, taken, retries, snap, keys>>

\* The payment throws: metadata and posts fix their coins, offerings and the
\* mailbox fee have no error path.
PaymentFails(j) ==
    /\ phase[j] = "paying"
    /\ phase' = [phase EXCEPT ![j] = IF j \in MetadataJobs \cup PostJobs
                                     THEN "fixing" ELSE "failed"]
    /\ UNCHANGED <<registry, wallet, spent, indexed, held, sent, taken, acked,
                   retries, snap, keys>>

putMetadata(j) ==
    /\ JobGoes(j, "putting", "done")
    /\ keys' = TRUE
    /\ UNCHANGED <<registry, wallet, spent, indexed, held, sent, taken, acked,
                   retries, snap>>

\* The local registry's PUT is outside the try block.
PutFails(j) ==
    /\ JobGoes(j, "putting", IF registry = "local" THEN "failed" ELSE "fixing")
    /\ UNCHANGED <<registry, wallet, spent, indexed, held, sent, taken, acked,
                   retries, snap, keys>>

\* fixUtxos: the indexer answers, or the request fails and nothing changes;
FixAnswered(j) ==
    /\ JobGoes(j, "fixing", "fixed")
    /\ snap' = [snap EXCEPT ![j] = held[j] \cap indexed]
    /\ UNCHANGED <<registry, wallet, spent, indexed, held, sent, taken, acked,
                   retries, keys>>

FixFails(j) ==
    /\ JobGoes(j, "fixing", "failed")
    /\ UNCHANGED <<registry, wallet, spent, indexed, held, sent, taken, acked,
                   retries, snap, keys>>

\* spent coins are deleted, the others unfrozen if they are still stored.
fixUtxos(j) ==
    /\ JobGoes(j, "fixed", "failed")
    /\ wallet' = [c \in Coins |-> IF c \notin held[j] \/ wallet[c] = "gone" THEN wallet[c]
                                  ELSE IF c \in snap[j] THEN "gone" ELSE "free"]
    /\ snap' = [snap EXCEPT ![j] = {}]
    /\ UNCHANGED <<registry, spent, indexed, held, sent, taken, acked, retries, keys>>

\* The indexer learns of a payment and notifies the wallet.
Index(c) ==
    /\ c \in spent \ indexed
    /\ indexed' = indexed \cup {c}
    /\ UNCHANGED <<registry, wallet, spent, phase, held, sent, taken, acked,
                   retries, snap, keys>>

Noticed(c) ==
    /\ c \in indexed
    /\ wallet[c] # "gone"
    /\ wallet' = [wallet EXCEPT ![c] = "gone"]
    /\ UNCHANGED <<registry, spent, indexed, phase, held, sent, taken, acked,
                   retries, snap, keys>>

ClientStep(j) ==
    \/ /\ Cardinality({k \in Jobs : phase[k] \in UnderWay}) < MaxBusy
       /\ Cardinality({k \in Jobs : phase[k] # "idle"}) < MaxBegun
       /\ \/ j \in MetadataJobs /\ updateKeyMetadata(j)
          \/ j \in MailboxJobs /\ getMessages(j)
          \/ j \in PostJobs \cup OfferJobs /\ createBroadcast(j)
    \/ PaymentRequired(j) \/ PageAnswered(j) \/ AskFails(j)
    \/ PaymentFails(j) \/ putMetadata(j) \/ PutFails(j)
    \/ FixAnswered(j) \/ FixFails(j) \/ fixUtxos(j)

ChainStep == \E c \in Coins : Index(c) \/ Noticed(c)

PayNext ==
    \/ \E j \in Jobs : ClientStep(j) \/ Acknowledged(j) \/ RequestLost(j) \/ ServerTakes(j)
    \/ ChainStep

PaySpec == PayInit /\ [][PayNext]_payVars

-----------------------------------------------------------------------------
\* A coin whose payment was acknowledged is not selected again in the process,
\* also when a later step of the call fails and its coins are checked while the
\* indexer has not seen the payment.
PaidNotFree == \A j \in acked : \A c \in held[j] : wallet[c] # "free"

\* Two calls under way never hold the same coin, whatever fails.
HeldByOne ==
    \A j, k \in Jobs : j # k /\ phase[j] \in UnderWay /\ phase[k] \in UnderWay
                          => held[j] \cap held[k] = {}

\* One call of getMessages pays at most as often as it has retries.
MailboxBounded == \A j \in MailboxJobs : Cardinality(held[j]) <= MaxRetries
=============================================================================
