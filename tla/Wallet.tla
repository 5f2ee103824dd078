------------------------------- MODULE Wallet -------------------------------
(***************************************************************************)
(* The wallet of src/cashweb/wallet/index.ts over its UTXO store and the   *)
(* chain: how the stored coins follow the chain through notifications,     *)
(* address refreshes and outpoint checks, while payments freeze, spend and *)
(* delete them.                                                            *)
(*                                                                         *)
(* JavaScript runs one turn at a time: a step is what runs between two     *)
(* awaits.  A request to Chronik is two steps, the moment the indexer      *)
(* computes its answer and the moment the continuation uses it, and        *)
(* anything may run between them.                                          *)
(***************************************************************************)
EXTENDS UtxoStore, Integers, Sequences

CONSTANTS
    HDAddrs,      \* addresses derived from the seed, watched through Chronik;
                  \* the others are keys of received stamps
    Sends,        \* callers of constructTransaction
    Forwards,     \* calls of forwardUTXOsToPubkey
    Sweeps,       \* calls of updateAllOutpoints, one after each relay refresh
    MaxSnaps,     \* bound on address answers waiting to be applied
    MaxRestarts   \* bound on restarts of the process

ASSUME WalletAssumption ==
    /\ HDAddrs \subseteq Addrs
    /\ Sends \cap Forwards = {}
    /\ Sweeps \cap (Sends \cup Forwards) = {}
    /\ MaxSnaps \in Nat
    /\ MaxRestarts \in Nat

Payments == Sends \cup Forwards
Checkers == Payments \cup Sweeps

VARIABLES
    boot,       \* "setup" (no key yet), "refreshing" (in init), "up"
    listening,  \* Chronik subscriptions are active
    polling,    \* the polling timer is set
    want,       \* addresses whose UTXOs are still to be asked for
    snaps,      \* address answers computed and not yet applied
    handled,    \* txIdHandled
    handling,   \* those whose transaction lookup is under way
    phase,      \* progress of each payment
    held,       \* inputs of each payment
    check,      \* progress of each outpoint check
    restarts

walletVars == <<boot, listening, polling, want, snaps, handled, handling,
                phase, held, check, restarts>>
vars == <<chainVars, storeVars, walletVars>>

Phases == {"idle", "built", "checking", "checked", "accepted", "fixing",
           "done", "failed"}

\* pair[u] = v: when u proves unspent, v is what the check unfreezes.
CheckState ==
    [on : BOOLEAN, thaw : BOOLEAN, pair : UNION {[S -> Ids] : S \in SUBSET Ids},
     left : SUBSET Addrs, seen : SUBSET Ids]

NoCheck == [on |-> FALSE, thaw |-> FALSE, pair |-> [u \in {} |-> u],
            left |-> {}, seen |-> {}]

TypeOK ==
    /\ ChainTypeOK
    /\ StoreTypeOK
    /\ boot \in {"setup", "refreshing", "up"}
    /\ listening \in BOOLEAN
    /\ polling \in BOOLEAN
    /\ want \in SUBSET HDAddrs
    /\ snaps \in SUBSET (HDAddrs \X SUBSET Ids)
    /\ handled \in SUBSET TxIds
    /\ handling \in SUBSET TxIds
    /\ phase \in [Payments -> Phases]
    /\ held \in [Payments -> SUBSET Ids]
    /\ check \in [Checkers -> CheckState]
    /\ restarts \in Nat

Init ==
    /\ ChainInit
    /\ StoreInit
    /\ boot = "setup"
    /\ listening = FALSE
    /\ polling = FALSE
    /\ want = {}
    /\ snaps = {}
    /\ handled = {}
    /\ handling = {}
    /\ phase = [b \in Payments |-> "idle"]
    /\ held = [b \in Payments |-> {}]
    /\ check = [c \in Checkers |-> NoCheck]
    /\ restarts = 0

-----------------------------------------------------------------------------
(* The environment: other wallets, other devices with the same seed, and   *)
(* the network.                                                            *)

\* Somebody pays the wallet, or another device with its seed spends.
Elsewhere(t) ==
    /\ \E I \in SUBSET Unspent, O \in SUBSET Outs : Accept(t, I, O)
    /\ UNCHANGED <<storeVars, walletVars>>

Reorganise(t) ==
    /\ Drop(t)
    /\ UNCHANGED <<storeVars, walletVars>>

\* What is on disk matters only to a later restart.
WriteReachesDisk(id) ==
    /\ restarts < MaxRestarts
    /\ Flush(id)
    /\ UNCHANGED <<chainVars, walletVars>>

-----------------------------------------------------------------------------
(* Start-up.                                                               *)

\* newWallet of the setup wizard: clear the stores, then setXPrivKey, whose
\* init asks for the UTXOs of every derived address.  Nobody waits for init:
\* from here on the wallet may be used.
newWallet ==
    /\ boot = "setup"
    /\ Clear
    /\ boot' = "refreshing"
    /\ want' = HDAddrs
    /\ UNCHANGED <<chainVars, listening, polling, snaps, handled, handling,
                   phase, held, check, restarts>>

\* The process stops at any point and starts with the key it has stored.
Restart ==
    /\ boot # "setup"
    /\ restarts < MaxRestarts
    /\ Reload
    /\ boot' = "refreshing"
    /\ listening' = FALSE
    /\ polling' = FALSE
    /\ want' = HDAddrs
    /\ snaps' = {}
    /\ handled' = {}
    /\ handling' = {}
    /\ phase' = [b \in Payments |-> "idle"]
    /\ held' = [b \in Payments |-> {}]
    /\ check' = [c \in Checkers |-> NoCheck]
    /\ restarts' = restarts + 1
    /\ UNCHANGED chainVars

\* The end of init, once updateHDUTXOs is over: the websocket opens, or it
\* does not and the polling timer is set.
startListeners(opens) ==
    /\ boot = "refreshing"
    /\ want = {} /\ snaps = {}
    /\ boot' = "up"
    /\ listening' = opens
    /\ polling' = ~opens
    /\ UNCHANGED <<chainVars, storeVars, want, snaps, handled, handling,
                   phase, held, check, restarts>>

\* Mutant of pollingTick: the keys of received stamps are polled too.
pollingTickAllKeys ==
    /\ polling
    /\ want = {} /\ snaps = {}
    /\ want' = Addrs
    /\ UNCHANGED <<chainVars, storeVars, boot, listening, polling, snaps,
                   handled, handling, phase, held, check, restarts>>

\* A tick of the timer starts a refresh unless one is in flight.
pollingTick ==
    /\ polling
    /\ want = {} /\ snaps = {}
    /\ want' = HDAddrs
    /\ UNCHANGED <<chainVars, storeVars, boot, listening, polling, snaps,
                   handled, handling, phase, held, check, restarts>>

-----------------------------------------------------------------------------
(* updateUTXOsFromPkh: ask for an address, then refreshUTXOsByAddr.        *)

AddressAnswered(a) ==
    /\ a \in want
    /\ Cardinality(snaps) < MaxSnaps
    /\ want' = want \ {a}
    /\ snaps' = snaps \cup {<<a, UnspentAt(a)>>}
    /\ UNCHANGED <<chainVars, storeVars, boot, listening, polling, handled,
                   handling, phase, held, check, restarts>>

\* The request fails: the error is logged and the address is given up.
AddressFailed(a) ==
    /\ a \in want
    /\ want' = want \ {a}
    /\ UNCHANGED <<chainVars, storeVars, boot, listening, polling, snaps,
                   handled, handling, phase, held, check, restarts>>

Orders(S) == {o \in [1..Cardinality(S) -> S] :
                \A i, j \in DOMAIN o : o[i] = o[j] => i = j}

Elems(s) == {s[i] : i \in DOMAIN s}

\* The loop over the stored ids of the address.  An id that is missing from
\* "ids" is deleted, and ids.splice(-1, 1) drops the last element of ids: after
\* n misses only the first Len(ids) - n answers are still looked up.
Misses(stored, ids) ==
    LET n[i \in 0..Len(stored)] ==
          IF i = 0 THEN 0
          ELSE IF stored[i] \in Elems(SubSeq(ids, 1, Len(ids) - n[i-1]))
               THEN n[i-1]
               ELSE n[i-1] + 1
    IN  n

\* Mutant of RefreshDeletes: the missing ids are found and not deleted.
RefreshDeletesNothing(stored, ids) == {}

RefreshDeletes(stored, ids) ==
    LET n == Misses(stored, ids)
    IN  {stored[i] : i \in {j \in DOMAIN stored : n[j] # n[j-1]}}

\* Mutant of RefreshPuts: every answer is put, stored or not.
RefreshPutsAll(answer, found) == answer

\* Only the answers that were not among the stored ids are put.
RefreshPuts(answer, found) == answer \ found

\* The order of the map is the order of insertion and the order of the answer
\* is Chronik's: both are arbitrary here.
refreshUTXOsByAddr(snap) ==
    LET found == {id \in cache : AddrOf(id) = snap[1]}
    IN  /\ snap \in snaps
        /\ \E stored \in Orders(found), ids \in Orders(snap[2]) :
             Update(RefreshDeletes(stored, ids), RefreshPuts(snap[2], found), {})
        /\ snaps' = snaps \ {snap}
        /\ UNCHANGED <<chainVars, boot, listening, polling, want, handled,
                       handling, phase, held, check, restarts>>

-----------------------------------------------------------------------------
(* addressUpdated: the websocket's messages.  They may come late, more     *)
(* than once or, across a reconnection, never.                             *)

\* A transaction was added, confirmed or finalised: look it up, once.  (When
\* it is already gone again the lookup fails and nothing changes.)
TxNotified(t) ==
    /\ listening
    /\ status[t] = "live"
    /\ t \notin handled
    /\ handled' = handled \cup {t}
    /\ handling' = handling \cup {t}
    /\ UNCHANGED <<chainVars, storeVars, boot, listening, polling, want, snaps,
                   phase, held, check, restarts>>

HDOnly(S) == {id \in S : AddrOf(id) \in HDAddrs}

\* updateUTXOsFromTxid after the lookup: put the outputs, delete the inputs.
\* The transaction may have been dropped since the answer was computed.
updateUTXOsFromTxid(t) ==
    /\ t \in handling
    /\ status[t] # "unknown"
    /\ handling' = handling \ {t}
    /\ Update(HDOnly(ins[t]), HDOnly(OutputsOf(t)), {})
    /\ UNCHANGED <<chainVars, boot, listening, polling, want, snaps, handled,
                   phase, held, check, restarts>>

\* The lookup fails (or the transaction is gone): forget it was handled.
TxLookupFailed(t) ==
    /\ t \in handling
    /\ handling' = handling \ {t}
    /\ handled' = handled \ {t}
    /\ UNCHANGED <<chainVars, storeVars, boot, listening, polling, want, snaps,
                   phase, held, check, restarts>>

\* A transaction was removed or invalidated: refresh every address.
TxRemoved(t) ==
    /\ listening
    /\ status[t] = "dropped"
    /\ want' = HDAddrs
    /\ UNCHANGED <<chainVars, storeVars, boot, listening, polling, snaps,
                   handled, handling, phase, held, check, restarts>>

\* The relay client stores an output that a received message's stamp pays to
\* a key derived for it.
putStampUtxo(id) ==
    /\ boot # "setup"
    /\ id \in Created
    /\ AddrOf(id) \notin HDAddrs
    /\ Update({}, {id}, {})
    /\ UNCHANGED <<chainVars, walletVars>>

-----------------------------------------------------------------------------
(* checkAndFixUtxos, alone or inside fixUtxos.                             *)

\* Mutant of Answered: results are used before every address has answered.
AnsweredInPart(c) == check[c].on

\* Every address of the check has answered.
Answered(c) == check[c].on /\ check[c].left = {}

StartCheck(c, thaw, pair) ==
    check' = [check EXCEPT ![c] =
                [on |-> TRUE, thaw |-> thaw, pair |-> pair,
                 left |-> {AddrOf(id) : id \in DOMAIN pair}, seen |-> {}]]

\* fixUtxos drops the ids that are no longer stored, checks the others, and
\* reads the results by their position in the list it was given: the n-th id
\* that it kept answers for the n-th id of the list.
Position(ids, id) == CHOOSE i \in DOMAIN ids : ids[i] = id

KeptUpTo(ids, i) == {j \in 1..i : ids[j] \in cache}

fixPairs(ids) ==
    [id \in Elems(ids) \cap cache |->
        ids[Cardinality(KeptUpTo(ids, Position(ids, id)))]]

\* updateAllOutpoints takes every stored coin, so that nothing is dropped.
updateAllOutpoints(c) ==
    /\ boot # "setup"
    /\ ~check[c].on
    /\ StartCheck(c, TRUE, [id \in cache |-> id])
    /\ UNCHANGED <<chainVars, storeVars, boot, listening, polling, want, snaps,
                   handled, handling, phase, held, restarts>>

CheckAnswered(c, a) ==
    /\ a \in check[c].left
    /\ check' = [check EXCEPT ![c].left = @ \ {a},
                              ![c].seen = @ \cup UnspentAt(a)]
    /\ UNCHANGED <<chainVars, storeVars, boot, listening, polling, want, snaps,
                   handled, handling, phase, held, restarts>>

\* What becomes of the payment that asked for the check.
AfterCheck(c, ok) ==
    phase' = [b \in Payments |->
                IF b # c THEN phase[b]
                ELSE IF phase[b] = "checking" /\ ok THEN "checked" ELSE "failed"]

\* A request fails: the check throws before anything is deleted.
CheckFailed(c) ==
    /\ check[c].left # {}
    /\ check' = [check EXCEPT ![c] = NoCheck]
    /\ AfterCheck(c, FALSE)
    /\ UNCHANGED <<chainVars, storeVars, boot, listening, polling, want, snaps,
                   handled, handling, held, restarts>>

\* Every address has answered: delete what is spent, unfreeze what is not.
CheckDone(c) ==
    LET k == check[c]
        spent == DOMAIN k.pair \ k.seen
    IN  /\ Answered(c)
        /\ Update(spent, {}, IF k.thaw
                             THEN {k.pair[id] : id \in DOMAIN k.pair \cap k.seen}
                             ELSE {})
        /\ check' = [check EXCEPT ![c] = NoCheck]
        /\ AfterCheck(c, spent = {})
        /\ UNCHANGED <<chainVars, boot, listening, polling, want, snaps,
                       handled, handling, held, restarts>>

-----------------------------------------------------------------------------
(* Payments.                                                               *)

\* constructTransaction selects coins that are not frozen and freezes them in
\* the same turn.  Which ones depends on amounts, which are left out.
constructTransaction(b) ==
    /\ boot # "setup"
    /\ phase[b] = "idle"
    /\ \E S \in SUBSET (cache \ frozen) \ {{}} :
         /\ Freeze(S)
         /\ held' = [held EXCEPT ![b] = S]
    /\ phase' = [phase EXCEPT ![b] = "built"]
    /\ UNCHANGED <<chainVars, boot, listening, polling, want, snaps, handled,
                   handling, check, restarts>>

\* forwardUTXOsToPubkey spends the coins it is given, frozen or not, and
\* freezes none.  The redemption of received stamps may pass coins that are
\* not stored.
forwardUTXOsToPubkey(b) ==
    /\ boot # "setup"
    /\ phase[b] = "idle"
    /\ \E S \in SUBSET (cache \cup (Created \ HDOnly(Created))) \ {{}} :
         held' = [held EXCEPT ![b] = S]
    /\ phase' = [phase EXCEPT ![b] = "built"]
    /\ UNCHANGED <<chainVars, storeVars, boot, listening, polling, want, snaps,
                   handled, handling, check, restarts>>

\* A message send asks Chronik about its inputs before it broadcasts.
checkAndFixUtxos(b) ==
    /\ phase[b] = "built"
    /\ StartCheck(b, FALSE, [id \in held[b] |-> id])
    /\ phase' = [phase EXCEPT ![b] = "checking"]
    /\ UNCHANGED <<chainVars, storeVars, boot, listening, polling, want, snaps,
                   handled, handling, held, restarts>>

\* The node accepts the transaction; the reply is still to come.
BroadcastAccepted(b, t) ==
    /\ phase[b] \in {"built", "checked"}
    /\ \E O \in SUBSET Outs : Accept(t, held[b], O)
    /\ phase' = [phase EXCEPT ![b] = "accepted"]
    /\ UNCHANGED <<storeVars, boot, listening, polling, want, snaps, handled,
                   handling, held, check, restarts>>

\* The reply comes: the caller deletes the inputs.
BroadcastReplied(b) ==
    /\ phase[b] = "accepted"
    /\ Update(held[b], {}, {})
    /\ phase' = [phase EXCEPT ![b] = "done"]
    /\ UNCHANGED <<chainVars, boot, listening, polling, want, snaps, handled,
                   handling, held, check, restarts>>

\* The node refuses, the request fails, or its reply is lost.  Forwarding and
\* the registry's payments then call fixUtxos on the inputs ...
fixUtxos(b) ==
    /\ phase[b] \in {"built", "checked", "accepted"}
    /\ \E ids \in Orders(held[b]) : StartCheck(b, TRUE, fixPairs(ids))
    /\ phase' = [phase EXCEPT ![b] = "fixing"]
    /\ UNCHANGED <<chainVars, storeVars, boot, listening, polling, want, snaps,
                   handled, handling, held, restarts>>

\* ... a message send leaves them frozen.
SendAbandoned(b) ==
    /\ phase[b] \in {"built", "checked", "accepted"}
    /\ phase' = [phase EXCEPT ![b] = "failed"]
    /\ UNCHANGED <<chainVars, storeVars, boot, listening, polling, want, snaps,
                   handled, handling, held, check, restarts>>

-----------------------------------------------------------------------------
ChainStep == \E t \in TxIds : Elsewhere(t) \/ Reorganise(t)

StartStep == newWallet \/ Restart \/ \E opens \in BOOLEAN : startListeners(opens)

RefreshStep ==
    \/ pollingTick
    \/ \E a \in HDAddrs : AddressAnswered(a) \/ AddressFailed(a)
    \/ \E snap \in snaps : refreshUTXOsByAddr(snap)

NoticeStep ==
    \/ \E t \in TxIds : \/ TxNotified(t) \/ updateUTXOsFromTxid(t)
                        \/ TxLookupFailed(t) \/ TxRemoved(t)
    \/ \E id \in Ids : putStampUtxo(id) \/ WriteReachesDisk(id)

CheckStep ==
    \/ \E c \in Sweeps : updateAllOutpoints(c)
    \/ \E c \in Checkers : \/ CheckFailed(c) \/ CheckDone(c)
                           \/ \E a \in Addrs : CheckAnswered(c, a)

PaymentStep ==
    \/ \E b \in Sends : constructTransaction(b) \/ checkAndFixUtxos(b)
                        \/ SendAbandoned(b)
    \/ \E b \in Forwards : forwardUTXOsToPubkey(b)
    \/ \E b \in Payments : \/ BroadcastReplied(b) \/ fixUtxos(b)
                           \/ \E t \in TxIds : BroadcastAccepted(b, t)

Next == ChainStep \/ StartStep \/ RefreshStep \/ NoticeStep \/ CheckStep
        \/ PaymentStep

Spec == Init /\ [][Next]_vars

\* The event loop runs every continuation and fires the timer; Chronik answers
\* an address that is asked for again and again.
Fairness ==
    /\ WF_vars(newWallet)
    /\ WF_vars(\E opens \in BOOLEAN : startListeners(opens))
    /\ WF_vars(pollingTick)
    /\ WF_vars(\E snap \in snaps : refreshUTXOsByAddr(snap))
    /\ \A a \in HDAddrs : WF_vars(AddressAnswered(a) \/ AddressFailed(a))
                          /\ SF_vars(AddressAnswered(a))

FairSpec == Spec /\ Fairness

-----------------------------------------------------------------------------
(* Safety.                                                                 *)

\* Once the wallet has deleted the inputs of its own accepted transaction they
\* are not stored again in this process, whatever answers and notifications
\* were under way when the payment was made.
CommittedInputsStayGone ==
    \A b \in Payments : phase[b] = "done" => held[b] \cap cache = {}

\* Once a notified transaction has been processed, the coins it spends are not
\* stored again before the wallet restarts, even when the transaction that
\* created them is processed later.
HandledSpendsStayGone ==
    \A t \in handled \ handling : HDOnly(ins[t]) \cap cache = {}

EverCreated == {id \in Ids : status[id[1]] # "unknown" /\ id[2] \in outs[id[1]]}

\* A transaction that was ever accepted spends id, or the one that created id
\* was dropped.
Gone(id) == status[id[1]] = "dropped" \/ \E t \in TxIds : id \in ins[t]

\* An outpoint check deletes a coin only if the chain did spend it or drop it:
\* a coin that has been unspent all along is never discarded, whatever runs
\* between the requests of the check and whichever of them fail.
CheckDeletesOnlyGone ==
    [][\A c \in Checkers : CheckDone(c) =>
          \A id \in DOMAIN check[c].pair \cap (cache \ cache') : Gone(id)]_vars

\* The payments that hold coins they have not finished with.
Holding(b) == phase[b] \in {"built", "checking", "checked", "accepted"}

\* A coin held by an unfinished send is unfrozen only by an outpoint check, by
\* the first notification of the transaction that created it or, when it is a
\* received stamp, by being stored again with its message; an address refresh,
\* in particular, leaves the frozen records alone.
HeldThawedOnlyByCheckOrNotice ==
    [][\A b \in Sends : Holding(b) /\ Holding(b)' =>
          \A id \in held[b] \cap frozen \cap (cache' \ frozen') :
              \/ id[1] \in handling \ handling'
              \/ \E c \in Checkers : check[c].on /\ ~check'[c].on
              \/ AddrOf(id) \notin HDAddrs /\ UNCHANGED walletVars]_vars

\* refreshUTXOsByAddr removes only coins that are missing from the answer.
RefreshRemovesOnlyMissing ==
    [][restarts' = restarts =>
        \A snap \in snaps \ snaps' : (cache \ cache') \cap snap[2] = {}]_vars

-----------------------------------------------------------------------------
(* The inductive invariants behind the properties above.                   *)

\* A transaction that is not accepted spends nothing, and none spends its own
\* outputs.
ChainInv ==
    \A t \in TxIds : /\ status[t] = "unknown" => ins[t] = {}
                     /\ \A id \in ins[t] : id[1] # t

\* The inputs of a finished payment and the coins spent by a processed
\* transaction have tombstones.
CommittedDeleted ==
    \A b \in Payments : phase[b] = "done" => held[b] \subseteq deleted

HandledDeleted ==
    \A t \in handled : /\ status[t] # "unknown"
                       /\ t \notin handling => HDOnly(ins[t]) \subseteq deleted

\* Nothing is stored and nothing is under way before the wallet has a key.
SetupEmpty ==
    boot = "setup" =>
        /\ cache = {} /\ deleted = {}
        /\ ~listening /\ ~polling /\ want = {} /\ snaps = {}
        /\ handled = {} /\ handling = {}
        /\ \A b \in Payments : phase[b] = "idle"
        /\ \A c \in Checkers : ~check[c].on /\ check[c].left = {}

StoreInv == /\ TypeOK /\ ChainInv /\ SetupEmpty /\ TombstonesHold
            /\ ShownCoversCache /\ CommittedDeleted /\ HandledDeleted

\* Every coin the wallet knows of was created by an accepted transaction.
KnownCoins ==
    /\ cache \subseteq EverCreated
    /\ disk \subseteq EverCreated
    /\ \A snap \in snaps : snap[2] \subseteq EverCreated
    /\ \A b \in Payments : held[b] \subseteq EverCreated
    /\ \A c \in Checkers : DOMAIN check[c].pair \subseteq EverCreated

\* A coin under check is still to be asked about, known to be unspent, or gone.
CheckSound ==
    \A c \in Checkers : \A id \in DOMAIN check[c].pair :
        AddrOf(id) \in check[c].left \/ id \in check[c].seen \/ Gone(id)

CheckInv == TypeOK /\ ChainInv /\ KnownCoins /\ CheckSound

\* Only stored coins are frozen, and an answer holds coins of the address that
\* was asked for: a frozen coin of an answer is among the stored ids.
FrozenInv ==
    /\ frozen \subseteq cache
    /\ \A snap \in snaps : \A id \in snap[2] : AddrOf(id) = snap[1]

-----------------------------------------------------------------------------
(* The stores and the requests implement the life of a coin.               *)

Lifecycle(id) ==
    IF id \in cache THEN (IF id \in frozen THEN "frozen" ELSE "free")
    ELSE IF id \in deleted THEN "gone" ELSE "unknown"

L == INSTANCE CoinLifecycle WITH
        Coins <- Ids, coin <- [id \in Ids |-> Lifecycle(id)], session <- restarts

\* In one process a coin that is gone (spent by the wallet, seen spent, or
\* missing from an answer) never comes back, and a coin is frozen only while
\* it is stored: the wallet implements CoinLifecycle.
LifecycleSpec == L!Spec

-----------------------------------------------------------------------------
(* Liveness.                                                               *)

\* While the wallet polls, a coin that is spent elsewhere does not stay
\* selectable for ever: from some point on every derived coin it stores is
\* unspent.
PhantomsEventuallyGone ==
    <>[](polling => HDOnly(cache) \subseteq Unspent)
=============================================================================
