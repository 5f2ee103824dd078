---------------------------- MODULE WalletProofs ----------------------------
(***************************************************************************)
(* Proofs about the wallet for any set of transactions, addresses and      *)
(* payments and any bounds.                                                *)
(***************************************************************************)
EXTENDS Wallet, FiniteSetTheorems, TLAPS

\* An id is an output of a transaction, and it pays one of the addresses.
LEMMA IdsParts ==
    ASSUME NEW id \in Ids
    PROVE  id[1] \in TxIds /\ id[2] \in Outs /\ AddrOf(id) \in Addrs
  BY ChronikAssumption DEF Ids, AddrOf

\* RefreshDeletes, whatever the order of the map and of the answer, selects
\* among the stored ids.
LEMMA RefreshDeletesStored ==
    ASSUME NEW S, NEW stored \in Orders(S), NEW ids
    PROVE  RefreshDeletes(stored, ids) \subseteq S
  BY DEF Orders, RefreshDeletes

\* One write of LevelUtxoStore, of ids, keeps the store's type.
LEMMA UpdateTypeOK ==
    ASSUME StoreTypeOK, NEW D \in SUBSET Ids, NEW P \in SUBSET Ids, NEW T,
           Update(D, P, T)
    PROVE  StoreTypeOK'
  BY DEF StoreTypeOK, Update, Accepted

\* The outputs a lookup or an answer names are ids.
LEMMA OutputsType ==
    ASSUME ChainTypeOK
    PROVE  /\ \A t \in TxIds : HDOnly(OutputsOf(t)) \in SUBSET Ids
           /\ \A t \in TxIds : HDOnly(ins[t]) \in SUBSET Ids
           /\ Created \in SUBSET Ids
           /\ \A a : UnspentAt(a) \in SUBSET Ids
  BY DEF ChainTypeOK, OutputsOf, Ids, HDOnly, Created, UnspentAt, Unspent

\* A transaction the network accepts keeps the chain's type.
LEMMA AcceptTypeOK ==
    ASSUME ChainTypeOK, NEW t \in TxIds, NEW I, NEW O \in SUBSET Outs,
           Accept(t, I, O)
    PROVE  ChainTypeOK'
  BY DEF ChainTypeOK, Accept, Unspent, Created

\* There are finitely many coins, so that they can be counted.
LEMMA IdsFinite == \A S \in SUBSET Ids : IsFiniteSet(S) /\ Cardinality(S) \in Nat
  <1>1. IsFiniteSet(Ids)
    BY ChronikAssumption, FS_Product DEF Ids
  <1> QED
    BY <1>1, FS_Subset, FS_CardinalityType

\* The n-th kept id is paired with an id of the list.
LEMMA FixPairsType ==
    ASSUME NEW S \in SUBSET Ids, NEW ids \in Orders(S)
    PROVE  fixPairs(ids) \in [Elems(ids) \cap cache -> Ids]
  <1>1. /\ ids \in [1..Cardinality(S) -> S]
        /\ Cardinality(S) \in Nat
    BY IdsFinite DEF Orders
  <1>2. ASSUME NEW id \in Elems(ids) \cap cache
        PROVE  ids[Cardinality(KeptUpTo(ids, Position(ids, id)))] \in Ids
    <2> DEFINE p == Position(ids, id)
               K == KeptUpTo(ids, p)
    <2>1. p \in 1..Cardinality(S) /\ ids[p] = id
      BY <1>1 DEF Position, Elems
    <2>2. K \subseteq 1..p /\ p \in K
      BY <2>1 DEF KeptUpTo
    <2>3. IsFiniteSet(1..p) /\ Cardinality(1..p) = p
      BY <2>1, FS_Interval
    <2>4. IsFiniteSet(K) /\ Cardinality(K) <= p
      BY <2>2, <2>3, FS_Subset
    <2>5. Cardinality(K) \in Nat /\ Cardinality(K) # 0
      BY <2>2, <2>4, FS_CardinalityType, FS_EmptySet
    <2> QED
      BY <1>1, <2>1, <2>4, <2>5
  <1> QED
    BY <1>2 DEF fixPairs

\* An outpoint check that is not running is a check state.
LEMMA NoCheckType == NoCheck \in CheckState
  <1>1. NoCheck.pair \in [{} -> Ids]
    BY DEF NoCheck
  <1> QED
    BY <1>1 DEF NoCheck, CheckState

\* Starting a check gives a well-formed check state.
LEMMA StartCheckType ==
    ASSUME check \in [Checkers -> CheckState], NEW c \in Checkers,
           NEW thaw \in BOOLEAN, NEW Q \in SUBSET Ids, NEW pair \in [Q -> Ids],
           StartCheck(c, thaw, pair)
    PROVE  check' \in [Checkers -> CheckState]
  <1>1. {AddrOf(id) : id \in DOMAIN pair} \in SUBSET Addrs
    BY IdsParts
  <1>2. pair \in UNION {[S -> Ids] : S \in SUBSET Ids}
    OBVIOUS
  <1> QED
    BY <1>1, <1>2 DEF StartCheck, CheckState

\* What follows an outpoint check of a send is a phase of the send.
LEMMA AfterCheckType ==
    ASSUME phase \in [Payments -> Phases], NEW c, NEW ok, AfterCheck(c, ok)
    PROVE  phase' \in [Payments -> Phases]
  BY DEF AfterCheck, Phases

\* The first start of the wallet is well typed.
LEMMA InitTypeOK == Init => TypeOK
  <1> SUFFICES ASSUME Init PROVE TypeOK
    OBVIOUS
  <1>1. ChainTypeOK /\ StoreTypeOK
    BY DEF Init, ChainInit, ChainTypeOK, StoreInit, StoreTypeOK
  <1>2. check \in [Checkers -> CheckState]
    BY NoCheckType DEF Init
  <1>3. phase \in [Payments -> Phases] /\ held \in [Payments -> SUBSET Ids]
    BY DEF Init, Phases
  <1> QED
    BY <1>1, <1>2, <1>3 DEF Init, TypeOK

\* Every variable keeps its type, for all values of the constants.
THEOREM TypeCorrect == Spec => []TypeOK
  <1>1. Init => TypeOK
    BY InitTypeOK
  <1>2. TypeOK /\ [Next]_vars => TypeOK'
    <2> SUFFICES ASSUME TypeOK, [Next]_vars PROVE TypeOK'
      OBVIOUS
    <2> USE DEF TypeOK
    <2>1. CASE ChainStep
      <3>1. ASSUME NEW t \in TxIds, Elsewhere(t) PROVE TypeOK'
        BY <3>1, AcceptTypeOK DEF Elsewhere, storeVars, walletVars, StoreTypeOK
      <3>2. ASSUME NEW t \in TxIds, Reorganise(t) PROVE TypeOK'
        BY <3>2 DEF Reorganise, Drop, ChainTypeOK, storeVars, walletVars, StoreTypeOK
      <3> QED
        BY <2>1, <3>1, <3>2 DEF ChainStep
    <2>2. CASE StartStep
      <3>1. CASE newWallet
        BY <3>1 DEF newWallet, Clear, StoreTypeOK, chainVars, ChainTypeOK
      <3>2. CASE Restart
        <4>1. ChainTypeOK' /\ StoreTypeOK'
          BY <3>2 DEF Restart, Reload, StoreTypeOK, chainVars, ChainTypeOK
        <4>2. check' \in [Checkers -> CheckState]
          BY <3>2, NoCheckType DEF Restart
        <4>3. phase' \in [Payments -> Phases] /\ held' \in [Payments -> SUBSET Ids]
          BY <3>2 DEF Restart, Phases
        <4>4. restarts' \in Nat /\ want' \in SUBSET HDAddrs
          BY <3>2 DEF Restart
        <4>5. boot' \in {"setup", "refreshing", "up"} /\ listening' \in BOOLEAN
              /\ polling' \in BOOLEAN
          BY <3>2 DEF Restart
        <4>6. snaps' = {} /\ handled' = {} /\ handling' = {}
          BY <3>2 DEF Restart
        <4> QED
          BY <4>1, <4>2, <4>3, <4>4, <4>5, <4>6
      <3>3. ASSUME NEW opens \in BOOLEAN, startListeners(opens) PROVE TypeOK'
        BY <3>3 DEF startListeners, chainVars, ChainTypeOK, storeVars, StoreTypeOK
      <3> QED
        BY <2>2, <3>1, <3>2, <3>3 DEF StartStep
    <2>3. CASE RefreshStep
      <3>1. CASE pollingTick
        BY <3>1 DEF pollingTick, chainVars, ChainTypeOK, storeVars, StoreTypeOK
      <3>2. ASSUME NEW a \in HDAddrs, AddressAnswered(a) PROVE TypeOK'
        <4>1. <<a, UnspentAt(a)>> \in HDAddrs \X SUBSET Ids
          BY OutputsType
        <4> QED
          BY <3>2, <4>1
             DEF AddressAnswered, chainVars, ChainTypeOK, storeVars, StoreTypeOK
      <3>3. ASSUME NEW a \in HDAddrs, AddressFailed(a) PROVE TypeOK'
        BY <3>3 DEF AddressFailed, chainVars, ChainTypeOK, storeVars, StoreTypeOK
      <3>4. ASSUME NEW snap \in snaps, refreshUTXOsByAddr(snap) PROVE TypeOK'
        <4>1. StoreTypeOK'
          <5> DEFINE found == {id \in cache : AddrOf(id) = snap[1]}
          <5>1. PICK stored \in Orders(found), ids \in Orders(snap[2]) :
                  Update(RefreshDeletes(stored, ids),
                         RefreshPuts(snap[2], found), {})
            BY <3>4 DEF refreshUTXOsByAddr
          <5>2. RefreshDeletes(stored, ids) \in SUBSET Ids
            BY RefreshDeletesStored DEF StoreTypeOK
          <5>3. RefreshPuts(snap[2], found) \in SUBSET Ids
            BY DEF RefreshPuts
          <5> QED
            BY <5>1, <5>2, <5>3, UpdateTypeOK
        <4> QED
          BY <3>4, <4>1 DEF refreshUTXOsByAddr, chainVars, ChainTypeOK
      <3> QED
        BY <2>3, <3>1, <3>2, <3>3, <3>4 DEF RefreshStep
    <2>4. CASE NoticeStep
      <3>1. ASSUME NEW t \in TxIds, TxNotified(t) PROVE TypeOK'
        BY <3>1 DEF TxNotified, chainVars, ChainTypeOK, storeVars, StoreTypeOK
      <3>2. ASSUME NEW t \in TxIds, updateUTXOsFromTxid(t) PROVE TypeOK'
        <4>1. StoreTypeOK'
          BY <3>2, OutputsType, UpdateTypeOK DEF updateUTXOsFromTxid
        <4> QED
          BY <3>2, <4>1 DEF updateUTXOsFromTxid, chainVars, ChainTypeOK
      <3>3. ASSUME NEW t \in TxIds, TxLookupFailed(t) PROVE TypeOK'
        BY <3>3 DEF TxLookupFailed, chainVars, ChainTypeOK, storeVars, StoreTypeOK
      <3>4. ASSUME NEW t \in TxIds, TxRemoved(t) PROVE TypeOK'
        BY <3>4 DEF TxRemoved, chainVars, ChainTypeOK, storeVars, StoreTypeOK
      <3>5. ASSUME NEW id \in Ids, putStampUtxo(id) PROVE TypeOK'
        <4>1. StoreTypeOK'
          BY <3>5, UpdateTypeOK DEF putStampUtxo
        <4> QED
          BY <3>5, <4>1 DEF putStampUtxo, chainVars, ChainTypeOK, walletVars
      <3>6. ASSUME NEW id \in Ids, WriteReachesDisk(id) PROVE TypeOK'
        BY <3>6 DEF WriteReachesDisk, Flush, StoreTypeOK, chainVars, ChainTypeOK,
                    walletVars
      <3> QED
        BY <2>4, <3>1, <3>2, <3>3, <3>4, <3>5, <3>6 DEF NoticeStep
    <2>5. CASE CheckStep
      <3>1. ASSUME NEW c \in Sweeps, updateAllOutpoints(c) PROVE TypeOK'
        <4>1. check' \in [Checkers -> CheckState]
          <5>1. [id \in cache |-> id] \in [cache -> Ids] /\ cache \in SUBSET Ids
            BY DEF StoreTypeOK
          <5> QED
            BY <3>1, <5>1, StartCheckType DEF updateAllOutpoints, Checkers
        <4> QED
          BY <3>1, <4>1
             DEF updateAllOutpoints, chainVars, ChainTypeOK, storeVars, StoreTypeOK
      <3>2. ASSUME NEW c \in Checkers, CheckFailed(c) PROVE TypeOK'
        <4>1. phase' \in [Payments -> Phases]
          BY <3>2, AfterCheckType DEF CheckFailed
        <4> QED
          BY <3>2, <4>1, NoCheckType
             DEF CheckFailed, chainVars, ChainTypeOK, storeVars, StoreTypeOK
      <3>3. ASSUME NEW c \in Checkers, CheckDone(c) PROVE TypeOK'
        <4>1. phase' \in [Payments -> Phases]
          BY <3>3, AfterCheckType DEF CheckDone
        <4>2. StoreTypeOK'
          <5>1. DOMAIN check[c].pair \ check[c].seen \in SUBSET Ids
            BY DEF CheckState
          <5> QED
            BY <3>3, <5>1, UpdateTypeOK DEF CheckDone
        <4> QED
          BY <3>3, <4>1, <4>2, NoCheckType DEF CheckDone, chainVars, ChainTypeOK
      <3>4. ASSUME NEW c \in Checkers, NEW a \in Addrs, CheckAnswered(c, a)
            PROVE  TypeOK'
        <4>1. check' \in [Checkers -> CheckState]
          <5>1. check[c] \in CheckState
            OBVIOUS
          <5>2. [check[c] EXCEPT !.left = @ \ {a}, !.seen = @ \cup UnspentAt(a)]
                  \in CheckState
            BY <5>1, OutputsType DEF CheckState
          <5>3. check' = [check EXCEPT ![c] = [check[c] EXCEPT !.left = @ \ {a},
                                                    !.seen = @ \cup UnspentAt(a)]]
            BY <3>4, <5>1 DEF CheckAnswered, CheckState
          <5> QED
            BY <5>2, <5>3
        <4> QED
          BY <3>4, <4>1
             DEF CheckAnswered, chainVars, ChainTypeOK, storeVars, StoreTypeOK
      <3> QED
        BY <2>5, <3>1, <3>2, <3>3, <3>4 DEF CheckStep
    <2>6. CASE PaymentStep
      <3> USE DEF Payments, Checkers, Phases
      <3>1. ASSUME NEW b \in Sends, constructTransaction(b) PROVE TypeOK'
        BY <3>1 DEF constructTransaction, Freeze, StoreTypeOK, chainVars, ChainTypeOK
      <3>2. ASSUME NEW b \in Sends, checkAndFixUtxos(b) PROVE TypeOK'
        <4>1. [id \in held[b] |-> id] \in [held[b] -> Ids] /\ held[b] \in SUBSET Ids
          OBVIOUS
        <4>2. check' \in [Checkers -> CheckState]
          BY <3>2, <4>1, StartCheckType DEF checkAndFixUtxos
        <4> QED
          BY <3>2, <4>2
             DEF checkAndFixUtxos, chainVars, ChainTypeOK, storeVars, StoreTypeOK
      <3>3. ASSUME NEW b \in Sends, SendAbandoned(b) PROVE TypeOK'
        BY <3>3 DEF SendAbandoned, chainVars, ChainTypeOK, storeVars, StoreTypeOK
      <3>4. ASSUME NEW b \in Forwards, forwardUTXOsToPubkey(b) PROVE TypeOK'
        BY <3>4, OutputsType
           DEF forwardUTXOsToPubkey, chainVars, ChainTypeOK, storeVars, StoreTypeOK
      <3>5. ASSUME NEW b \in Payments, BroadcastReplied(b) PROVE TypeOK'
        <4>1. StoreTypeOK'
          BY <3>5, UpdateTypeOK DEF BroadcastReplied
        <4> QED
          BY <3>5, <4>1 DEF BroadcastReplied, chainVars, ChainTypeOK
      <3>6. ASSUME NEW b \in Payments, fixUtxos(b) PROVE TypeOK'
        <4>1. PICK ids \in Orders(held[b]) : StartCheck(b, TRUE, fixPairs(ids))
          BY <3>6 DEF fixUtxos
        <4>2. held[b] \in SUBSET Ids
          OBVIOUS
        <4>3. fixPairs(ids) \in [Elems(ids) \cap cache -> Ids]
          BY <4>2, FixPairsType
        <4>4. Elems(ids) \cap cache \in SUBSET Ids
          BY DEF StoreTypeOK
        <4>5. check' \in [Checkers -> CheckState]
          BY <4>1, <4>3, <4>4, StartCheckType
        <4> QED
          BY <3>6, <4>5 DEF fixUtxos, chainVars, ChainTypeOK, storeVars, StoreTypeOK
      <3>7. ASSUME NEW b \in Payments, NEW t \in TxIds, BroadcastAccepted(b, t)
            PROVE  TypeOK'
        BY <3>7, AcceptTypeOK DEF BroadcastAccepted, storeVars, StoreTypeOK
      <3> QED
        BY <2>6, <3>1, <3>2, <3>3, <3>4, <3>5, <3>6, <3>7 DEF PaymentStep
    <2>7. CASE UNCHANGED vars
      BY <2>7 DEF vars, chainVars, ChainTypeOK, storeVars, StoreTypeOK, walletVars
    <2> QED
      BY <2>1, <2>2, <2>3, <2>4, <2>5, <2>6, <2>7 DEF Next
  <1> QED
    BY <1>1, <1>2, PTL DEF Spec

-----------------------------------------------------------------------------
(* Every step that does not start the wallet treats the store in one of    *)
(* four ways.                                                              *)

StoreMove ==
    \/ UNCHANGED storeVars
    \/ \E D, P, T \in SUBSET Ids : D \cap P = {} /\ Update(D, P, T)
    \/ \E F \in SUBSET Ids : Freeze(F)
    \/ \E id \in Ids : Flush(id)

\* Every step within a process moves the store by one of its operations.
LEMMA StoreSteps ==
    ASSUME TypeOK, ChainInv, Next
    PROVE  newWallet \/ Restart \/ StoreMove
  <1> USE DEF TypeOK
  <1>1. CASE ChainStep
    BY <1>1 DEF ChainStep, Elsewhere, Reorganise, StoreMove
  <1>2. CASE StartStep
    BY <1>2 DEF StartStep, startListeners, StoreMove
  <1>3. CASE RefreshStep
    <2>1. ASSUME NEW snap \in snaps, refreshUTXOsByAddr(snap) PROVE StoreMove
      <3> DEFINE found == {id \in cache : AddrOf(id) = snap[1]}
      <3>1. PICK stored \in Orders(found), ids \in Orders(snap[2]) :
              Update(RefreshDeletes(stored, ids), RefreshPuts(snap[2], found), {})
        BY <2>1 DEF refreshUTXOsByAddr
      <3>2. RefreshDeletes(stored, ids) \subseteq found
        BY RefreshDeletesStored
      <3>3. /\ RefreshDeletes(stored, ids) \in SUBSET Ids
            /\ RefreshPuts(snap[2], found) \in SUBSET Ids
            /\ RefreshDeletes(stored, ids) \cap RefreshPuts(snap[2], found) = {}
        BY <3>2 DEF RefreshPuts, StoreTypeOK
      <3> QED
        BY <3>1, <3>3 DEF StoreMove
    <2> QED
      BY <1>3, <2>1
         DEF RefreshStep, pollingTick, AddressAnswered, AddressFailed, StoreMove
  <1>4. CASE NoticeStep
    <2>1. ASSUME NEW t \in TxIds, updateUTXOsFromTxid(t) PROVE StoreMove
      <3>1. HDOnly(ins[t]) \cap HDOnly(OutputsOf(t)) = {}
        BY DEF ChainInv, HDOnly, OutputsOf
      <3> QED
        BY <2>1, <3>1, OutputsType DEF updateUTXOsFromTxid, StoreMove
    <2>2. ASSUME NEW id \in Ids, putStampUtxo(id) PROVE StoreMove
      BY <2>2 DEF putStampUtxo, StoreMove
    <2>3. ASSUME NEW id \in Ids, WriteReachesDisk(id) PROVE StoreMove
      BY <2>3 DEF WriteReachesDisk, StoreMove
    <2> QED
      BY <1>4, <2>1, <2>2, <2>3
         DEF NoticeStep, TxNotified, TxLookupFailed, TxRemoved, StoreMove
  <1>5. CASE CheckStep
    <2>1. ASSUME NEW c \in Checkers, CheckDone(c) PROVE StoreMove
      <3> DEFINE k == check[c]
                 T == IF k.thaw THEN {k.pair[id] : id \in DOMAIN k.pair \cap k.seen}
                      ELSE {}
      <3>1. DOMAIN k.pair \ k.seen \in SUBSET Ids /\ T \in SUBSET Ids
        BY DEF CheckState
      <3>2. Update(DOMAIN k.pair \ k.seen, {}, T)
        BY <2>1 DEF CheckDone
      <3> QED
        BY <3>1, <3>2 DEF StoreMove
    <2> QED
      BY <1>5, <2>1
         DEF CheckStep, updateAllOutpoints, CheckFailed, CheckAnswered, StoreMove
  <1>6. CASE PaymentStep
    <2>1. ASSUME NEW b \in Payments, BroadcastReplied(b) PROVE StoreMove
      BY <2>1 DEF BroadcastReplied, StoreMove
    <2>2. ASSUME NEW b \in Sends, constructTransaction(b) PROVE StoreMove
      BY <2>2 DEF constructTransaction, StoreMove, StoreTypeOK
    <2> QED
      BY <1>6, <2>1, <2>2
         DEF PaymentStep, checkAndFixUtxos, SendAbandoned, forwardUTXOsToPubkey,
             fixUtxos, BroadcastAccepted, StoreMove
  <1> QED
    BY <1>1, <1>2, <1>3, <1>4, <1>5, <1>6 DEF Next

\* Tombstones are only added, the ids they name stay out of the map, and the
\* balance keeps counting what is stored.
LEMMA StoreMoveKeeps ==
    ASSUME TypeOK, StoreMove, TombstonesHold, ShownCoversCache
    PROVE  /\ deleted \subseteq deleted'
           /\ TombstonesHold'
           /\ ShownCoversCache'
  BY DEF StoreMove, storeVars, Update, Accepted, Freeze, Flush, TombstonesHold,
         ShownCoversCache

-----------------------------------------------------------------------------
(* The chain only grows: what an accepted transaction spends and pays is   *)
(* fixed, and a dropped transaction stays dropped.                         *)

ChainGrows ==
    \A t \in TxIds :
        /\ ins[t] \subseteq ins'[t]
        /\ status[t] # "unknown" => /\ status'[t] # "unknown"
                                    /\ ins'[t] = ins[t]
                                    /\ outs'[t] = outs[t]
        /\ status[t] = "dropped" => status'[t] = "dropped"

\* A transaction the network accepts only adds to what was created and spent.
LEMMA AcceptGrows ==
    ASSUME ChainTypeOK, ChainInv, NEW t \in TxIds, NEW I, NEW O, Accept(t, I, O)
    PROVE  ChainGrows /\ ChainInv'
  <1>1. /\ status' = [status EXCEPT ![t] = "live"]
        /\ ins' = [ins EXCEPT ![t] = I]
        /\ outs' = [outs EXCEPT ![t] = O]
        /\ status[t] = "unknown"
    BY DEF Accept
  <1>2. \A id \in I : id[1] # t
    BY DEF Accept, Unspent, Created
  <1>3. ins[t] = {}
    BY <1>1 DEF ChainInv
  <1>4. ChainGrows
    BY <1>1, <1>3 DEF ChainGrows, ChainTypeOK
  <1>5. ChainInv'
    BY <1>1, <1>2 DEF ChainInv, ChainTypeOK
  <1> QED
    BY <1>4, <1>5

\* No step undoes a transaction, but for one that was dropped.
LEMMA ChainSteps ==
    ASSUME TypeOK, ChainInv, [Next]_vars
    PROVE  ChainGrows /\ ChainInv'
  <1>1. ASSUME UNCHANGED chainVars PROVE ChainGrows /\ ChainInv'
    BY <1>1 DEF chainVars, ChainGrows, ChainInv
  <1>2. ASSUME NEW t \in TxIds, Elsewhere(t) PROVE ChainGrows /\ ChainInv'
    BY <1>2, AcceptGrows DEF Elsewhere, TypeOK
  <1>3. ASSUME NEW t \in TxIds, Reorganise(t) PROVE ChainGrows /\ ChainInv'
    BY <1>3 DEF Reorganise, Drop, ChainGrows, ChainInv, TypeOK, ChainTypeOK
  <1>4. ASSUME NEW b, NEW t \in TxIds, BroadcastAccepted(b, t)
        PROVE  ChainGrows /\ ChainInv'
    BY <1>4, AcceptGrows DEF BroadcastAccepted, TypeOK
  <1>5. CASE ChainStep
    BY <1>5, <1>2, <1>3 DEF ChainStep
  <1>6. CASE StartStep
    BY <1>6, <1>1 DEF StartStep, newWallet, Restart, startListeners
  <1>7. CASE RefreshStep
    BY <1>7, <1>1 DEF RefreshStep, pollingTick, AddressAnswered, AddressFailed,
                      refreshUTXOsByAddr
  <1>8. CASE NoticeStep
    BY <1>8, <1>1 DEF NoticeStep, TxNotified, updateUTXOsFromTxid, TxLookupFailed,
                      TxRemoved, putStampUtxo, WriteReachesDisk
  <1>9. CASE CheckStep
    BY <1>9, <1>1 DEF CheckStep, updateAllOutpoints, CheckFailed, CheckDone,
                      CheckAnswered
  <1>10. CASE PaymentStep
    BY <1>10, <1>1, <1>4
       DEF PaymentStep, constructTransaction, checkAndFixUtxos, SendAbandoned,
           forwardUTXOsToPubkey, BroadcastReplied, fixUtxos
  <1>11. CASE UNCHANGED vars
    BY <1>11, <1>1 DEF vars
  <1> QED
    BY <1>5, <1>6, <1>7, <1>8, <1>9, <1>10, <1>11 DEF Next

-----------------------------------------------------------------------------
(* Payments and notifications: which steps finish one.                     *)

\* A payment is done only after its reply, which deletes its inputs; until the
\* wallet restarts its inputs are fixed.
LEMMA DoneSteps ==
    ASSUME TypeOK, [Next]_vars, ~Restart, NEW b \in Payments, phase'[b] = "done"
    PROVE  \/ phase[b] = "done" /\ held'[b] = held[b]
           \/ BroadcastReplied(b) /\ held'[b] = held[b]
  <1> USE DEF TypeOK
  <1>1. CASE ChainStep
    BY <1>1 DEF ChainStep, Elsewhere, Reorganise, walletVars
  <1>2. CASE StartStep
    BY <1>2 DEF StartStep, newWallet, startListeners
  <1>3. CASE RefreshStep
    BY <1>3 DEF RefreshStep, pollingTick, AddressAnswered, AddressFailed,
                refreshUTXOsByAddr
  <1>4. CASE NoticeStep
    BY <1>4 DEF NoticeStep, TxNotified, updateUTXOsFromTxid, TxLookupFailed,
                TxRemoved, putStampUtxo, WriteReachesDisk, walletVars
  <1>5. CASE CheckStep
    BY <1>5 DEF CheckStep, updateAllOutpoints, CheckFailed, CheckDone,
                CheckAnswered, AfterCheck
  <1>6. CASE PaymentStep
    BY <1>6 DEF PaymentStep, constructTransaction, checkAndFixUtxos, SendAbandoned,
           forwardUTXOsToPubkey, BroadcastReplied, fixUtxos, BroadcastAccepted,
           Payments
  <1>7. CASE UNCHANGED vars
    BY <1>7 DEF vars, walletVars
  <1> QED
    BY <1>1, <1>2, <1>3, <1>4, <1>5, <1>6, <1>7 DEF Next

\* A transaction is processed only by updateUTXOsFromTxid.
LEMMA HandledSteps ==
    ASSUME TypeOK, [Next]_vars, ~Restart, NEW t \in handled'
    PROVE  \/ TxNotified(t) /\ t \in handling'
           \/ t \in handled /\ (t \notin handling' =>
                                   t \notin handling \/ updateUTXOsFromTxid(t))
  <1> USE DEF TypeOK
  <1>1. CASE ChainStep
    BY <1>1 DEF ChainStep, Elsewhere, Reorganise, walletVars
  <1>2. CASE StartStep
    BY <1>2 DEF StartStep, newWallet, startListeners
  <1>3. CASE RefreshStep
    BY <1>3 DEF RefreshStep, pollingTick, AddressAnswered, AddressFailed,
                refreshUTXOsByAddr
  <1>4. CASE NoticeStep
    <2>1. ASSUME NEW u \in TxIds, TxNotified(u) PROVE t = u \/ t \in handled
      BY <2>1 DEF TxNotified
    <2> QED
      BY <1>4, <2>1 DEF NoticeStep, TxNotified, updateUTXOsFromTxid, TxLookupFailed,
                TxRemoved, putStampUtxo, WriteReachesDisk, walletVars
  <1>5. CASE CheckStep
    BY <1>5 DEF CheckStep, updateAllOutpoints, CheckFailed, CheckDone,
                CheckAnswered
  <1>6. CASE PaymentStep
    BY <1>6 DEF PaymentStep, constructTransaction, checkAndFixUtxos, SendAbandoned,
           forwardUTXOsToPubkey, BroadcastReplied, fixUtxos, BroadcastAccepted
  <1>7. CASE UNCHANGED vars
    BY <1>7 DEF vars, walletVars
  <1> QED
    BY <1>1, <1>2, <1>3, <1>4, <1>5, <1>6, <1>7 DEF Next

\* Before the wallet has a key only the chain changes.
LEMMA SetupSteps ==
    ASSUME TypeOK, SetupEmpty, [Next]_vars
    PROVE  SetupEmpty'
  <1>1. CASE boot # "setup"
    <2>1. boot' # "setup"
      BY <1>1 DEF Next, ChainStep, Elsewhere, Reorganise, StartStep, newWallet,
         Restart, startListeners, RefreshStep, pollingTick, AddressAnswered,
         AddressFailed, refreshUTXOsByAddr, NoticeStep, TxNotified,
         updateUTXOsFromTxid, TxLookupFailed, TxRemoved, putStampUtxo,
         WriteReachesDisk, CheckStep, updateAllOutpoints, CheckFailed, CheckDone,
         CheckAnswered, PaymentStep, constructTransaction, checkAndFixUtxos,
         SendAbandoned, forwardUTXOsToPubkey, BroadcastReplied, fixUtxos,
         BroadcastAccepted, vars, walletVars
    <2> QED
      BY <2>1 DEF SetupEmpty
  <1>2. CASE boot = "setup"
    <2>1. CASE ChainStep
      BY <2>1 DEF ChainStep, Elsewhere, Reorganise, storeVars, walletVars, SetupEmpty
    <2>2. CASE StartStep
      BY <2>2, <1>2 DEF StartStep, newWallet, Restart, startListeners, SetupEmpty
    <2>3. ~RefreshStep
      BY <1>2 DEF RefreshStep, pollingTick, AddressAnswered, AddressFailed, SetupEmpty
    <2>4. CASE NoticeStep
      BY <1>2, <2>4 DEF NoticeStep, TxNotified, updateUTXOsFromTxid, TxLookupFailed,
           TxRemoved, putStampUtxo, WriteReachesDisk, Flush, walletVars, SetupEmpty
    <2>5. ~CheckStep
      BY <1>2 DEF CheckStep, updateAllOutpoints, CheckFailed, CheckDone, Answered,
           CheckAnswered, SetupEmpty, Checkers
    <2>6. ~PaymentStep
      BY <1>2 DEF PaymentStep, constructTransaction, checkAndFixUtxos, SendAbandoned,
           forwardUTXOsToPubkey, BroadcastReplied, fixUtxos, BroadcastAccepted,
           SetupEmpty, Payments
    <2>7. CASE UNCHANGED vars
      BY <2>7 DEF vars, walletVars, storeVars, SetupEmpty
    <2> QED
      BY <2>1, <2>2, <2>3, <2>4, <2>5, <2>6, <2>7 DEF Next
  <1> QED
    BY <1>1, <1>2

\* The inductive step of StoreInv.  Inside a process tombstones only grow; the
\* two steps that clear them, newWallet and Restart, also forget the payments
\* and the processed transactions that rely on them.
LEMMA StoreInvStep ==
    ASSUME StoreInv, TypeOK', [Next]_vars
    PROVE  StoreInv'
  <1> USE DEF StoreInv
  <1>1. ChainGrows /\ ChainInv'
    BY ChainSteps
  <1>2. SetupEmpty'
    BY SetupSteps
  <1>3. CASE newWallet
    <2>1. TombstonesHold' /\ ShownCoversCache'
      BY <1>3 DEF newWallet, Clear, TombstonesHold, ShownCoversCache
    <2>2. CommittedDeleted' /\ HandledDeleted'
      BY <1>3 DEF newWallet, SetupEmpty, CommittedDeleted, HandledDeleted
    <2> QED
      BY <1>1, <1>2, <2>1, <2>2
  <1>4. CASE Restart
    <2>1. TombstonesHold' /\ ShownCoversCache'
      BY <1>4 DEF Restart, Reload, TombstonesHold, ShownCoversCache
    <2>2. CommittedDeleted' /\ HandledDeleted'
      BY <1>4 DEF Restart, CommittedDeleted, HandledDeleted
    <2> QED
      BY <1>1, <1>2, <2>1, <2>2
  <1>5. CASE ~newWallet /\ ~Restart
    <2>1. StoreMove
      BY <1>5, StoreSteps DEF vars, StoreMove
    <2>2. deleted \subseteq deleted' /\ TombstonesHold' /\ ShownCoversCache'
      BY <2>1, StoreMoveKeeps
    <2>3. CommittedDeleted'
      <3> SUFFICES ASSUME NEW b \in Payments, phase'[b] = "done"
                   PROVE  held'[b] \subseteq deleted'
        BY DEF CommittedDeleted
      <3>1. CASE phase[b] = "done" /\ held'[b] = held[b]
        BY <3>1, <2>2 DEF CommittedDeleted
      <3>2. CASE BroadcastReplied(b) /\ held'[b] = held[b]
        BY <3>2 DEF BroadcastReplied, Update
      <3> QED
        BY <1>5, <3>1, <3>2, DoneSteps
    <2>4. HandledDeleted'
      <3> SUFFICES ASSUME NEW t \in handled'
                   PROVE  /\ status'[t] # "unknown"
                          /\ t \notin handling' => HDOnly(ins'[t]) \subseteq deleted'
        BY DEF HandledDeleted, HDOnly
      <3>1. t \in TxIds
        BY DEF TypeOK
      <3>2. CASE TxNotified(t) /\ t \in handling'
        BY <3>1, <3>2, <1>1 DEF TxNotified, ChainGrows
      <3>3. CASE t \in handled /\ (t \notin handling' =>
                                      t \notin handling \/ updateUTXOsFromTxid(t))
        <4>1. status'[t] # "unknown" /\ ins'[t] = ins[t]
          BY <3>1, <3>3, <1>1 DEF HandledDeleted, ChainGrows
        <4>2. t \notin handling => HDOnly(ins[t]) \subseteq deleted'
          BY <3>3, <2>2 DEF HandledDeleted
        <4>3. updateUTXOsFromTxid(t) => HDOnly(ins[t]) \subseteq deleted'
          BY DEF updateUTXOsFromTxid, Update
        <4> QED
          BY <3>3, <4>1, <4>2, <4>3
      <3> QED
        BY <1>5, <3>2, <3>3, HandledSteps
    <2> QED
      BY <1>1, <1>2, <2>2, <2>3, <2>4
  <1> QED
    BY <1>3, <1>4, <1>5

\* The inductive invariant of the wallet's store, for every step of Next.
THEOREM StoreInvariant == Spec => []StoreInv
  <1>1. Init => StoreInv
    <2> SUFFICES ASSUME Init PROVE StoreInv
      OBVIOUS
    <2>1. TypeOK
      BY InitTypeOK
    <2>2. ChainInv /\ TombstonesHold /\ ShownCoversCache
      BY DEF Init, ChainInit, StoreInit, ChainInv, TombstonesHold, ShownCoversCache
    <2>3. SetupEmpty /\ CommittedDeleted /\ HandledDeleted
      BY DEF Init, StoreInit, SetupEmpty, CommittedDeleted, HandledDeleted, NoCheck
    <2> QED
      BY <2>1, <2>2, <2>3 DEF StoreInv
  <1>2. StoreInv /\ TypeOK' /\ [Next]_vars => StoreInv'
    BY StoreInvStep
  <1> QED
    BY <1>1, <1>2, TypeCorrect, PTL DEF Spec

\* The wallet's own spends stay gone (BroadcastReplied against every answer
\* and notification that is still under way).
THEOREM CommittedInputsTheorem == Spec => []CommittedInputsStayGone
  <1>1. StoreInv => CommittedInputsStayGone
    BY DEF StoreInv, TombstonesHold, CommittedDeleted, CommittedInputsStayGone
  <1> QED
    BY <1>1, StoreInvariant, PTL

\* The coins spent by processed transactions stay gone, in whatever order the
\* transactions are notified and looked up.
THEOREM HandledSpendsTheorem == Spec => []HandledSpendsStayGone
  <1>1. StoreInv => HandledSpendsStayGone
    BY DEF StoreInv, TombstonesHold, HandledDeleted, HandledSpendsStayGone
  <1> QED
    BY <1>1, StoreInvariant, PTL

\* The balance of the GUI never leaves out a stored coin.
THEOREM ShownTheorem == Spec => []ShownCoversCache
  <1>1. StoreInv => ShownCoversCache
    BY DEF StoreInv
  <1> QED
    BY <1>1, StoreInvariant, PTL

-----------------------------------------------------------------------------
(* Frozen coins.                                                           *)

\* The coins put by a refresh were not stored, so none of them was frozen.
LEMMA RefreshPutsNew ==
    ASSUME FrozenInv, NEW snap \in snaps
    PROVE  RefreshPuts(snap[2], {id \in cache : AddrOf(id) = snap[1]}) \cap frozen = {}
  BY DEF FrozenInv, RefreshPuts

\* Every step keeps the frozen coins among the stored ones.
LEMMA FrozenStep ==
    ASSUME TypeOK, ChainInv, FrozenInv, [Next]_vars
    PROVE  FrozenInv'
  <1>1. (frozen \subseteq cache)'
    <2>1. CASE newWallet \/ Restart
      BY <2>1 DEF newWallet, Clear, Restart, Reload
    <2>2. CASE StoreMove
      BY <2>2 DEF StoreMove, storeVars, Update, Accepted, Freeze, Flush, FrozenInv
    <2> QED
      BY <2>1, <2>2, StoreSteps DEF vars, StoreMove
  <1>2. ASSUME NEW snap \in snaps' PROVE \A id \in snap[2] : AddrOf(id) = snap[1]
    <2>1. snap \in snaps \/ \E a \in HDAddrs : snap = <<a, UnspentAt(a)>>
      BY <1>2 DEF Next, ChainStep, Elsewhere, Reorganise, StartStep, newWallet, Restart,
         startListeners, RefreshStep, pollingTick, AddressAnswered, AddressFailed,
         refreshUTXOsByAddr, NoticeStep, TxNotified, updateUTXOsFromTxid,
         TxLookupFailed, TxRemoved, putStampUtxo, WriteReachesDisk, CheckStep,
         updateAllOutpoints, CheckFailed, CheckDone, CheckAnswered, PaymentStep,
         constructTransaction, checkAndFixUtxos, SendAbandoned, forwardUTXOsToPubkey,
         BroadcastReplied, fixUtxos, BroadcastAccepted, vars, walletVars
    <2> QED
      BY <2>1 DEF FrozenInv, UnspentAt
  <1> QED
    BY <1>1, <1>2 DEF FrozenInv

\* Only stored coins are frozen, whatever the refreshes, checks and payments do.
THEOREM FrozenInvariant == Spec => []FrozenInv
  <1>1. Init => FrozenInv
    BY DEF Init, StoreInit, FrozenInv
  <1>2. TypeOK /\ ChainInv /\ FrozenInv /\ [Next]_vars => FrozenInv'
    BY FrozenStep
  <1>3. StoreInv => TypeOK /\ ChainInv
    BY DEF StoreInv
  <1> QED
    BY <1>1, <1>2, <1>3, StoreInvariant, PTL DEF Spec

\* The steps that may unfreeze a coin and keep it.
LEMMA ThawSteps ==
    ASSUME TypeOK, ChainInv, FrozenInv, [Next]_vars,
           NEW id \in frozen, id \in cache', id \notin frozen'
    PROVE  \/ newWallet \/ Restart
           \/ id[1] \in handling \ handling'
           \/ \E c \in Checkers : check[c].on /\ ~check'[c].on
           \/ AddrOf(id) \notin HDAddrs /\ UNCHANGED walletVars
  <1> USE DEF TypeOK
  <1>1. ASSUME NEW snap \in snaps, refreshUTXOsByAddr(snap) PROVE FALSE
    <2> DEFINE found == {k \in cache : AddrOf(k) = snap[1]}
               put == RefreshPuts(snap[2], found)
    <2>1. PICK D : Update(D, put, {})
      BY <1>1 DEF refreshUTXOsByAddr
    <2>2. put \cap frozen = {}
      BY RefreshPutsNew
    <2> QED
      BY <2>1, <2>2 DEF Update, Accepted
  <1>2. ASSUME NEW t \in TxIds, updateUTXOsFromTxid(t) PROVE id[1] \in handling \ handling'
    <2>1. id \in HDOnly(OutputsOf(t))
      BY <1>2 DEF updateUTXOsFromTxid, Update, Accepted
    <2>2. id[1] = t
      BY <2>1 DEF HDOnly, OutputsOf
    <2> QED
      BY <1>2, <2>2 DEF updateUTXOsFromTxid
  <1>3. ASSUME NEW k \in Ids, putStampUtxo(k)
        PROVE  AddrOf(id) \notin HDAddrs /\ UNCHANGED walletVars
    BY <1>3 DEF putStampUtxo, Update, Accepted
  <1>4. ASSUME NEW k \in Ids, WriteReachesDisk(k) PROVE FALSE
    BY <1>4 DEF WriteReachesDisk, Flush
  <1>5. ASSUME NEW c \in Checkers, CheckDone(c) PROVE check[c].on /\ ~check'[c].on
    <2>1. check[c].on /\ check' = [check EXCEPT ![c] = NoCheck]
      BY <1>5 DEF CheckDone, Answered
    <2>2. check'[c] = NoCheck
      BY <2>1
    <2> QED
      BY <2>1, <2>2 DEF NoCheck
  <1>6. ASSUME NEW b \in Payments, BroadcastReplied(b) PROVE FALSE
    BY <1>6 DEF BroadcastReplied, Update, Accepted, FrozenInv
  <1>7. ASSUME NEW b \in Sends, constructTransaction(b) PROVE FALSE
    BY <1>7 DEF constructTransaction, Freeze
  <1> DEFINE quiet ==
        \/ ChainStep \/ (\E opens \in BOOLEAN : startListeners(opens)) \/ pollingTick
        \/ (\E a \in HDAddrs : AddressAnswered(a) \/ AddressFailed(a))
        \/ (\E t \in TxIds : TxNotified(t) \/ TxLookupFailed(t) \/ TxRemoved(t))
        \/ (\E c \in Sweeps : updateAllOutpoints(c))
        \/ (\E c \in Checkers : CheckFailed(c) \/ \E a \in Addrs : CheckAnswered(c, a))
        \/ (\E b \in Sends : checkAndFixUtxos(b) \/ SendAbandoned(b))
        \/ (\E b \in Forwards : forwardUTXOsToPubkey(b))
        \/ (\E b \in Payments : fixUtxos(b) \/ \E t \in TxIds : BroadcastAccepted(b, t))
        \/ UNCHANGED vars
  <1>8. ASSUME quiet PROVE FALSE
    <2>1. frozen' = frozen
      BY <1>8 DEF ChainStep, Elsewhere, Reorganise, startListeners, pollingTick,
         AddressAnswered, AddressFailed, TxNotified, TxLookupFailed, TxRemoved,
         updateAllOutpoints, CheckFailed, CheckAnswered, checkAndFixUtxos, SendAbandoned,
         forwardUTXOsToPubkey, fixUtxos, BroadcastAccepted, vars, storeVars
    <2> QED
      BY <2>1
  <1> QED
    BY <1>1, <1>2, <1>3, <1>4, <1>5, <1>6, <1>7, <1>8
       DEF Next, StartStep, RefreshStep, NoticeStep, CheckStep, PaymentStep

\* An address refresh that was asked for before a send froze its coins does not
\* make them available to another payment, nor does any other step but an
\* outpoint check, a first notification or the arrival of a stamp.
THEOREM HeldThawedTheorem == Spec => HeldThawedOnlyByCheckOrNotice
  <1> DEFINE Kept ==
        \A b \in Sends : Holding(b) /\ Holding(b)' =>
            \A id \in held[b] \cap frozen \cap (cache' \ frozen') :
                \/ id[1] \in handling \ handling'
                \/ \E c \in Checkers : check[c].on /\ ~check'[c].on
                \/ AddrOf(id) \notin HDAddrs /\ UNCHANGED walletVars
  <1>1. StoreInv /\ FrozenInv /\ [Next]_vars => [Kept]_vars
    <2> SUFFICES ASSUME StoreInv, FrozenInv, [Next]_vars, NEW b \in Sends,
                        Holding(b), Holding(b)',
                        NEW id \in held[b], id \in frozen, id \in cache', id \notin frozen'
                 PROVE  \/ id[1] \in handling \ handling'
                        \/ \E c \in Checkers : check[c].on /\ ~check'[c].on
                        \/ AddrOf(id) \notin HDAddrs /\ UNCHANGED walletVars
      OBVIOUS
    <2>1. b \in Payments
      BY DEF Payments
    <2>2. ~newWallet
      BY <2>1 DEF newWallet, StoreInv, SetupEmpty, Holding
    <2>3. ~Restart
      BY <2>1 DEF Restart, Holding
    <2> QED
      BY <2>2, <2>3, ThawSteps DEF StoreInv
  <1> QED
    BY <1>1, StoreInvariant, FrozenInvariant, PTL DEF Spec, HeldThawedOnlyByCheckOrNotice

-----------------------------------------------------------------------------
(* Outpoint checks.                                                        *)

\* What was created stays created and what is gone stays gone.
LEMMA CoinsGrow ==
    ASSUME ChainTypeOK, ChainGrows
    PROVE  /\ EverCreated \subseteq EverCreated'
           /\ \A id \in Ids : Gone(id) => Gone(id)'
  <1>1. EverCreated \subseteq EverCreated'
    BY IdsParts DEF EverCreated, ChainGrows
  <1>2. ASSUME NEW id \in Ids, Gone(id) PROVE Gone(id)'
    BY <1>2, IdsParts DEF Gone, ChainGrows
  <1> QED
    BY <1>1, <1>2

\* A coin that was created and is not gone is in the answer for its address.
LEMMA AnswerComplete ==
    ASSUME ChainTypeOK, NEW id \in EverCreated, ~Gone(id)
    PROVE  id \in UnspentAt(AddrOf(id))
  <1>1. id \in Ids /\ id[1] \in TxIds
    BY IdsParts DEF EverCreated
  <1>2. status[id[1]] = "live"
    BY <1>1 DEF EverCreated, Gone, ChainTypeOK
  <1>3. id \in Created /\ id \notin Spent
    BY <1>1, <1>2 DEF EverCreated, Created, Spent, Gone
  <1> QED
    BY <1>3 DEF UnspentAt, Unspent

\* What Chronik lists, and what a lookup returns, was created.
LEMMA UnspentCreated ==
    /\ Created \subseteq EverCreated
    /\ \A a : UnspentAt(a) \subseteq EverCreated
    /\ \A t \in TxIds : status[t] # "unknown" =>
          \A id \in OutputsOf(t) \cap Ids : id \in EverCreated
  BY DEF Created, EverCreated, UnspentAt, Unspent, OutputsOf

\* The coins of the store come from its own records and from what is put.
LEMMA UpdateKnown ==
    ASSUME NEW E, cache \subseteq E, disk \subseteq E,
           NEW D, NEW P, NEW T, P \subseteq E, Update(D, P, T)
    PROVE  cache' \subseteq E /\ disk' \subseteq E
  BY DEF Update, Accepted

\* No step makes the wallet learn of a coin that nobody created.
LEMMA KnownSteps ==
    ASSUME CheckInv, [Next]_vars
    PROVE  /\ cache' \subseteq EverCreated
           /\ disk' \subseteq EverCreated
           /\ \A snap \in snaps' : snap[2] \subseteq EverCreated
           /\ \A b \in Payments : held'[b] \subseteq EverCreated
           /\ \A c \in Checkers : DOMAIN check'[c].pair \subseteq EverCreated
  <1> DEFINE G == /\ cache' \subseteq EverCreated
                  /\ disk' \subseteq EverCreated
                  /\ \A snap \in snaps' : snap[2] \subseteq EverCreated
                  /\ \A b \in Payments : held'[b] \subseteq EverCreated
                  /\ \A c \in Checkers : DOMAIN check'[c].pair \subseteq EverCreated
  <1> SUFFICES G
    OBVIOUS
  <1> USE DEF CheckInv, KnownCoins, TypeOK
  <1>1. CASE ChainStep
    BY <1>1 DEF ChainStep, Elsewhere, Reorganise, storeVars, walletVars
  <1>2. CASE StartStep
    <2>1. CASE newWallet
      BY <2>1 DEF newWallet, Clear
    <2>2. CASE Restart
      BY <2>2 DEF Restart, Reload, NoCheck
    <2>3. ASSUME NEW opens, startListeners(opens) PROVE G
      BY <2>3 DEF startListeners, storeVars
    <2> QED
      BY <1>2, <2>1, <2>2, <2>3 DEF StartStep
  <1>3. CASE RefreshStep
    <2>1. CASE pollingTick
      BY <2>1 DEF pollingTick, storeVars
    <2>2. ASSUME NEW a, AddressAnswered(a) \/ AddressFailed(a) PROVE G
      BY <2>2, UnspentCreated DEF AddressAnswered, AddressFailed, storeVars
    <2>3. ASSUME NEW snap \in snaps, refreshUTXOsByAddr(snap) PROVE G
      <3> DEFINE found == {id \in cache : AddrOf(id) = snap[1]}
      <3>1. PICK stored, ids :
              Update(RefreshDeletes(stored, ids), RefreshPuts(snap[2], found), {})
        BY <2>3 DEF refreshUTXOsByAddr
      <3>2. RefreshPuts(snap[2], found) \subseteq EverCreated
        BY DEF RefreshPuts
      <3>3. cache' \subseteq EverCreated /\ disk' \subseteq EverCreated
        BY <3>1, <3>2, UpdateKnown
      <3> QED
        BY <2>3, <3>3 DEF refreshUTXOsByAddr
    <2> QED
      BY <1>3, <2>1, <2>2, <2>3 DEF RefreshStep
  <1>4. CASE NoticeStep
    <2>1. ASSUME NEW t \in TxIds, updateUTXOsFromTxid(t) PROVE G
      <3>1. HDOnly(OutputsOf(t)) \subseteq EverCreated
        BY <2>1, UnspentCreated, OutputsType DEF updateUTXOsFromTxid, HDOnly
      <3>2. cache' \subseteq EverCreated /\ disk' \subseteq EverCreated
        BY <2>1, <3>1, UpdateKnown DEF updateUTXOsFromTxid
      <3> QED
        BY <2>1, <3>2 DEF updateUTXOsFromTxid
    <2>2. ASSUME NEW id \in Ids, putStampUtxo(id) PROVE G
      <3>1. cache' \subseteq EverCreated /\ disk' \subseteq EverCreated
        BY <2>2, UpdateKnown, UnspentCreated DEF putStampUtxo
      <3> QED
        BY <2>2, <3>1 DEF putStampUtxo, walletVars
    <2>3. ASSUME NEW id \in Ids, WriteReachesDisk(id) PROVE G
      BY <2>3 DEF WriteReachesDisk, Flush, walletVars
    <2>4. ASSUME NEW t, TxNotified(t) \/ TxLookupFailed(t) \/ TxRemoved(t) PROVE G
      BY <2>4 DEF TxNotified, TxLookupFailed, TxRemoved, storeVars
    <2> QED
      BY <1>4, <2>1, <2>2, <2>3, <2>4 DEF NoticeStep
  <1>5. CASE CheckStep
    <2>1. ASSUME NEW c \in Sweeps, updateAllOutpoints(c) PROVE G
      BY <2>1 DEF updateAllOutpoints, StartCheck, storeVars, Checkers
    <2>2. ASSUME NEW c \in Checkers, CheckFailed(c) PROVE G
      BY <2>2 DEF CheckFailed, storeVars, NoCheck
    <2>3. ASSUME NEW c \in Checkers, CheckDone(c) PROVE G
      <3>1. cache' \subseteq EverCreated /\ disk' \subseteq EverCreated
        BY <2>3, UpdateKnown DEF CheckDone
      <3>2. \A k \in Checkers : DOMAIN check'[k].pair \subseteq EverCreated
        BY <2>3 DEF CheckDone, NoCheck
      <3> QED
        BY <2>3, <3>1, <3>2 DEF CheckDone
    <2>4. ASSUME NEW c \in Checkers, NEW a, CheckAnswered(c, a) PROVE G
      BY <2>4 DEF CheckAnswered, storeVars, CheckState
    <2> QED
      BY <1>5, <2>1, <2>2, <2>3, <2>4 DEF CheckStep
  <1>6. CASE PaymentStep
    <2>1. ASSUME NEW b \in Sends, constructTransaction(b) PROVE G
      BY <2>1 DEF constructTransaction, Freeze, Payments
    <2>2. ASSUME NEW b \in Sends, checkAndFixUtxos(b) PROVE G
      BY <2>2 DEF checkAndFixUtxos, StartCheck, storeVars, Payments, Checkers
    <2>3. ASSUME NEW b \in Sends, SendAbandoned(b) PROVE G
      BY <2>3 DEF SendAbandoned, storeVars
    <2>4. ASSUME NEW b \in Forwards, forwardUTXOsToPubkey(b) PROVE G
      BY <2>4, UnspentCreated DEF forwardUTXOsToPubkey, storeVars, Payments
    <2>5. ASSUME NEW b \in Payments, BroadcastReplied(b) PROVE G
      <3>1. cache' \subseteq EverCreated /\ disk' \subseteq EverCreated
        BY <2>5, UpdateKnown DEF BroadcastReplied
      <3> QED
        BY <2>5, <3>1 DEF BroadcastReplied
    <2>6. ASSUME NEW b \in Payments, fixUtxos(b) PROVE G
      <3>1. PICK ids \in Orders(held[b]) : StartCheck(b, TRUE, fixPairs(ids))
        BY <2>6 DEF fixUtxos
      <3>2. DOMAIN fixPairs(ids) \subseteq EverCreated
        BY DEF fixPairs
      <3>3. \A k \in Checkers : DOMAIN check'[k].pair \subseteq EverCreated
        BY <3>1, <3>2 DEF StartCheck, Checkers
      <3> QED
        BY <2>6, <3>3 DEF fixUtxos, storeVars
    <2>7. ASSUME NEW b \in Payments, NEW t \in TxIds, BroadcastAccepted(b, t) PROVE G
      BY <2>7 DEF BroadcastAccepted, storeVars
    <2> QED
      BY <1>6, <2>1, <2>2, <2>3, <2>4, <2>5, <2>6, <2>7 DEF PaymentStep
  <1>7. CASE UNCHANGED vars
    BY <1>7 DEF vars, storeVars, walletVars
  <1> QED
    BY <1>1, <1>2, <1>3, <1>4, <1>5, <1>6, <1>7 DEF Next

\* What a step does to one check.
CheckMove(c) ==
    \/ check'[c] = check[c]
    \/ DOMAIN check'[c].pair = {}
    \/ check'[c].left = {AddrOf(id) : id \in DOMAIN check'[c].pair}
    \/ \E a \in Addrs : /\ check'[c].pair = check[c].pair
                         /\ check'[c].left = check[c].left \ {a}
                         /\ check'[c].seen = check[c].seen \cup UnspentAt(a)

\* An outpoint check starts, hears from one address, ends or stays.
LEMMA CheckSteps ==
    ASSUME TypeOK, [Next]_vars, NEW c \in Checkers
    PROVE  CheckMove(c)
  <1> USE DEF TypeOK
  <1>1. ASSUME UNCHANGED check PROVE CheckMove(c)
    BY <1>1 DEF CheckMove
  <1>2. ASSUME NEW d \in Checkers, check' = [check EXCEPT ![d] = NoCheck]
        PROVE  CheckMove(c)
    BY <1>2 DEF CheckMove, NoCheck
  <1>3. ASSUME NEW d \in Checkers, NEW thaw, NEW pair, StartCheck(d, thaw, pair)
        PROVE  CheckMove(c)
    BY <1>3 DEF CheckMove, StartCheck
  <1>4. ASSUME NEW d \in Checkers, NEW a \in Addrs, CheckAnswered(d, a)
        PROVE  CheckMove(c)
    BY <1>4 DEF CheckMove, CheckAnswered, CheckState
  <1>5. CASE ChainStep
    BY <1>1, <1>5 DEF ChainStep, Elsewhere, Reorganise, walletVars
  <1>6. CASE StartStep
    <2>1. Restart => CheckMove(c)
      BY DEF Restart, CheckMove, NoCheck
    <2> QED
      BY <1>1, <1>6, <2>1 DEF StartStep, newWallet, startListeners
  <1>7. CASE RefreshStep
    BY <1>1, <1>7 DEF RefreshStep, pollingTick, AddressAnswered, AddressFailed,
                      refreshUTXOsByAddr
  <1>8. CASE NoticeStep
    BY <1>1, <1>8 DEF NoticeStep, TxNotified, updateUTXOsFromTxid, TxLookupFailed,
                      TxRemoved, putStampUtxo, WriteReachesDisk, walletVars
  <1>9. CASE CheckStep
    BY <1>2, <1>3, <1>4, <1>9
       DEF CheckStep, updateAllOutpoints, CheckFailed, CheckDone, Checkers
  <1>10. CASE PaymentStep
    <2>1. ASSUME NEW b \in Sends, checkAndFixUtxos(b) PROVE CheckMove(c)
      BY <2>1, <1>3 DEF checkAndFixUtxos, Checkers, Payments
    <2>2. ASSUME NEW b \in Payments, fixUtxos(b) PROVE CheckMove(c)
      BY <2>2, <1>3 DEF fixUtxos, Checkers
    <2> QED
      BY <1>1, <1>10, <2>1, <2>2
         DEF PaymentStep, constructTransaction, SendAbandoned, forwardUTXOsToPubkey,
             BroadcastReplied, BroadcastAccepted
  <1>11. CASE UNCHANGED vars
    BY <1>1, <1>11 DEF vars, walletVars
  <1> QED
    BY <1>5, <1>6, <1>7, <1>8, <1>9, <1>10, <1>11 DEF Next

\* The inductive invariant of the outpoint checks: a coin under check is still
\* to be asked about, known to be unspent, or gone.
THEOREM CheckInvariant == Spec => []CheckInv
  <1>1. Init => CheckInv
    <2> SUFFICES ASSUME Init PROVE CheckInv
      OBVIOUS
    <2>1. ChainInv
      BY DEF Init, ChainInit, ChainInv
    <2>2. KnownCoins /\ CheckSound
      BY DEF Init, StoreInit, KnownCoins, CheckSound, NoCheck
    <2> QED
      BY <2>1, <2>2, InitTypeOK DEF CheckInv
  <1>2. CheckInv /\ TypeOK' /\ [Next]_vars => CheckInv'
    <2> SUFFICES ASSUME CheckInv, TypeOK', [Next]_vars PROVE CheckInv'
      OBVIOUS
    <2>1. TypeOK /\ ChainTypeOK
      BY DEF CheckInv, TypeOK
    <2>2. ChainGrows /\ ChainInv'
      BY <2>1, ChainSteps DEF CheckInv
    <2>3. /\ EverCreated \subseteq EverCreated'
          /\ \A id \in Ids : Gone(id) => Gone(id)'
      BY <2>1, <2>2, CoinsGrow
    <2>4. KnownCoins'
      BY <2>3, KnownSteps DEF KnownCoins
    <2>5. CheckSound'
      <3> SUFFICES ASSUME NEW c \in Checkers, NEW id \in DOMAIN check'[c].pair
                   PROVE  \/ AddrOf(id) \in check'[c].left
                          \/ id \in check'[c].seen
                          \/ Gone(id)'
        BY DEF CheckSound
      <3>1. id \in EverCreated /\ id \in Ids
        BY KnownSteps DEF EverCreated
      <3>2. CASE check'[c] = check[c]
        BY <2>3, <3>1, <3>2 DEF CheckInv, CheckSound
      <3>3. CASE check'[c].left = {AddrOf(u) : u \in DOMAIN check'[c].pair}
        BY <3>3
      <3>4. ASSUME NEW a \in Addrs,
                   check'[c].pair = check[c].pair,
                   check'[c].left = check[c].left \ {a},
                   check'[c].seen = check[c].seen \cup UnspentAt(a)
            PROVE  \/ AddrOf(id) \in check'[c].left
                   \/ id \in check'[c].seen
                   \/ Gone(id)'
        <4>1. CASE Gone(id)
          BY <2>3, <3>1, <4>1
        <4>2. CASE ~Gone(id) /\ AddrOf(id) = a
          BY <2>1, <3>1, <3>4, <4>2, AnswerComplete
        <4>3. CASE ~Gone(id) /\ AddrOf(id) # a
          BY <3>4, <4>3 DEF CheckInv, CheckSound
        <4> QED
          BY <4>1, <4>2, <4>3
      <3> QED
        BY <2>1, <3>2, <3>3, <3>4, CheckSteps DEF CheckMove
    <2> QED
      BY <2>2, <2>4, <2>5 DEF CheckInv
  <1> QED
    BY <1>1, <1>2, TypeCorrect, PTL DEF Spec

\* checkAndFixUtxos discards a coin only if the chain spent or dropped it.
THEOREM CheckDeletesTheorem == Spec => CheckDeletesOnlyGone
  <1>1. CheckInv /\ [Next]_vars =>
          [\A c \in Checkers : CheckDone(c) =>
              \A id \in DOMAIN check[c].pair \cap (cache \ cache') : Gone(id)]_vars
    <2> SUFFICES ASSUME CheckInv, NEW c \in Checkers, CheckDone(c),
                        NEW id \in DOMAIN check[c].pair, id \notin cache', id \in cache
                 PROVE  Gone(id)
      OBVIOUS
    <2>1. id \notin check[c].seen
      BY DEF CheckDone, Update
    <2>2. check[c].left = {}
      BY DEF CheckDone, Answered
    <2> QED
      BY <2>1, <2>2 DEF CheckInv, CheckSound
  <1> QED
    BY <1>1, CheckInvariant, PTL DEF Spec, CheckDeletesOnlyGone

-----------------------------------------------------------------------------
(* The wallet implements CoinLifecycle.                                    *)

\* The refinement mapping yields states of CoinLifecycle.
LEMMA LifecycleStates == \A id : Lifecycle(id) \in L!States
  BY DEF Lifecycle, L!States

\* An operation of the store moves each coin along its life.
LEMMA StoreMoveLife ==
    ASSUME StoreMove, TombstonesHold, NEW id \in Ids
    PROVE  Lifecycle(id)' \in L!MayBecome(Lifecycle(id))
  BY DEF StoreMove, storeVars, Update, Accepted, Freeze, Flush, Lifecycle,
         TombstonesHold, L!MayBecome

\* Only Restart counts a new session.
LEMMA SessionSteps ==
    ASSUME [Next]_vars, ~Restart
    PROVE  restarts' = restarts
  BY DEF Next, ChainStep, Elsewhere, Reorganise, StartStep, newWallet,
     startListeners, RefreshStep, pollingTick, AddressAnswered, AddressFailed,
     refreshUTXOsByAddr, NoticeStep, TxNotified, updateUTXOsFromTxid,
     TxLookupFailed, TxRemoved, putStampUtxo, WriteReachesDisk, CheckStep,
     updateAllOutpoints, CheckFailed, CheckDone, CheckAnswered, PaymentStep,
     constructTransaction, checkAndFixUtxos, SendAbandoned, forwardUTXOsToPubkey,
     BroadcastReplied, fixUtxos, BroadcastAccepted, vars, walletVars

\* The wallet implements the life of a coin: with the stores mapped to
\* Lifecycle, every behaviour of the wallet is one of CoinLifecycle.
THEOREM LifecycleTheorem == Spec => LifecycleSpec
  <1> DEFINE coins == [id \in Ids |-> Lifecycle(id)]
  <1>1. Init => L!Init
    BY DEF Init, StoreInit, L!Init, Lifecycle
  <1>2. StoreInv /\ [Next]_vars => [L!Next]_<<coins, restarts>>
    <2> SUFFICES ASSUME StoreInv, [Next]_vars
                 PROVE  L!Next \/ UNCHANGED <<coins, restarts>>
      OBVIOUS
    <2>1. coins' \in [Ids -> L!States]
      BY DEF Lifecycle, L!States
    <2>2. CASE Restart
      <3>1. \A id \in Ids : Lifecycle(id)' \in {"unknown", "free"}
        BY <2>2 DEF Restart, Reload, Lifecycle
      <3>2. restarts' = restarts + 1
        BY <2>2 DEF Restart
      <3> QED
        BY <3>1, <3>2 DEF L!Next, L!NewSession
    <2>3. CASE newWallet
      <3>1. \A id \in Ids : Lifecycle(id)' = Lifecycle(id)
        BY <2>3 DEF newWallet, Clear, StoreInv, SetupEmpty, Lifecycle
      <3>2. restarts' = restarts
        BY <2>3 DEF newWallet
      <3> QED
        BY <3>1, <3>2
    <2>4. CASE ~Restart /\ ~newWallet
      <3>1. StoreMove
        BY <2>4, StoreSteps DEF StoreInv, vars, StoreMove
      <3>2. \A id \in Ids : Lifecycle(id)' \in L!MayBecome(Lifecycle(id))
        BY <3>1, StoreMoveLife DEF StoreInv
      <3>3. restarts' = restarts
        BY <2>4, SessionSteps
      <3> QED
        BY <2>1, <3>2, <3>3 DEF L!Next, L!Move
    <2> QED
      BY <2>2, <2>3, <2>4
  <1> QED
    BY <1>1, <1>2, StoreInvariant, PTL DEF Spec, LifecycleSpec, L!Spec
=============================================================================
