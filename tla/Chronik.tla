------------------------------ MODULE Chronik ------------------------------
(***************************************************************************)
(* The eCash chain as Finney sees it through a Chronik indexer.  Chronik   *)
(* is an external service: the module models what the wallet code asks of  *)
(* it (script and address UTXO queries, transaction lookup, broadcast) and *)
(* the ways its answers may change between two requests.                   *)
(***************************************************************************)
EXTENDS FiniteSets

CONSTANTS
    TxIds,      \* transaction ids
    Outs,       \* output indexes
    Addrs,      \* addresses the wallet holds keys for
    OutAddr     \* the address each output index pays

ASSUME ChronikAssumption ==
    /\ IsFiniteSet(TxIds)
    /\ IsFiniteSet(Outs)
    /\ OutAddr \in [Outs -> Addrs]

\* calcUtxoId: an outpoint is named by its transaction and its output index.
Ids == TxIds \X Outs

AddrOf(id) == OutAddr[id[2]]

VARIABLES
    status,     \* "unknown", "live" (mempool or block) or "dropped"
    ins,        \* the wallet's outpoints a transaction spends
    outs        \* the output indexes of a transaction that pay the wallet

chainVars == <<status, ins, outs>>

ChainTypeOK ==
    /\ status \in [TxIds -> {"unknown", "live", "dropped"}]
    /\ ins \in [TxIds -> SUBSET Ids]
    /\ outs \in [TxIds -> SUBSET Outs]

ChainInit ==
    /\ status = [t \in TxIds |-> "unknown"]
    /\ ins = [t \in TxIds |-> {}]
    /\ outs = [t \in TxIds |-> {}]

OutputsOf(t) == {t} \X outs[t]

Created == {id \in Ids : status[id[1]] = "live" /\ id[2] \in outs[id[1]]}

Spent == {id \in Ids : \E t \in TxIds : status[t] = "live" /\ id \in ins[t]}

Unspent == Created \ Spent

\* The answer to a UTXO query for one address.
UnspentAt(a) == {id \in Unspent : AddrOf(id) = a}

\* A transaction enters the mempool.  The node refuses a spent input.
Accept(t, I, O) ==
    /\ status[t] = "unknown"
    /\ I \subseteq Unspent
    /\ I # {} \/ O # {}
    /\ status' = [status EXCEPT ![t] = "live"]
    /\ ins' = [ins EXCEPT ![t] = I]
    /\ outs' = [outs EXCEPT ![t] = O]

\* A transaction leaves the mempool or is invalidated by a reorganisation.
\* Transactions that spend its outputs leave before it does.
Drop(t) ==
    /\ status[t] = "live"
    /\ OutputsOf(t) \cap Spent = {}
    /\ status' = [status EXCEPT ![t] = "dropped"]
    /\ UNCHANGED <<ins, outs>>
=============================================================================
