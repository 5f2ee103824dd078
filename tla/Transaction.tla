----------------------------- MODULE Transaction -----------------------------
(* The transaction object of bitcore-lib-xec (transaction.js, output.js and the
   inputs): a builder whose calls come in any order.  It caches the amounts of
   its inputs and outputs and, once it has a change address, keeps a change
   output up to date.  The wallet uses it without a change address and writes
   into its outputs itself (finalizeTransaction). *)
EXTENDS Integers, Sequences, SequencesExt, FiniteSets, Totals

CONSTANTS MaxIns, MaxOuts,   \* inputs, and outputs besides the change
          UtxoSats,          \* what an unspent output holds
          Payments,          \* what an output is given
          Fees,              \* fees and rates that are set
          MaxTxnCalls        \* calls on one transaction

ASSUME TransactionAssumption ==
    /\ {MaxIns, MaxOuts, MaxTxnCalls} \subseteq Nat
    /\ UtxoSats \cup Payments \cup Fees \subseteq Nat

DUST_AMOUNT == 546
FEE_SECURITY_MARGIN == 150
NLOCKTIME_BLOCKHEIGHT_LIMIT == 500000000
FEE_PER_KB == 100000
CHANGE_OUTPUT_MAX_SIZE == 62
MAXIMUM_EXTRA_SIZE == 26

VARIABLES txn,       \* the transaction
          readBack,  \* it was read back and its change not computed since
          accepted,  \* checkedSerialize has just returned
          called     \* how many calls were made

txnVars == <<txn, readBack, accepted, called>>

Undefined == -1

-----------------------------------------------------------------------------
(* Inputs and outputs.  Only inputs of the kinds p2pkh and p2pk can be signed;
   "other" has the output it spends, "bare" (read from bytes) has not. *)

Signable(in) == in.kind \in {"p2pkh", "p2pk"}

P2PKH_SCRIPT_MAX_SIZE == 73 + 34
P2PK_SCRIPT_MAX_SIZE == 73

\* Of another input the whole of it is taken for its script.
WholeInput(in) == 41 + (IF in.signed THEN P2PKH_SCRIPT_MAX_SIZE ELSE 0)

SigSize(in) ==
    CASE in.kind = "p2pkh" -> P2PKH_SCRIPT_MAX_SIZE
      [] in.kind = "p2pk" -> P2PK_SCRIPT_MAX_SIZE
      [] OTHER -> WholeInput(in)

ScriptSize(out) == IF out.to = "data" THEN 10 ELSE 25

Amount(s) == Total(Sats(s))

Ceil(a, b) == (a + b - 1) \div b

\* _getInputAmount, _getOutputAmount: computed once and kept.  The first throws
\* when it does not know what an input spends.
KnowsInputs(t) == \A i \in DOMAIN t.ins : t.ins[i].kind # "bare"

WithAmounts(t) ==
    IF t.inAmount = Undefined /\ ~KnowsInputs(t) THEN t
    ELSE [t EXCEPT !.inAmount = IF @ = Undefined THEN Amount(t.ins) ELSE @,
                   !.outAmount = IF @ = Undefined THEN Amount(t.outs) ELSE @]

_getUnspentValue(t) == WithAmounts(t).inAmount - WithAmounts(t).outAmount

estimateSize(t) ==
    MAXIMUM_EXTRA_SIZE
    + Total([i \in DOMAIN t.ins |-> 36 + 1 + SigSize(t.ins[i])])
    + Total([i \in DOMAIN t.outs |-> ScriptSize(t.outs[i]) + 9])

_estimateFee(t) ==
    LET perKb == IF t.feePerByte > 0 THEN 1000 * t.feePerByte
                 ELSE IF t.feePerKb > 0 THEN t.feePerKb ELSE FEE_PER_KB
        fee == Ceil(estimateSize(t) * perKb, 1000)
        feeWithChange ==
            Ceil((estimateSize(t) + CHANGE_OUTPUT_MAX_SIZE) * perKb, 1000)
    IN  IF t.changeScript = "none" \/ _getUnspentValue(t) <= feeWithChange
        THEN fee ELSE feeWithChange

getFee(t) ==
    CASE t.fee # Undefined -> t.fee
      [] t.changeScript = "none" -> _getUnspentValue(t)
      [] OTHER -> _estimateFee(t)

\* _clearSignatures stops at the first input that cannot be signed.
_clearSignatures(t) ==
    [t EXCEPT !.ins = [i \in DOMAIN @ |->
        IF \A k \in 1 .. i : Signable(@[k]) THEN [@[i] EXCEPT !.signed = FALSE]
                                            ELSE @[i]]]

_addOutput(t, out) == [t EXCEPT !.outs = Append(@, out), !.outAmount = Undefined]

\* An index beyond the outputs removes nothing.
_removeOutput(t, i) ==
    [t EXCEPT !.outs = IF i \in DOMAIN @ THEN RemoveAt(@, i) ELSE @,
              !.outAmount = Undefined]

\* _updateChangeOutput: the change output is taken away and, when there is
\* enough for one, added anew at the end.
_updateChangeOutput(t) ==
    LET clear == _clearSignatures(t)
        base == WithAmounts(IF t.changeIndex = Undefined THEN clear
                            ELSE _removeOutput(clear, t.changeIndex))
        amount == _getUnspentValue(base) - getFee(base)
    IN  IF t.changeScript = "none" THEN t
        ELSE IF \E i \in DOMAIN t.ins : ~Signable(t.ins[i]) THEN clear
        ELSE IF amount >= DUST_AMOUNT
        THEN [_addOutput(base, [to |-> t.changeScript, sats |-> amount])
                EXCEPT !.changeIndex = Len(base.outs) + 1]
        ELSE [base EXCEPT !.changeIndex = Undefined]

-----------------------------------------------------------------------------
NewTransaction ==
    [ins |-> <<>>, outs |-> <<>>, inAmount |-> Undefined, outAmount |-> Undefined,
     changeScript |-> "none", changeIndex |-> Undefined, fee |-> Undefined,
     feePerKb |-> 0, feePerByte |-> 0, nLockTime |-> 0]

TxnInit ==
    txn = NewTransaction /\ readBack = FALSE /\ accepted = FALSE /\ called = 0

\* A call that ends with the change output computed anew.
Recompute(t) ==
    /\ txn' = _updateChangeOutput(t)
    /\ readBack' = (readBack /\ t.changeScript = "none")
    /\ accepted' = FALSE

\* A call that leaves the change output alone.
Becomes(t) == txn' = t /\ accepted' = FALSE /\ UNCHANGED readBack

uncheckedAddInput(in) ==
    Recompute([txn EXCEPT !.ins = Append(@, in), !.inAmount = Undefined])

\* The class of an input follows from the script it spends.
_fromNonP2SH(id, kind, sats) ==
    uncheckedAddInput([id |-> id, kind |-> kind, sats |-> sats,
                       sequence |-> "default", signed |-> FALSE])

\* Nothing happens for an output that is spent already.
from(id, kind, sats) ==
    /\ Len(txn.ins) < MaxIns
    /\ \A i \in DOMAIN txn.ins : txn.ins[i].id # id
    /\ _fromNonP2SH(id, kind, sats)

addOutput(out) == Len(txn.outs) < MaxOuts /\ Recompute(_addOutput(txn, out))

to(sats) == addOutput([to |-> "payee", sats |-> sats])

addData == addOutput([to |-> "data", sats |-> 0])

clearOutputs ==
    /\ txn.outs # <<>>
    /\ Recompute([_clearSignatures(txn) EXCEPT
         !.outs = <<>>, !.outAmount = Undefined, !.changeIndex = Undefined])

removeOutput(i) == Recompute(_removeOutput(txn, i))

change == Recompute([txn EXCEPT !.changeScript = "change"])

fee(amount) == Recompute([txn EXCEPT !.fee = amount])
feePerKb(amount) == Recompute([txn EXCEPT !.feePerKb = amount])
feePerByte(amount) == Recompute([txn EXCEPT !.feePerByte = amount])

\* The cached amount is kept.
removeInputCached(i) == Recompute([txn EXCEPT !.ins = RemoveAt(@, i)])

removeInput(i) ==
    Recompute([txn EXCEPT !.ins = RemoveAt(@, i), !.inAmount = Undefined])

\* _newOutputOrder: the change output is found again by its content; what is
\* beyond the outputs (a call threw in between) matches the first one.
Permute(s, p) == [i \in DOMAIN s |-> s[p[i]]]
Orders(s) == Bijection(DOMAIN s, DOMAIN s)

_newOutputOrder(t, p) ==
    LET outs == Permute(t.outs, p)
        index == IF t.changeIndex = Undefined THEN Undefined
                 ELSE IF t.changeIndex \notin DOMAIN outs THEN 1
                 ELSE SelectInSeq(outs, LAMBDA o : o = t.outs[t.changeIndex])
    IN  [t EXCEPT !.outs = outs, !.changeIndex = index]

\* The order by amount and script (data before the others), else as it was.
Rank(out) == CASE out.to = "data" -> 0 [] out.to = "change" -> 1 [] OTHER -> 2
Before(s, a, b) ==
    \/ s[a].sats < s[b].sats
    \/ s[a].sats = s[b].sats /\ Rank(s[a]) < Rank(s[b])
    \/ s[a].sats = s[b].sats /\ Rank(s[a]) = Rank(s[b]) /\ a < b

sort ==
    /\ Len(txn.outs) > 1
    /\ \E q \in Orders(txn.ins), p \in Orders(txn.outs) :
         /\ \A i, k \in DOMAIN txn.ins : i < k => txn.ins[q[i]].id < txn.ins[q[k]].id
         /\ \A i, k \in DOMAIN txn.outs : i < k => Before(txn.outs, p[i], p[k])
         /\ Becomes(_newOutputOrder(
                      _clearSignatures([txn EXCEPT !.ins = Permute(@, q)]), p))

shuffleOutputs ==
    /\ Len(txn.outs) > 1
    /\ \E p \in Orders(txn.outs) : Becomes(_newOutputOrder(txn, p))

Locked(in) ==
    [in EXCEPT !.sequence = IF in.sequence = "default" THEN "locktime" ELSE in.sequence]

LockTime(t, time) ==
    [t EXCEPT !.ins = [i \in DOMAIN @ |-> Locked(@[i])], !.nLockTime = time]

\* A height and a date.
LockTimes == {100, NLOCKTIME_BLOCKHEIGHT_LIMIT + 1}

lockUntilDate(time) ==
    time >= NLOCKTIME_BLOCKHEIGHT_LIMIT /\ Becomes(LockTime(txn, time))

lockUntilBlockHeight(height) ==
    height < NLOCKTIME_BLOCKHEIGHT_LIMIT /\ Becomes(LockTime(txn, height))

applySignature(t, i) == [t EXCEPT !.ins[i].signed = TRUE]

\* The key of input i; getSignatures throws at an input that cannot be signed.
sign(i) ==
    /\ KnowsInputs(txn)
    /\ \A k \in DOMAIN txn.ins : Signable(txn.ins[k])
    /\ Becomes(applySignature(txn, i))

\* finalizeTransaction: the amounts are read, then what is left of the inputs
\* is put into an output and into the cached amount; outputs are swapped in
\* place.
sweepInto(i, properFee) ==
    /\ txn.changeScript = "none" /\ i \in 2 .. Len(txn.outs) /\ KnowsInputs(txn)
    /\ LET t == WithAmounts(txn)
           rest == _getUnspentValue(t) - properFee
       IN  /\ rest # 0 /\ t.outs[i].sats + rest >= 0
           /\ Becomes([t EXCEPT !.outs[i].sats = @ + rest, !.outAmount = @ + rest])

-----------------------------------------------------------------------------
(* Serialization. *)

_hasFeeError(t) ==
    LET unspent == _getUnspentValue(t)
        estimate == _estimateFee(t)
    IN  \/ t.fee # Undefined /\ t.fee # unspent
        \/ unspent > FEE_SECURITY_MARGIN * estimate
        \/ unspent < Ceil(estimate, FEE_SECURITY_MARGIN)

_hasDustOutputs(t) ==
    \E i \in DOMAIN t.outs : t.outs[i].sats < DUST_AMOUNT /\ t.outs[i].to # "data"

isFullySigned(t) == \A i \in DOMAIN t.ins : Signable(t.ins[i]) /\ t.ins[i].signed

getSerializationError(t) ==
    \/ _getUnspentValue(t) < 0
    \/ _hasFeeError(t)
    \/ _hasDustOutputs(t)
    \/ ~isFullySigned(t)

checkedSerialize ==
    /\ KnowsInputs(txn)
    /\ txn' = WithAmounts(txn)
    /\ accepted' = ~getSerializationError(txn)
    /\ UNCHANGED readBack

\* The amounts and the rates are not written.
toObject(t) ==
    [t EXCEPT !.inAmount = Undefined, !.outAmount = Undefined,
              !.feePerKb = 0, !.feePerByte = 0]

_checkConsistency(t) ==
    t.changeIndex # Undefined =>
        t.changeIndex \in DOMAIN t.outs
        /\ t.outs[t.changeIndex].to = t.changeScript

\* new Transaction(t.toObject()): what is 0 (the index of a first output) is
\* not set again.  Inputs of another kind are refused.
fromObject ==
    /\ \A i \in DOMAIN txn.ins : txn.ins[i].kind # "other"
    /\ txn' = [toObject(txn) EXCEPT
                 !.changeIndex = IF @ = 1 THEN Undefined ELSE @,
                 !.fee = IF @ = 0 THEN Undefined ELSE @]
    /\ _checkConsistency(txn')
    /\ readBack' = TRUE /\ accepted' = FALSE

\* What is in the bytes, and back.
toBuffer(t) == [ins |-> t.ins, outs |-> t.outs, nLockTime |-> t.nLockTime]

fromBuffer(bytes) ==
    [NewTransaction EXCEPT
       !.ins = [i \in DOMAIN bytes.ins |->
                  [bytes.ins[i] EXCEPT !.kind = "bare", !.sats = 0]],
       !.outs = bytes.outs, !.nLockTime = bytes.nLockTime]

shallowCopy ==
    /\ txn' = fromBuffer(toBuffer(txn))
    /\ readBack' = TRUE /\ accepted' = FALSE

Call ==
    \/ \E id \in 1 .. MaxIns, sats \in UtxoSats :
          \E kind \in {"p2pkh", "p2pk", "other"} : from(id, kind, sats)
    \/ \E sats \in Payments : to(sats)
    \/ addData
    \/ clearOutputs
    \/ \E i \in DOMAIN txn.outs : removeOutput(i)
    \/ change
    \/ \E amount \in Fees : fee(amount) \/ feePerKb(amount) \/ feePerByte(amount)
    \/ \E i \in DOMAIN txn.ins : removeInput(i)
    \/ sort
    \/ shuffleOutputs
    \/ \E time \in LockTimes : lockUntilDate(time) \/ lockUntilBlockHeight(time)
    \/ \E i \in DOMAIN txn.ins : sign(i)
    \/ \E i \in DOMAIN txn.outs, amount \in Fees : sweepInto(i, amount)
    \/ checkedSerialize
    \/ fromObject
    \/ shallowCopy

TxnNext == called < MaxTxnCalls /\ called' = called + 1 /\ Call

TxnSpec == TxnInit /\ [][TxnNext]_txnVars

-----------------------------------------------------------------------------
Rest(t) == Amount(t.ins) - Amount(t.outs)

\* The transaction as it was when its change was computed.
WithoutChange(t) ==
    IF t.changeIndex = Undefined THEN t
    ELSE [_removeOutput(t, t.changeIndex) EXCEPT !.inAmount = Undefined]

\* After any sequence of calls the cached amounts are the amounts.  While a
\* change address is set the change output pays to it and takes all that the
\* fee leaves; without one, less than a dust output is left.  A transaction
\* that checkedSerialize lets pass is signed, has no dust and pays a fee that
\* is not negative, and the one that was set.
ChangeUpToDate ==
    /\ txn.inAmount # Undefined => txn.inAmount = Amount(txn.ins)
    /\ txn.outAmount # Undefined => txn.outAmount = Amount(txn.outs)
    /\ /\ txn.changeScript # "none" /\ ~readBack
       /\ \A i \in DOMAIN txn.ins : Signable(txn.ins[i])
       => IF txn.changeIndex = Undefined
          THEN Rest(txn) - getFee(txn) < DUST_AMOUNT
          ELSE /\ txn.outs[txn.changeIndex].to = txn.changeScript
               /\ Rest(txn) = getFee(WithoutChange(txn))
    /\ accepted =>
         /\ Rest(txn) >= 0 /\ txn.fee \in {Undefined, Rest(txn)}
         /\ ~_hasDustOutputs(txn) /\ isFullySigned(txn)

=============================================================================
