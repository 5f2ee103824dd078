-------------------------- MODULE TransactionProofs --------------------------
(***************************************************************************)
(* Transactions, for every number of inputs, outputs, coins and calls and  *)
(* for all amounts: the transaction object of bitcore-lib-xec keeps its    *)
(* amounts and its change up to date, and the transactions of a set pay    *)
(* what was asked.                                                         *)
(*                                                                         *)
(* Both rest on totals of sequences (SequenceProofs).  What is measured of *)
(* inputs and outputs, their amount and their size, is a function of each  *)
(* element, so that a call changes a total by what it appends or removes,  *)
(* and an order leaves it alone.                                           *)
(***************************************************************************)
EXTENDS CoinSelection, Transaction, SequenceProofs

-----------------------------------------------------------------------------
(* Totals of what is measured of each element.                             *)

Measured(m, s) == [i \in DOMAIN s |-> m[s[i]]]

\* What is measured of the elements, and its total.
LEMMA MeasuredType ==
    ASSUME NEW T, NEW m \in [T -> Int], NEW s \in Seq(T)
    PROVE  LET v == Measured(m, s) IN
           /\ v \in Seq(Int) /\ Len(v) = Len(s) /\ Len(s) \in Nat /\ DOMAIN s = 1..Len(s)
           /\ \A i \in 1..Len(s) : v[i] = m[s[i]] /\ s[i] \in T /\ m[s[i]] \in Int
           /\ Total(v) \in Int
<1> DEFINE v == Measured(m, s)
<1>1. /\ v \in Seq(Int) /\ Len(v) = Len(s) /\ Len(s) \in Nat /\ DOMAIN s = 1..Len(s)
      /\ \A i \in 1..Len(s) : v[i] = m[s[i]] /\ s[i] \in T /\ m[s[i]] \in Int
  BY DEF Measured
<1> HIDE DEF v
<1>2. Total(v) \in Int
  BY <1>1, TotalProperties
<1> QED
  BY <1>1, <1>2 DEF v

\* An element is appended.
LEMMA MeasuredAppend ==
    ASSUME NEW T, NEW m \in [T -> Int], NEW s \in Seq(T), NEW x \in T
    PROVE  Total(Measured(m, Append(s, x))) = Total(Measured(m, s)) + m[x]
<1> DEFINE v == Measured(m, s)
<1>0. /\ v \in Seq(Int) /\ Len(v) = Len(s) /\ Len(s) \in Nat /\ DOMAIN s = 1..Len(s)
      /\ \A n \in 1..Len(s) : v[n] = m[s[n]] /\ s[n] \in T /\ m[s[n]] \in Int
  BY MeasuredType
<1>1. Measured(m, Append(s, x)) = Append(v, m[x])
  <2>1. /\ Append(s, x) \in Seq(T) /\ DOMAIN Append(s, x) = 1..(Len(s) + 1)
        /\ \A i \in 1..Len(s) : Append(s, x)[i] = s[i]
        /\ Append(s, x)[Len(s) + 1] = x
    BY <1>0
  <2>2. /\ Append(v, m[x]) \in Seq(Int) /\ DOMAIN Append(v, m[x]) = 1..(Len(s) + 1)
        /\ \A i \in 1..Len(s) : Append(v, m[x])[i] = v[i]
        /\ Append(v, m[x])[Len(s) + 1] = m[x]
    <3> HIDE DEF v
    <3> QED BY <1>0
  <2>3. \A i \in 1..(Len(s) + 1) : i \in 1..Len(s) \/ i = Len(s) + 1
    BY <1>0
  <2>4. \A i \in 1..(Len(s) + 1) : Append(v, m[x])[i] = m[Append(s, x)[i]]
    <3> HIDE DEF v
    <3> QED BY <1>0, <2>1, <2>2, <2>3
  <2>5. Append(v, m[x]) = [i \in 1..(Len(s) + 1) |-> Append(v, m[x])[i]]
    <3> HIDE DEF v
    <3> QED BY <2>2
  <2> QED
    BY <2>1, <2>4, <2>5 DEF Measured
<1> HIDE DEF v
<1>2. Total(Measured(m, Append(s, x))) = Total(v) + m[x]
  BY <1>0, <1>1, TotalProperties
<1> QED
  BY <1>2 DEF v

\* An element is removed.
LEMMA MeasuredRemove ==
    ASSUME NEW T, NEW m \in [T -> Int], NEW s \in Seq(T), NEW i \in 1..Len(s)
    PROVE  Total(Measured(m, RemoveAt(s, i))) = Total(Measured(m, s)) - m[s[i]]
<1> DEFINE v == Measured(m, s)
<1>0. /\ v \in Seq(Int) /\ Len(v) = Len(s) /\ Len(s) \in Nat /\ DOMAIN s = 1..Len(s)
      /\ \A n \in 1..Len(s) : v[n] = m[s[n]] /\ s[n] \in T /\ m[s[n]] \in Int
  BY MeasuredType
<1>1. /\ RemoveAt(s, i) \in Seq(T) /\ Len(RemoveAt(s, i)) = Len(s) - 1
      /\ \A n \in 1..(Len(s) - 1) : RemoveAt(s, i)[n] = IF n < i THEN s[n] ELSE s[n + 1]
  BY RemoveAtFacts
<1>2. /\ RemoveAt(v, i) \in Seq(Int) /\ Len(RemoveAt(v, i)) = Len(s) - 1
      /\ \A n \in 1..(Len(s) - 1) : RemoveAt(v, i)[n] = IF n < i THEN v[n] ELSE v[n + 1]
  <2> HIDE DEF v
  <2> QED BY <1>0, RemoveAtFacts
<1>3. Measured(m, RemoveAt(s, i)) = RemoveAt(v, i)
  <2> HIDE DEF v
  <2>1. DOMAIN RemoveAt(s, i) = 1..(Len(s) - 1) /\ DOMAIN RemoveAt(v, i) = 1..(Len(s) - 1)
    BY <1>1, <1>2
  <2>2. \A n \in 1..(Len(s) - 1) : n \in 1..Len(s) /\ n + 1 \in 1..Len(s)
    BY <1>0
  <2>3. \A n \in 1..(Len(s) - 1) : RemoveAt(v, i)[n] = m[RemoveAt(s, i)[n]]
    BY <1>0, <1>1, <1>2, <2>2
  <2>4. RemoveAt(v, i) = [n \in 1..(Len(s) - 1) |-> RemoveAt(v, i)[n]]
    BY <1>2, <2>1
  <2> QED
    BY <2>1, <2>3, <2>4 DEF Measured
<1> HIDE DEF v
<1>4. Total(Measured(m, RemoveAt(s, i))) = Total(v) - m[s[i]]
  BY <1>0, <1>3, TotalRemove
<1> QED
  BY <1>4 DEF v

\* An element is replaced.
LEMMA MeasuredUpdate ==
    ASSUME NEW T, NEW m \in [T -> Int], NEW s \in Seq(T), NEW i \in 1..Len(s), NEW x \in T
    PROVE  Total(Measured(m, [s EXCEPT ![i] = x])) = Total(Measured(m, s)) - m[s[i]] + m[x]
<1> DEFINE v == Measured(m, s)
<1>0. /\ v \in Seq(Int) /\ Len(v) = Len(s) /\ Len(s) \in Nat /\ DOMAIN s = 1..Len(s)
      /\ \A n \in 1..Len(s) : v[n] = m[s[n]] /\ s[n] \in T /\ m[s[n]] \in Int
  BY MeasuredType
<1>1. Measured(m, [s EXCEPT ![i] = x]) = [v EXCEPT ![i] = m[x]]
  BY <1>0 DEF Measured
<1> HIDE DEF v
<1>2. Total(Measured(m, [s EXCEPT ![i] = x])) = Total(v) - m[s[i]] + m[x]
  BY <1>0, <1>1, TotalUpdate
<1> QED
  BY <1>2 DEF v

\* The elements are ordered anew.
LEMMA MeasuredOrder ==
    ASSUME NEW T, NEW m \in [T -> Int], NEW s \in Seq(T), NEW p, Reorders(p, Len(s))
    PROVE  Total(Measured(m, [i \in DOMAIN s |-> s[p[i]]])) = Total(Measured(m, s))
<1> DEFINE v == Measured(m, s)
<1>0. /\ v \in Seq(Int) /\ Len(v) = Len(s) /\ Len(s) \in Nat /\ DOMAIN s = 1..Len(s)
      /\ \A n \in 1..Len(s) : v[n] = m[s[n]] /\ s[n] \in T /\ m[s[n]] \in Int
  BY MeasuredType
<1>1. \A i \in 1..Len(s) : p[i] \in 1..Len(s)
  BY DEF Reorders
<1>2. Measured(m, [i \in DOMAIN s |-> s[p[i]]]) = [i \in 1..Len(v) |-> v[p[i]]]
  <2> HIDE DEF v
  <2> QED BY <1>0, <1>1 DEF Measured
<1> HIDE DEF v
<1>3. Total(Measured(m, [i \in DOMAIN s |-> s[p[i]]])) = Total(v)
  BY <1>0, <1>2, TotalOrder
<1> QED
  BY <1>3 DEF v

-----------------------------------------------------------------------------
(* The transaction object.                                                 *)

Kinds == {"p2pkh", "p2pk", "other", "bare"}
Input == [id : Nat, kind : Kinds, sats : Nat, sequence : {"default", "locktime"},
          signed : BOOLEAN]
Output == [to : {"payee", "data", "change"}, sats : Nat]

TxnType ==
    [ins : Seq(Input), outs : Seq(Output), inAmount : Int, outAmount : Int,
     changeScript : {"none", "change"}, changeIndex : Int, fee : Int,
     feePerKb : Nat, feePerByte : Nat, nLockTime : Nat]

TxnTypeOK ==
    txn \in TxnType /\ readBack \in BOOLEAN /\ accepted \in BOOLEAN /\ called \in Nat

AmountsRight(t) ==
    /\ t.inAmount # Undefined => t.inAmount = Amount(t.ins)
    /\ t.outAmount # Undefined => t.outAmount = Amount(t.outs)

AllSignable(t) == \A i \in DOMAIN t.ins : Signable(t.ins[i])

\* The fee as a function of the size of t and of what its inputs leave.
FeeFor(t, size, rest) ==
    LET perKb == IF t.feePerByte > 0 THEN 1000 * t.feePerByte
                 ELSE IF t.feePerKb > 0 THEN t.feePerKb ELSE FEE_PER_KB
        with == Ceil((size + CHANGE_OUTPUT_MAX_SIZE) * perKb, 1000)
    IN  CASE t.fee # Undefined -> t.fee
          [] t.changeScript = "none" -> rest
          [] OTHER -> IF t.changeScript = "none" \/ rest <= with
                      THEN Ceil(size * perKb, 1000) ELSE with

\* What an output adds to the size.
OutputSize(out) == ScriptSize(out) + 9

\* The change takes what the fee leaves, the fee being that of the transaction
\* without its change: a statement that the order of the outputs, signatures
\* and sequence numbers do not enter.
ChangeRight(t) ==
    IF t.changeIndex = Undefined
    THEN Rest(t) - FeeFor(t, estimateSize(t), Rest(t)) < DUST_AMOUNT
    ELSE /\ t.changeIndex \in 1..Len(t.outs)
         /\ t.outs[t.changeIndex].to = t.changeScript
         /\ Rest(t) = FeeFor(t, estimateSize(t) - OutputSize(t.outs[t.changeIndex]),
                             Rest(t) + t.outs[t.changeIndex].sats)

ChangeKept == txn.changeScript # "none" /\ ~readBack /\ AllSignable(txn) => ChangeRight(txn)

AcceptedRight ==
    accepted =>
      /\ Rest(txn) >= 0 /\ txn.fee \in {Undefined, Rest(txn)}
      /\ ~_hasDustOutputs(txn) /\ isFullySigned(txn)

TxnInv == TxnTypeOK /\ AmountsRight(txn) /\ ChangeKept /\ AcceptedRight

\* Sizes of the inputs and of the outputs.
InputsSize(s) == Total([i \in DOMAIN s |-> 36 + 1 + SigSize(s[i])])
OutputsSize(s) == Total([i \in DOMAIN s |-> ScriptSize(s[i]) + 9])

\* Amount and size of outputs when one is added or removed, or they are
\* ordered anew.
LEMMA OutputTotals ==
    ASSUME NEW s \in Seq(Output)
    PROVE  /\ Amount(s) \in Int /\ OutputsSize(s) \in Int
           /\ \A x \in Output : /\ Amount(Append(s, x)) = Amount(s) + x.sats
                                /\ OutputsSize(Append(s, x)) = OutputsSize(s) + OutputSize(x)
           /\ \A i \in 1..Len(s) :
                /\ Amount(RemoveAt(s, i)) = Amount(s) - s[i].sats
                /\ OutputsSize(RemoveAt(s, i)) = OutputsSize(s) - OutputSize(s[i])
           /\ \A i \in 1..Len(s), x \in Output :
                Amount([s EXCEPT ![i] = x]) = Amount(s) - s[i].sats + x.sats
           /\ \A p : Reorders(p, Len(s)) =>
                /\ Amount(Permute(s, p)) = Amount(s)
                /\ OutputsSize(Permute(s, p)) = OutputsSize(s)
<1> DEFINE ms == [x \in Output |-> x.sats]
           mz == [x \in Output |-> OutputSize(x)]
<1>1. ms \in [Output -> Int] /\ mz \in [Output -> Int]
  BY DEF Output, OutputSize, ScriptSize
<1>2. ASSUME NEW r \in Seq(Output)
      PROVE  Amount(r) = Total(Measured(ms, r)) /\ OutputsSize(r) = Total(Measured(mz, r))
  <2>1. \A i \in DOMAIN r : r[i] \in Output
    OBVIOUS
  <2>2. Sats(r) = Measured(ms, r)
    BY <2>1 DEF Sats, Measured
  <2>3. [i \in DOMAIN r |-> ScriptSize(r[i]) + 9] = Measured(mz, r)
    BY <2>1 DEF Measured, OutputSize
  <2> QED
    BY <2>2, <2>3 DEF Amount, OutputsSize
<1>3. \A x \in Output : ms[x] = x.sats /\ mz[x] = OutputSize(x)
  OBVIOUS
<1>4. \A i \in 1..Len(s) : s[i] \in Output
  OBVIOUS
<1>5. \A x \in Output : Append(s, x) \in Seq(Output)
  OBVIOUS
<1>6. \A i \in 1..Len(s) : RemoveAt(s, i) \in Seq(Output)
  BY RemoveAtFacts
<1>7. \A i \in 1..Len(s), x \in Output : [s EXCEPT ![i] = x] \in Seq(Output)
  OBVIOUS
<1>8. ASSUME NEW p, Reorders(p, Len(s))
      PROVE  /\ Permute(s, p) \in Seq(Output)
             /\ Permute(s, p) = [i \in DOMAIN s |-> s[p[i]]]
  <2>1. \A i \in 1..Len(s) : p[i] \in 1..Len(s)
    BY <1>8 DEF Reorders
  <2>2. \A i \in 1..Len(s) : s[p[i]] \in Output
    BY <1>4, <2>1
  <2>3. DOMAIN s = 1..Len(s) /\ Len(s) \in Nat
    OBVIOUS
  <2> QED
    BY <2>2, <2>3 DEF Permute
<1> HIDE DEF ms, mz
<1>9. Amount(s) \in Int /\ OutputsSize(s) \in Int
  <2>1. Total(Measured(ms, s)) \in Int /\ Total(Measured(mz, s)) \in Int
    BY <1>1, MeasuredType
  <2> QED
    BY <1>2, <2>1
<1>10. ASSUME NEW x \in Output
       PROVE  /\ Amount(Append(s, x)) = Amount(s) + x.sats
              /\ OutputsSize(Append(s, x)) = OutputsSize(s) + OutputSize(x)
  <2>1. /\ Total(Measured(ms, Append(s, x))) = Total(Measured(ms, s)) + ms[x]
        /\ Total(Measured(mz, Append(s, x))) = Total(Measured(mz, s)) + mz[x]
    BY <1>1, MeasuredAppend
  <2>2. Append(s, x) \in Seq(Output)
    BY <1>5
  <2> QED
    BY <1>2, <1>3, <2>1, <2>2
<1>11. ASSUME NEW i \in 1..Len(s)
       PROVE  /\ Amount(RemoveAt(s, i)) = Amount(s) - s[i].sats
              /\ OutputsSize(RemoveAt(s, i)) = OutputsSize(s) - OutputSize(s[i])
  <2>1. /\ Total(Measured(ms, RemoveAt(s, i))) = Total(Measured(ms, s)) - ms[s[i]]
        /\ Total(Measured(mz, RemoveAt(s, i))) = Total(Measured(mz, s)) - mz[s[i]]
    BY <1>1, MeasuredRemove
  <2>2. RemoveAt(s, i) \in Seq(Output) /\ s[i] \in Output
    BY <1>4, <1>6
  <2> QED
    BY <1>2, <1>3, <2>1, <2>2
<1>12. ASSUME NEW i \in 1..Len(s), NEW x \in Output
       PROVE  Amount([s EXCEPT ![i] = x]) = Amount(s) - s[i].sats + x.sats
  <2>1. Total(Measured(ms, [s EXCEPT ![i] = x])) = Total(Measured(ms, s)) - ms[s[i]] + ms[x]
    BY <1>1, MeasuredUpdate
  <2>2. [s EXCEPT ![i] = x] \in Seq(Output) /\ s[i] \in Output
    BY <1>4, <1>7
  <2> QED
    BY <1>2, <1>3, <2>1, <2>2
<1>13. ASSUME NEW p, Reorders(p, Len(s))
       PROVE  Amount(Permute(s, p)) = Amount(s) /\ OutputsSize(Permute(s, p)) = OutputsSize(s)
  <2> DEFINE r == [i \in DOMAIN s |-> s[p[i]]]
  <2>1. /\ Total(Measured(ms, r)) = Total(Measured(ms, s))
        /\ Total(Measured(mz, r)) = Total(Measured(mz, s))
    BY <1>1, <1>13, MeasuredOrder
  <2>2. Permute(s, p) = r /\ r \in Seq(Output)
    BY <1>8, <1>13
  <2> HIDE DEF r
  <2> QED
    BY <1>2, <2>1, <2>2
<1> QED
  BY <1>9, <1>10, <1>11, <1>12, <1>13

\* Amount and size of inputs: neither their order nor their sequence numbers
\* enter, nor do signatures while every input can be signed.
LEMMA InputTotals ==
    ASSUME NEW s \in Seq(Input)
    PROVE  /\ Amount(s) \in Int /\ InputsSize(s) \in Int
           /\ \A p : Reorders(p, Len(s)) =>
                /\ Amount(Permute(s, p)) = Amount(s)
                /\ InputsSize(Permute(s, p)) = InputsSize(s)
           /\ \A r : /\ DOMAIN r = DOMAIN s
                     /\ \A i \in DOMAIN s : r[i].sats = s[i].sats /\ r[i].kind = s[i].kind
                => /\ Amount(r) = Amount(s)
                   /\ (\A i \in DOMAIN s : Signable(s[i])) => InputsSize(r) = InputsSize(s)
<1> DEFINE ms == [x \in Input |-> x.sats]
           mz == [x \in Input |-> 36 + 1 + SigSize(x)]
<1>1. ms \in [Input -> Int] /\ mz \in [Input -> Int]
  <2>1. \A x \in Input : SigSize(x) \in Int
    BY DEF SigSize, WholeInput, P2PKH_SCRIPT_MAX_SIZE, P2PK_SCRIPT_MAX_SIZE
  <2> QED
    BY <2>1 DEF Input
<1>2. ASSUME NEW r \in Seq(Input)
      PROVE  Amount(r) = Total(Measured(ms, r)) /\ InputsSize(r) = Total(Measured(mz, r))
  <2>1. \A i \in DOMAIN r : r[i] \in Input
    OBVIOUS
  <2>2. Sats(r) = Measured(ms, r)
    BY <2>1 DEF Sats, Measured
  <2>3. [i \in DOMAIN r |-> 36 + 1 + SigSize(r[i])] = Measured(mz, r)
    BY <2>1 DEF Measured
  <2> QED
    BY <2>2, <2>3 DEF Amount, InputsSize
<1>3. ASSUME NEW p, Reorders(p, Len(s))
      PROVE  /\ Permute(s, p) \in Seq(Input)
             /\ Permute(s, p) = [i \in DOMAIN s |-> s[p[i]]]
  <2>1. \A i \in 1..Len(s) : p[i] \in 1..Len(s)
    BY <1>3 DEF Reorders
  <2>2. \A i \in 1..Len(s) : s[p[i]] \in Input
    BY <2>1
  <2>3. DOMAIN s = 1..Len(s) /\ Len(s) \in Nat
    OBVIOUS
  <2> QED
    BY <2>2, <2>3 DEF Permute
<1> HIDE DEF ms, mz
<1>4. Amount(s) \in Int /\ InputsSize(s) \in Int
  <2>1. Total(Measured(ms, s)) \in Int /\ Total(Measured(mz, s)) \in Int
    BY <1>1, MeasuredType
  <2> QED
    BY <1>2, <2>1
<1>5. ASSUME NEW p, Reorders(p, Len(s))
       PROVE  Amount(Permute(s, p)) = Amount(s) /\ InputsSize(Permute(s, p)) = InputsSize(s)
  <2> DEFINE r == [i \in DOMAIN s |-> s[p[i]]]
  <2>1. /\ Total(Measured(ms, r)) = Total(Measured(ms, s))
        /\ Total(Measured(mz, r)) = Total(Measured(mz, s))
    BY <1>1, <1>5, MeasuredOrder
  <2>2. Permute(s, p) = r /\ r \in Seq(Input)
    BY <1>3, <1>5
  <2> HIDE DEF r
  <2> QED
    BY <1>2, <2>1, <2>2
<1>6. ASSUME NEW r, DOMAIN r = DOMAIN s,
             \A i \in DOMAIN s : r[i].sats = s[i].sats /\ r[i].kind = s[i].kind
      PROVE  /\ Amount(r) = Amount(s)
             /\ (\A i \in DOMAIN s : Signable(s[i])) => InputsSize(r) = InputsSize(s)
  <2>1. Sats(r) = Sats(s)
    BY <1>6 DEF Sats
  <2>2. ASSUME \A i \in DOMAIN s : Signable(s[i])
        PROVE  [i \in DOMAIN r |-> 36 + 1 + SigSize(r[i])] = [i \in DOMAIN s |-> 36 + 1 + SigSize(s[i])]
    <3>1. \A i \in DOMAIN s : SigSize(r[i]) = SigSize(s[i])
      BY <1>6, <2>2 DEF SigSize, Signable
    <3> QED
      BY <1>6, <3>1
  <2> QED
    BY <2>1, <2>2 DEF Amount, InputsSize
<1> QED
  BY <1>4, <1>5, <1>6

\* Fees are numbers, and only four fields of a transaction enter.
LEMMA FeeForType ==
    ASSUME NEW t \in TxnType, NEW size \in Int, NEW rest \in Int
    PROVE  /\ FeeFor(t, size, rest) \in Int
           /\ \A u : /\ u.fee = t.fee /\ u.changeScript = t.changeScript
                     /\ u.feePerKb = t.feePerKb /\ u.feePerByte = t.feePerByte
                     => FeeFor(u, size, rest) = FeeFor(t, size, rest)
<1>1. /\ t.fee \in Int /\ t.feePerByte \in Nat /\ t.feePerKb \in Nat
      /\ t.changeScript \in {"none", "change"}
  BY DEF TxnType
<1>2. \A a \in Int : Ceil(a, 1000) \in Int
  BY DEF Ceil
<1>3. \A a, b \in Int : a * b \in Int
  OBVIOUS
<1> DEFINE perKb == IF t.feePerByte > 0 THEN 1000 * t.feePerByte
                    ELSE IF t.feePerKb > 0 THEN t.feePerKb ELSE FEE_PER_KB
<1>4. perKb \in Int /\ size + CHANGE_OUTPUT_MAX_SIZE \in Int
  BY <1>1 DEF FEE_PER_KB, CHANGE_OUTPUT_MAX_SIZE
<1> HIDE DEF perKb
<1>5. /\ Ceil(size * perKb, 1000) \in Int
      /\ Ceil((size + CHANGE_OUTPUT_MAX_SIZE) * perKb, 1000) \in Int
  BY <1>2, <1>3, <1>4
<1>6. FeeFor(t, size, rest) \in Int
  <2>1. FeeFor(t, size, rest) =
          CASE t.fee # Undefined -> t.fee
            [] t.changeScript = "none" -> rest
            [] OTHER -> IF t.changeScript = "none"
                           \/ rest <= Ceil((size + CHANGE_OUTPUT_MAX_SIZE) * perKb, 1000)
                        THEN Ceil(size * perKb, 1000)
                        ELSE Ceil((size + CHANGE_OUTPUT_MAX_SIZE) * perKb, 1000)
    BY DEF FeeFor, perKb
  <2> QED
    BY <1>1, <1>5, <2>1
<1>7. ASSUME NEW u, u.fee = t.fee, u.changeScript = t.changeScript,
             u.feePerKb = t.feePerKb, u.feePerByte = t.feePerByte
      PROVE  FeeFor(u, size, rest) = FeeFor(t, size, rest)
  BY <1>7 DEF FeeFor
<1> QED
  BY <1>6, <1>7

\* The size of a transaction, and what its inputs leave, in parts.
LEMMA SizeParts ==
    ASSUME NEW t \in TxnType
    PROVE  /\ estimateSize(t) = MAXIMUM_EXTRA_SIZE + InputsSize(t.ins) + OutputsSize(t.outs)
           /\ estimateSize(t) \in Int
           /\ Rest(t) = Amount(t.ins) - Amount(t.outs) /\ Rest(t) \in Int
           /\ Amount(t.ins) \in Int /\ Amount(t.outs) \in Int
           /\ InputsSize(t.ins) \in Int /\ OutputsSize(t.outs) \in Int
<1>1. t.ins \in Seq(Input) /\ t.outs \in Seq(Output)
  BY DEF TxnType
<1>2. /\ Amount(t.ins) \in Int /\ InputsSize(t.ins) \in Int
      /\ Amount(t.outs) \in Int /\ OutputsSize(t.outs) \in Int
  BY <1>1, InputTotals, OutputTotals
<1>3. estimateSize(t) = MAXIMUM_EXTRA_SIZE + InputsSize(t.ins) + OutputsSize(t.outs)
  BY DEF estimateSize, InputsSize, OutputsSize
<1> QED
  BY <1>2, <1>3 DEF Rest, MAXIMUM_EXTRA_SIZE

\* With right amounts, what getFee and _getUnspentValue compute.
LEMMA FeeComputed ==
    ASSUME NEW t \in TxnType, AmountsRight(t), KnowsInputs(t)
    PROVE  /\ WithAmounts(t) = [t EXCEPT !.inAmount = Amount(t.ins), !.outAmount = Amount(t.outs)]
           /\ _getUnspentValue(t) = Rest(t)
           /\ getFee(t) = FeeFor(t, estimateSize(t), Rest(t))
<1>1. WithAmounts(t) = [t EXCEPT !.inAmount = Amount(t.ins), !.outAmount = Amount(t.outs)]
  BY DEF WithAmounts, AmountsRight, TxnType
<1>2. _getUnspentValue(t) = Rest(t)
  BY <1>1 DEF _getUnspentValue, Rest, TxnType
<1>3. getFee(t) = FeeFor(t, estimateSize(t), Rest(t))
  BY <1>2 DEF getFee, _estimateFee, FeeFor
<1> QED
  BY <1>1, <1>2, <1>3

\* Signatures are all that _clearSignatures takes.
LEMMA ClearFacts ==
    ASSUME NEW t \in TxnType
    PROVE  LET c == _clearSignatures(t) IN
           /\ c \in TxnType /\ c = [t EXCEPT !.ins = c.ins]
           /\ DOMAIN c.ins = DOMAIN t.ins
           /\ \A i \in DOMAIN t.ins : c.ins[i].sats = t.ins[i].sats /\ c.ins[i].kind = t.ins[i].kind
           /\ Amount(c.ins) = Amount(t.ins)
           /\ AllSignable(c) <=> AllSignable(t)
           /\ AllSignable(t) => InputsSize(c.ins) = InputsSize(t.ins)
<1> DEFINE q == [i \in DOMAIN t.ins |->
                   IF \A k \in 1 .. i : Signable(t.ins[k])
                   THEN [t.ins[i] EXCEPT !.signed = FALSE] ELSE t.ins[i]]
           c == _clearSignatures(t)
<1>1. t.ins \in Seq(Input) /\ DOMAIN t.ins = 1..Len(t.ins) /\ Len(t.ins) \in Nat
  BY DEF TxnType
<1>2. ASSUME NEW i \in DOMAIN t.ins
      PROVE  q[i] \in Input /\ q[i].sats = t.ins[i].sats /\ q[i].kind = t.ins[i].kind
  <2>1. t.ins[i] \in Input
    BY <1>1
  <2>2. LET x == [t.ins[i] EXCEPT !.signed = FALSE] IN
        x \in Input /\ x.sats = t.ins[i].sats /\ x.kind = t.ins[i].kind
    BY <2>1 DEF Input
  <2> QED
    BY <2>1, <2>2
<1>3. q \in Seq(Input) /\ DOMAIN q = DOMAIN t.ins
  <2>1. DOMAIN q = DOMAIN t.ins
    OBVIOUS
  <2>2. q \in [1..Len(t.ins) -> Input]
    BY <1>1, <1>2
  <2> HIDE DEF q
  <2> QED
    BY <1>1, <2>1, <2>2
<1>4. c = [t EXCEPT !.ins = q]
  BY DEF _clearSignatures
<1> HIDE DEF q, c
<1>5. c \in TxnType /\ c.ins = q /\ c = [t EXCEPT !.ins = c.ins]
  BY <1>3, <1>4 DEF TxnType
<1>6. AllSignable(c) <=> AllSignable(t)
  BY <1>2, <1>3, <1>5 DEF AllSignable, Signable
<1>7. Amount(q) = Amount(t.ins) /\ (AllSignable(t) => InputsSize(q) = InputsSize(t.ins))
  BY <1>1, <1>2, <1>3, InputTotals DEF AllSignable
<1>8. /\ c \in TxnType /\ c = [t EXCEPT !.ins = c.ins]
      /\ DOMAIN c.ins = DOMAIN t.ins
      /\ \A i \in DOMAIN t.ins : c.ins[i].sats = t.ins[i].sats /\ c.ins[i].kind = t.ins[i].kind
      /\ Amount(c.ins) = Amount(t.ins)
      /\ AllSignable(c) <=> AllSignable(t)
      /\ AllSignable(t) => InputsSize(c.ins) = InputsSize(t.ins)
  BY <1>2, <1>3, <1>5, <1>6, <1>7
<1> QED
  BY <1>8 DEF c

\* _updateChangeOutput leaves right amounts and a right change.
LEMMA UpdateRight ==
    ASSUME NEW t \in TxnType, AmountsRight(t)
    PROVE  LET r == _updateChangeOutput(t) IN
           /\ r \in TxnType /\ AmountsRight(r) /\ r.changeScript = t.changeScript
           /\ t.changeScript # "none" /\ AllSignable(r) => ChangeRight(r)
<1> DEFINE r == _updateChangeOutput(t)
           c == _clearSignatures(t)
           raw == IF t.changeIndex = Undefined THEN c ELSE _removeOutput(c, t.changeIndex)
           base == WithAmounts(raw)
           amount == _getUnspentValue(base) - getFee(base)
           o == [to |-> t.changeScript, sats |-> amount]
           Goal == /\ r \in TxnType /\ AmountsRight(r) /\ r.changeScript = t.changeScript
                   /\ t.changeScript # "none" /\ AllSignable(r) => ChangeRight(r)
<1>1. /\ c \in TxnType /\ c = [t EXCEPT !.ins = c.ins]
      /\ DOMAIN c.ins = DOMAIN t.ins
      /\ \A i \in DOMAIN t.ins : c.ins[i].kind = t.ins[i].kind
      /\ Amount(c.ins) = Amount(t.ins)
      /\ AllSignable(c) <=> AllSignable(t)
  BY ClearFacts
<1>2. AmountsRight(c) /\ c.changeScript = t.changeScript
  <2> HIDE DEF c
  <2>1. /\ c.inAmount = t.inAmount /\ c.outAmount = t.outAmount /\ c.outs = t.outs
        /\ c.changeScript = t.changeScript
    BY <1>1 DEF TxnType
  <2> QED
    BY <1>1, <2>1 DEF AmountsRight
<1>3. r = IF t.changeScript = "none" THEN t
          ELSE IF \E i \in DOMAIN t.ins : ~Signable(t.ins[i]) THEN c
          ELSE IF amount >= DUST_AMOUNT
          THEN [_addOutput(base, o) EXCEPT !.changeIndex = Len(base.outs) + 1]
          ELSE [base EXCEPT !.changeIndex = Undefined]
  BY Zenon DEF _updateChangeOutput
<1>4. ASSUME t.changeScript = "none" PROVE Goal
  <2> HIDE DEF c, base, o, amount, raw
  <2> QED
    BY <1>3, <1>4
<1>5. ASSUME t.changeScript # "none" /\ ~AllSignable(t) PROVE Goal
  <2> HIDE DEF c, base, o, amount, raw, r
  <2>1. r = c
    BY <1>3, <1>5 DEF AllSignable
  <2> QED
    BY <1>1, <1>2, <1>5, <2>1
<1>6. ASSUME t.changeScript # "none" /\ AllSignable(t) PROVE Goal
  <2> HIDE DEF c, r
  <2>1. raw \in TxnType /\ AmountsRight(raw) /\ raw.ins = c.ins /\ raw.changeScript = t.changeScript
    <3>1. CASE t.changeIndex = Undefined
      BY <1>1, <1>2, <3>1
    <3>2. CASE t.changeIndex # Undefined
      <4> DEFINE s == IF t.changeIndex \in DOMAIN c.outs THEN RemoveAt(c.outs, t.changeIndex) ELSE c.outs
      <4>1. c.outs \in Seq(Output)
        BY <1>1 DEF TxnType
      <4>2. s \in Seq(Output)
        BY <4>1, RemoveAtFacts
      <4>3. raw = [c EXCEPT !.outs = s, !.outAmount = Undefined]
        BY <3>2 DEF _removeOutput
      <4> HIDE DEF s, raw
      <4>4. /\ raw \in TxnType /\ raw.ins = c.ins /\ raw.inAmount = c.inAmount
            /\ raw.outAmount = Undefined /\ raw.changeScript = c.changeScript
        <5>1. c \in TxnType /\ Undefined \in Int
          BY <1>1 DEF Undefined
        <5> QED
          BY <5>1, <4>2, <4>3 DEF TxnType
      <4> QED
        BY <1>2, <4>4 DEF AmountsRight
    <3> QED
      BY <3>1, <3>2
  <2> HIDE DEF raw
  <2>2. KnowsInputs(raw) /\ AllSignable(raw)
    <3>1. AllSignable(raw)
      BY <1>1, <1>6, <2>1 DEF AllSignable
    <3> QED
      BY <3>1 DEF AllSignable, KnowsInputs, Signable
  <2>3. base = [raw EXCEPT !.inAmount = Amount(raw.ins), !.outAmount = Amount(raw.outs)]
    BY <2>1, <2>2, FeeComputed
  <2> HIDE DEF base
  <2>4. /\ base \in TxnType /\ AmountsRight(base) /\ base.ins = c.ins /\ base.outs = raw.outs
        /\ base.changeScript = t.changeScript
    <3>1. Amount(raw.ins) \in Int /\ Amount(raw.outs) \in Int
      BY <2>1, SizeParts
    <3>2. /\ base \in TxnType /\ base.ins = raw.ins /\ base.outs = raw.outs
          /\ base.inAmount = Amount(raw.ins) /\ base.outAmount = Amount(raw.outs)
          /\ base.changeScript = raw.changeScript
      BY <2>1, <2>3, <3>1 DEF TxnType
    <3> QED
      BY <2>1, <3>2 DEF AmountsRight
  <2>5. KnowsInputs(base) /\ AllSignable(base)
    BY <2>1, <2>2, <2>4 DEF AllSignable, KnowsInputs
  <2>6. /\ amount = Rest(base) - FeeFor(base, estimateSize(base), Rest(base))
        /\ FeeFor(base, estimateSize(base), Rest(base)) \in Int
        /\ Rest(base) \in Int /\ amount \in Int
    <3>1. estimateSize(base) \in Int /\ Rest(base) \in Int
      BY <2>4, SizeParts
    <3>2. FeeFor(base, estimateSize(base), Rest(base)) \in Int
      BY <2>4, <3>1, FeeForType
    <3>3. amount = Rest(base) - FeeFor(base, estimateSize(base), Rest(base))
      BY <2>4, <2>5, FeeComputed
    <3> HIDE DEF amount
    <3> QED
      BY <3>1, <3>2, <3>3
  <2> HIDE DEF amount
  <2>7. CASE amount >= DUST_AMOUNT
    <3>1. r = [base EXCEPT !.outs = Append(base.outs, o), !.outAmount = Undefined,
                           !.changeIndex = Len(base.outs) + 1]
      <4>1. r = [_addOutput(base, o) EXCEPT !.changeIndex = Len(base.outs) + 1]
        BY <1>3, <1>6, <2>7 DEF AllSignable
      <4> HIDE DEF o
      <4> QED
        BY <4>1, <2>4 DEF _addOutput, TxnType
    <3>2. o \in Output /\ o.sats = amount /\ o.to = t.changeScript
      <4>1. amount \in Nat
        BY <2>6, <2>7 DEF DUST_AMOUNT
      <4>2. t.changeScript = "change"
        BY <1>6 DEF TxnType
      <4> QED
        BY <4>1, <4>2 DEF Output
    <3> HIDE DEF o
    <3>3. base.outs \in Seq(Output) /\ Append(base.outs, o) \in Seq(Output)
      <4>1. base.outs \in Seq(Output)
        BY <2>4 DEF TxnType
      <4> QED
        BY <3>2, <4>1
    <3>4. /\ r \in TxnType /\ r.ins = base.ins /\ r.outs = Append(base.outs, o)
          /\ r.inAmount = base.inAmount /\ r.outAmount = Undefined
          /\ r.changeScript = base.changeScript /\ r.changeIndex = Len(base.outs) + 1
          /\ r.fee = base.fee /\ r.feePerKb = base.feePerKb /\ r.feePerByte = base.feePerByte
      <4>1. base \in TxnType /\ Undefined \in Int /\ Len(base.outs) + 1 \in Int
        BY <2>4, <3>3 DEF Undefined
      <4> QED
        BY <4>1, <3>1, <3>3 DEF TxnType
    <3>5. AmountsRight(r)
      BY <2>4, <3>4 DEF AmountsRight
    <3>6. /\ r.changeIndex \in 1..Len(r.outs) /\ r.outs[r.changeIndex] = o
          /\ r.changeIndex # Undefined
      BY <3>3, <3>4 DEF Undefined
    <3>7. /\ Amount(r.outs) = Amount(base.outs) + o.sats
          /\ OutputsSize(r.outs) = OutputsSize(base.outs) + OutputSize(o)
          /\ OutputSize(o) \in Int
      <4>1. OutputSize(o) \in Int
        BY DEF OutputSize, ScriptSize
      <4> QED
        BY <3>2, <3>3, <3>4, <4>1, OutputTotals
    <3>8. /\ Rest(r) = FeeFor(base, estimateSize(base), Rest(base))
          /\ estimateSize(r) - OutputSize(o) = estimateSize(base)
          /\ Rest(r) + o.sats = Rest(base)
      <4>1. /\ estimateSize(r) = MAXIMUM_EXTRA_SIZE + InputsSize(r.ins) + OutputsSize(r.outs)
            /\ Rest(r) = Amount(r.ins) - Amount(r.outs)
            /\ Amount(r.ins) \in Int /\ InputsSize(r.ins) \in Int
        BY <3>4, SizeParts
      <4>2. /\ estimateSize(base) = MAXIMUM_EXTRA_SIZE + InputsSize(base.ins) + OutputsSize(base.outs)
            /\ Rest(base) = Amount(base.ins) - Amount(base.outs)
            /\ Amount(base.outs) \in Int /\ OutputsSize(base.outs) \in Int
        BY <2>4, SizeParts
      <4> QED
        <5>1. r.ins = base.ins /\ o.sats = amount
          BY <3>2, <3>4
        <5> QED
          BY <2>6, <3>7, <4>1, <4>2, <5>1 DEF MAXIMUM_EXTRA_SIZE
    <3>9. FeeFor(r, estimateSize(base), Rest(base)) = FeeFor(base, estimateSize(base), Rest(base))
      <4>1. estimateSize(base) \in Int /\ Rest(base) \in Int
        BY <2>4, SizeParts
      <4> QED
        BY <2>4, <3>4, <4>1, FeeForType
    <3>10. ChangeRight(r)
      BY <2>4, <3>2, <3>4, <3>6, <3>8, <3>9 DEF ChangeRight
    <3> QED
      BY <2>4, <3>4, <3>5, <3>10
  <2>8. CASE ~(amount >= DUST_AMOUNT)
    <3>1. r = [base EXCEPT !.changeIndex = Undefined]
      BY <1>3, <1>6, <2>8 DEF AllSignable
    <3>2. /\ r \in TxnType /\ r.ins = base.ins /\ r.outs = base.outs
          /\ r.inAmount = base.inAmount /\ r.outAmount = base.outAmount
          /\ r.changeScript = base.changeScript /\ r.changeIndex = Undefined
          /\ r.fee = base.fee /\ r.feePerKb = base.feePerKb /\ r.feePerByte = base.feePerByte
      <4>1. base \in TxnType /\ Undefined \in Int
        BY <2>4 DEF Undefined
      <4> QED
        BY <4>1, <3>1 DEF TxnType
    <3>3. AmountsRight(r)
      BY <2>4, <3>2 DEF AmountsRight
    <3>4. Rest(r) = Rest(base) /\ estimateSize(r) = estimateSize(base)
      BY <3>2 DEF Rest, estimateSize
    <3>5. FeeFor(r, estimateSize(base), Rest(base)) = FeeFor(base, estimateSize(base), Rest(base))
      <4>1. estimateSize(base) \in Int /\ Rest(base) \in Int
        BY <2>4, SizeParts
      <4> QED
        BY <2>4, <3>2, <4>1, FeeForType
    <3>6. ChangeRight(r)
      BY <2>6, <2>8, <3>2, <3>4, <3>5 DEF ChangeRight, DUST_AMOUNT
    <3> QED
      BY <2>4, <3>2, <3>3, <3>6
  <2> QED
    BY <2>7, <2>8
<1>7. Goal
  <2> HIDE DEF Goal
  <2> QED
    BY <1>4, <1>5, <1>6
<1> QED
  BY <1>7

\* A right change stays right when amounts, sizes and the change output do.
LEMMA ChangeCarried ==
    ASSUME NEW t \in TxnType, NEW u \in TxnType, ChangeRight(t),
           Amount(u.ins) = Amount(t.ins), InputsSize(u.ins) = InputsSize(t.ins),
           Amount(u.outs) = Amount(t.outs), OutputsSize(u.outs) = OutputsSize(t.outs),
           u.fee = t.fee, u.changeScript = t.changeScript,
           u.feePerKb = t.feePerKb, u.feePerByte = t.feePerByte,
           IF t.changeIndex = Undefined THEN u.changeIndex = Undefined
           ELSE /\ u.changeIndex \in 1..Len(u.outs)
                /\ u.outs[u.changeIndex] = t.outs[t.changeIndex]
    PROVE  ChangeRight(u)
<1>1. /\ Rest(u) = Rest(t) /\ estimateSize(u) = estimateSize(t)
      /\ Rest(t) \in Int /\ estimateSize(t) \in Int
  BY SizeParts
<1>2. \A size, rest \in Int : FeeFor(u, size, rest) = FeeFor(t, size, rest)
  BY FeeForType
<1>3. CASE t.changeIndex = Undefined
  BY <1>1, <1>2, <1>3 DEF ChangeRight
<1>4. CASE t.changeIndex # Undefined
  <2> DEFINE o == t.outs[t.changeIndex]
  <2>1. /\ t.changeIndex \in 1..Len(t.outs) /\ o.to = t.changeScript
        /\ Rest(t) = FeeFor(t, estimateSize(t) - OutputSize(o), Rest(t) + o.sats)
    BY <1>4 DEF ChangeRight
  <2>2. o \in Output
    BY <2>1 DEF TxnType
  <2>3. u.changeIndex \in 1..Len(u.outs) /\ u.outs[u.changeIndex] = o /\ u.changeIndex # Undefined
    <3>1. u.outs \in Seq(Output)
      BY DEF TxnType
    <3> QED
      BY <1>4, <3>1 DEF Undefined
  <2> HIDE DEF o
  <2>4. estimateSize(t) - OutputSize(o) \in Int /\ Rest(t) + o.sats \in Int
    BY <1>1, <2>2 DEF OutputSize, ScriptSize, Output
  <2> QED
    BY <1>1, <1>2, <2>1, <2>3, <2>4 DEF ChangeRight
<1> QED
  BY <1>3, <1>4

\* The orders that sort and shuffle choose from.
LEMMA OrdersReorder ==
    ASSUME NEW T, NEW s \in Seq(T), NEW p \in Orders(s)
    PROVE  Reorders(p, Len(s)) /\ DOMAIN s = 1..Len(s)
<1>1. DOMAIN s = 1..Len(s)
  OBVIOUS
<1> QED
  BY <1>1 DEF Orders, Bijection, Injection, Surjection, IsInjective, Reorders

\* _newOutputOrder finds the change output again.
LEMMA NewOrder ==
    ASSUME NEW t \in TxnType, NEW p \in Orders(t.outs)
    PROVE  LET u == _newOutputOrder(t, p) IN
           /\ u \in TxnType /\ u = [t EXCEPT !.outs = u.outs, !.changeIndex = u.changeIndex]
           /\ Amount(u.outs) = Amount(t.outs) /\ OutputsSize(u.outs) = OutputsSize(t.outs)
           /\ t.changeIndex = Undefined => u.changeIndex = Undefined
           /\ t.changeIndex # Undefined /\ t.changeIndex \in 1..Len(t.outs) =>
                /\ u.changeIndex \in 1..Len(u.outs)
                /\ u.outs[u.changeIndex] = t.outs[t.changeIndex]
<1> DEFINE u == _newOutputOrder(t, p)
           q == Permute(t.outs, p)
           x == t.outs[t.changeIndex]
           I == {i \in 1..Len(q) : q[i] = x}
           index == IF t.changeIndex = Undefined THEN Undefined
                    ELSE IF t.changeIndex \notin DOMAIN q THEN 1
                    ELSE IF I # {} THEN Min(I) ELSE 0
<1>1. t.outs \in Seq(Output)
  BY DEF TxnType
<1>2. Reorders(p, Len(t.outs)) /\ DOMAIN t.outs = 1..Len(t.outs) /\ Len(t.outs) \in Nat
  BY <1>1, OrdersReorder
<1>3. Amount(q) = Amount(t.outs) /\ OutputsSize(q) = OutputsSize(t.outs)
  BY <1>1, <1>2, OutputTotals
<1>4. /\ q \in Seq(Output) /\ Len(q) = Len(t.outs) /\ DOMAIN q = 1..Len(t.outs)
      /\ \A i \in 1..Len(t.outs) : q[i] = t.outs[p[i]]
  <2>1. \A i \in 1..Len(t.outs) : p[i] \in 1..Len(t.outs)
    BY <1>2 DEF Reorders
  <2>2. \A i \in 1..Len(t.outs) : t.outs[p[i]] \in Output
    BY <1>1, <2>1
  <2> QED
    BY <1>2, <2>2 DEF Permute
<1>5. u = [t EXCEPT !.outs = q, !.changeIndex = index]
  BY DEF _newOutputOrder, SelectInSeq
<1> HIDE DEF q
<1>6. I \subseteq Nat
  BY <1>4
<1>7. I # {} => Min(I) \in I
  BY <1>6, MinProperties
<1>8. index \in Int
  BY <1>6, <1>7 DEF Undefined
<1>9. ASSUME t.changeIndex # Undefined, t.changeIndex \in 1..Len(t.outs)
      PROVE  index \in 1..Len(q) /\ q[index] = x
  <2>1. PICK i \in 1..Len(t.outs) : p[i] = t.changeIndex
    BY <1>2, <1>9 DEF Reorders
  <2>2. i \in I
    BY <1>4, <2>1
  <2>3. index = Min(I) /\ Min(I) \in I
    BY <1>4, <1>7, <1>9, <2>2
  <2> HIDE DEF index
  <2> QED
    BY <2>3
<1> HIDE DEF index, u, I
<1>10. /\ u \in TxnType /\ u.outs = q /\ u.changeIndex = index
       /\ u = [t EXCEPT !.outs = u.outs, !.changeIndex = u.changeIndex]
  BY <1>4, <1>5, <1>8 DEF TxnType
<1>11. t.changeIndex = Undefined => index = Undefined
  BY DEF index
<1>12. /\ u \in TxnType /\ u = [t EXCEPT !.outs = u.outs, !.changeIndex = u.changeIndex]
       /\ Amount(u.outs) = Amount(t.outs) /\ OutputsSize(u.outs) = OutputsSize(t.outs)
       /\ t.changeIndex = Undefined => u.changeIndex = Undefined
       /\ t.changeIndex # Undefined /\ t.changeIndex \in 1..Len(t.outs) =>
            /\ u.changeIndex \in 1..Len(u.outs)
            /\ u.outs[u.changeIndex] = t.outs[t.changeIndex]
  BY <1>3, <1>9, <1>10, <1>11
<1> QED
  BY <1>12 DEF u

\* Every call that ends in _updateChangeOutput.
LEMMA RecomputeStep ==
    ASSUME TxnInv, NEW t \in TxnType, AmountsRight(t), Recompute(t), called' \in Nat
    PROVE  TxnInv'
<1>1. /\ txn' \in TxnType /\ AmountsRight(txn') /\ txn'.changeScript = t.changeScript
      /\ t.changeScript # "none" /\ AllSignable(txn') => ChangeRight(txn')
  BY UpdateRight DEF Recompute
<1>2. /\ readBack' = (readBack /\ t.changeScript = "none") /\ accepted' = FALSE
      /\ readBack \in BOOLEAN
  BY DEF Recompute, TxnInv, TxnTypeOK
<1>3. TxnTypeOK' /\ AmountsRight(txn)'
  BY <1>1, <1>2 DEF TxnTypeOK, AmountsRight, Amount
<1>4. ChangeKept'
  BY <1>1, <1>2 DEF ChangeKept
<1>5. AcceptedRight'
  BY <1>2 DEF AcceptedRight
<1> QED
  BY <1>3, <1>4, <1>5 DEF TxnInv

\* Every call that leaves the amounts, the sizes and the change output alone.
LEMMA BecomesStep ==
    ASSUME TxnInv, NEW u \in TxnType, AmountsRight(u), Becomes(u), called' \in Nat,
           u.changeScript # "none" /\ ~readBack /\ AllSignable(u) => ChangeRight(u)
    PROVE  TxnInv'
<1>1. txn' = u /\ readBack' = readBack /\ accepted' = FALSE /\ readBack \in BOOLEAN
  BY DEF Becomes, TxnInv, TxnTypeOK
<1>2. TxnTypeOK' /\ AmountsRight(txn)' /\ ChangeKept' /\ AcceptedRight'
  BY <1>1 DEF TxnTypeOK, ChangeKept, AcceptedRight
<1> QED
  BY <1>2 DEF TxnInv

\* The calls that add, remove or set something, and compute the change anew.
LEMMA ChangingCalls ==
    ASSUME TxnInv, called' \in Nat,
           \/ \E id \in 1 .. MaxIns, sats \in UtxoSats :
                 \E kind \in {"p2pkh", "p2pk", "other"} : from(id, kind, sats)
           \/ \E sats \in Payments : to(sats)
           \/ addData
           \/ clearOutputs
           \/ \E i \in DOMAIN txn.outs : removeOutput(i)
           \/ change
           \/ \E amount \in Fees : fee(amount) \/ feePerKb(amount) \/ feePerByte(amount)
           \/ \E i \in DOMAIN txn.ins : removeInput(i)
    PROVE  TxnInv'
<1>1. txn \in TxnType /\ AmountsRight(txn) /\ Undefined \in Int
  BY DEF TxnInv, TxnTypeOK, Undefined
<1>2. txn.ins \in Seq(Input) /\ txn.outs \in Seq(Output)
  BY <1>1 DEF TxnType
<1>3. UtxoSats \subseteq Nat /\ Payments \subseteq Nat /\ Fees \subseteq Nat /\ 1..MaxIns \subseteq Nat
  BY TransactionAssumption
<1>4. ASSUME NEW id \in 1 .. MaxIns, NEW sats \in UtxoSats,
             NEW kind \in {"p2pkh", "p2pk", "other"}, from(id, kind, sats)
      PROVE  TxnInv'
  <2> DEFINE in == [id |-> id, kind |-> kind, sats |-> sats,
                    sequence |-> "default", signed |-> FALSE]
             t == [txn EXCEPT !.ins = Append(@, in), !.inAmount = Undefined]
  <2>1. Recompute(t)
    BY <1>4 DEF from, _fromNonP2SH, uncheckedAddInput
  <2>2. in \in Input
    BY <1>3 DEF Input, Kinds
  <2> HIDE DEF in
  <2>3. Append(txn.ins, in) \in Seq(Input)
    BY <1>2, <2>2
  <2>4. t \in TxnType /\ t.inAmount = Undefined /\ t.outAmount = txn.outAmount /\ t.outs = txn.outs
    BY <1>1, <2>3 DEF TxnType
  <2> HIDE DEF t
  <2>5. AmountsRight(t)
    BY <1>1, <2>4 DEF AmountsRight
  <2> QED
    BY <2>1, <2>4, <2>5, RecomputeStep
<1>5. ASSUME NEW out \in Output, Recompute(_addOutput(txn, out)) PROVE TxnInv'
  <2> DEFINE t == _addOutput(txn, out)
  <2>1. Append(txn.outs, out) \in Seq(Output)
    BY <1>2
  <2>2. t \in TxnType /\ t.outAmount = Undefined /\ t.inAmount = txn.inAmount /\ t.ins = txn.ins
    BY <1>1, <2>1 DEF TxnType, _addOutput
  <2> HIDE DEF t
  <2>3. AmountsRight(t)
    BY <1>1, <2>2 DEF AmountsRight
  <2>4. Recompute(t)
    BY <1>5 DEF t
  <2> QED
    BY <2>2, <2>3, <2>4, RecomputeStep
<1>6. ASSUME NEW sats \in Payments, to(sats) PROVE TxnInv'
  <2>1. [to |-> "payee", sats |-> sats] \in Output
    BY <1>3 DEF Output
  <2> QED
    BY <1>5, <1>6, <2>1 DEF to, addOutput
<1>7. ASSUME addData PROVE TxnInv'
  <2>1. [to |-> "data", sats |-> 0] \in Output
    BY DEF Output
  <2> QED
    BY <1>5, <1>7, <2>1 DEF addData, addOutput
<1>8. ASSUME clearOutputs PROVE TxnInv'
  <2> DEFINE c == _clearSignatures(txn)
             t == [c EXCEPT !.outs = <<>>, !.outAmount = Undefined, !.changeIndex = Undefined]
  <2>1. c \in TxnType /\ c = [txn EXCEPT !.ins = c.ins] /\ Amount(c.ins) = Amount(txn.ins)
    BY <1>1, ClearFacts
  <2>2. Recompute(t)
    BY <1>8 DEF clearOutputs
  <2> HIDE DEF c
  <2>3. c.inAmount = txn.inAmount /\ <<>> \in Seq(Output)
    BY <1>1, <2>1 DEF TxnType
  <2>4. t \in TxnType /\ t.outAmount = Undefined /\ t.inAmount = c.inAmount /\ t.ins = c.ins
    BY <1>1, <2>1, <2>3 DEF TxnType
  <2> HIDE DEF t
  <2>5. AmountsRight(t)
    BY <1>1, <2>1, <2>3, <2>4 DEF AmountsRight
  <2> QED
    BY <2>2, <2>4, <2>5, RecomputeStep
<1>9. ASSUME NEW i \in DOMAIN txn.outs, removeOutput(i) PROVE TxnInv'
  <2> DEFINE s == RemoveAt(txn.outs, i)
             t == [txn EXCEPT !.outs = s, !.outAmount = Undefined]
  <2>1. s \in Seq(Output)
    BY <1>2, RemoveAtFacts
  <2>2. Recompute(t)
    BY <1>9 DEF removeOutput, _removeOutput
  <2> HIDE DEF s
  <2>3. t \in TxnType /\ t.outAmount = Undefined /\ t.inAmount = txn.inAmount /\ t.ins = txn.ins
    BY <1>1, <2>1 DEF TxnType
  <2> HIDE DEF t
  <2>4. AmountsRight(t)
    BY <1>1, <2>3 DEF AmountsRight
  <2> QED
    BY <2>2, <2>3, <2>4, RecomputeStep
<1>10. ASSUME change PROVE TxnInv'
  <2> DEFINE t == [txn EXCEPT !.changeScript = "change"]
  <2>1. /\ t \in TxnType /\ t.outAmount = txn.outAmount /\ t.inAmount = txn.inAmount
        /\ t.ins = txn.ins /\ t.outs = txn.outs
    BY <1>1 DEF TxnType
  <2>2. Recompute(t)
    BY <1>10 DEF change
  <2> HIDE DEF t
  <2>3. AmountsRight(t)
    BY <1>1, <2>1 DEF AmountsRight
  <2> QED
    BY <2>1, <2>2, <2>3, RecomputeStep
<1>11. ASSUME NEW amount \in Fees, fee(amount) \/ feePerKb(amount) \/ feePerByte(amount)
       PROVE  TxnInv'
  <2>1. amount \in Nat /\ amount \in Int
    BY <1>3
  <2>2. PICK t : /\ Recompute(t)
                 /\ t \in {[txn EXCEPT !.fee = amount], [txn EXCEPT !.feePerKb = amount],
                           [txn EXCEPT !.feePerByte = amount]}
    BY <1>11, Zenon DEF fee, feePerKb, feePerByte
  <2>3. /\ t \in TxnType /\ t.outAmount = txn.outAmount /\ t.inAmount = txn.inAmount
        /\ t.ins = txn.ins /\ t.outs = txn.outs
    BY <1>1, <2>1, <2>2 DEF TxnType
  <2>4. AmountsRight(t)
    BY <1>1, <2>3 DEF AmountsRight
  <2> QED
    BY <2>2, <2>3, <2>4, RecomputeStep
<1>12. ASSUME NEW i \in DOMAIN txn.ins, removeInput(i) PROVE TxnInv'
  <2> DEFINE s == RemoveAt(txn.ins, i)
             t == [txn EXCEPT !.ins = s, !.inAmount = Undefined]
  <2>1. s \in Seq(Input)
    BY <1>2, RemoveAtFacts
  <2>2. Recompute(t)
    BY <1>12 DEF removeInput
  <2> HIDE DEF s
  <2>3. t \in TxnType /\ t.outAmount = txn.outAmount /\ t.inAmount = Undefined /\ t.outs = txn.outs
    BY <1>1, <2>1 DEF TxnType
  <2> HIDE DEF t
  <2>4. AmountsRight(t)
    BY <1>1, <2>3 DEF AmountsRight
  <2> QED
    BY <2>2, <2>3, <2>4, RecomputeStep
<1> QED
  BY <1>4, <1>6, <1>7, <1>8, <1>9, <1>10, <1>11, <1>12

\* The calls that leave the change alone: orders, lock times, signatures.
LEMMA KeepingCalls ==
    ASSUME TxnInv, called' \in Nat,
           \/ sort
           \/ shuffleOutputs
           \/ \E time \in LockTimes : lockUntilDate(time) \/ lockUntilBlockHeight(time)
           \/ \E i \in DOMAIN txn.ins : sign(i)
           \/ \E i \in DOMAIN txn.outs, amount \in Fees : sweepInto(i, amount)
    PROVE  TxnInv'
<1>1. /\ txn \in TxnType /\ AmountsRight(txn) /\ Undefined \in Int
      /\ txn.changeScript # "none" /\ ~readBack /\ AllSignable(txn) => ChangeRight(txn)
  BY DEF TxnInv, TxnTypeOK, Undefined, ChangeKept
<1>2. /\ txn.ins \in Seq(Input) /\ txn.outs \in Seq(Output)
      /\ DOMAIN txn.ins = 1..Len(txn.ins) /\ Len(txn.ins) \in Nat
  BY <1>1 DEF TxnType
<1>3. ASSUME NEW u \in TxnType, Becomes(u), AmountsRight(u),
             Amount(u.ins) = Amount(txn.ins), Amount(u.outs) = Amount(txn.outs),
             OutputsSize(u.outs) = OutputsSize(txn.outs),
             AllSignable(u) => AllSignable(txn) /\ InputsSize(u.ins) = InputsSize(txn.ins),
             u.fee = txn.fee, u.changeScript = txn.changeScript,
             u.feePerKb = txn.feePerKb, u.feePerByte = txn.feePerByte,
             txn.changeIndex = Undefined => u.changeIndex = Undefined,
             txn.changeIndex # Undefined /\ txn.changeIndex \in 1..Len(txn.outs) =>
                /\ u.changeIndex \in 1..Len(u.outs)
                /\ u.outs[u.changeIndex] = txn.outs[txn.changeIndex]
      PROVE  TxnInv'
  <2>1. ASSUME u.changeScript # "none", ~readBack, AllSignable(u) PROVE ChangeRight(u)
    <3>1. ChangeRight(txn) /\ InputsSize(u.ins) = InputsSize(txn.ins)
      BY <1>1, <1>3, <2>1
    <3>2. IF txn.changeIndex = Undefined THEN u.changeIndex = Undefined
          ELSE /\ u.changeIndex \in 1..Len(u.outs)
               /\ u.outs[u.changeIndex] = txn.outs[txn.changeIndex]
      BY <1>3, <3>1 DEF ChangeRight
    <3> QED
      BY <1>1, <1>3, <3>1, <3>2, ChangeCarried
  <2> QED
    BY <1>3, <2>1, BecomesStep
<1>4. ASSUME sort PROVE TxnInv'
  <2>1. PICK q \in Orders(txn.ins), p \in Orders(txn.outs) :
            Becomes(_newOutputOrder(_clearSignatures([txn EXCEPT !.ins = Permute(@, q)]), p))
    BY <1>4 DEF sort
  <2> DEFINE s == Permute(txn.ins, q)
             d == [txn EXCEPT !.ins = s]
             c == _clearSignatures(d)
             u == _newOutputOrder(c, p)
  <2>2. Reorders(q, Len(txn.ins))
    BY <1>2, OrdersReorder
  <2>3. /\ s \in Seq(Input) /\ DOMAIN s = 1..Len(txn.ins)
        /\ \A i \in 1..Len(txn.ins) : s[i] = txn.ins[q[i]]
    <3>1. \A i \in 1..Len(txn.ins) : q[i] \in 1..Len(txn.ins)
      BY <2>2 DEF Reorders
    <3>2. \A i \in 1..Len(txn.ins) : txn.ins[q[i]] \in Input
      BY <1>2, <3>1
    <3> QED
      BY <1>2, <3>2 DEF Permute
  <2>4. Amount(s) = Amount(txn.ins) /\ InputsSize(s) = InputsSize(txn.ins)
    BY <1>2, <2>2, InputTotals
  <2> HIDE DEF s
  <2>5. /\ d \in TxnType /\ d.ins = s /\ d = [txn EXCEPT !.ins = d.ins]
    BY <1>1, <2>3 DEF TxnType
  <2> HIDE DEF d
  <2>6. AllSignable(d) => AllSignable(txn)
    <3> SUFFICES ASSUME \A i \in 1..Len(txn.ins) : Signable(s[i]),
                        NEW k \in 1..Len(txn.ins)
                 PROVE  Signable(txn.ins[k])
      BY <1>2, <2>3, <2>5 DEF AllSignable
    <3>1. PICK i \in 1..Len(txn.ins) : q[i] = k
      BY <2>2 DEF Reorders
    <3> QED
      BY <2>3, <3>1
  <2>7. /\ c \in TxnType /\ c = [d EXCEPT !.ins = c.ins]
        /\ Amount(c.ins) = Amount(d.ins)
        /\ AllSignable(c) <=> AllSignable(d)
        /\ AllSignable(d) => InputsSize(c.ins) = InputsSize(d.ins)
    BY <2>5, ClearFacts
  <2> HIDE DEF c
  <2>8. c.outs = txn.outs /\ c.changeIndex = txn.changeIndex
    BY <1>1, <2>5, <2>7 DEF TxnType
  <2>9. /\ u \in TxnType /\ u = [c EXCEPT !.outs = u.outs, !.changeIndex = u.changeIndex]
        /\ Amount(u.outs) = Amount(c.outs) /\ OutputsSize(u.outs) = OutputsSize(c.outs)
        /\ c.changeIndex = Undefined => u.changeIndex = Undefined
        /\ c.changeIndex # Undefined /\ c.changeIndex \in 1..Len(c.outs) =>
             /\ u.changeIndex \in 1..Len(u.outs)
             /\ u.outs[u.changeIndex] = c.outs[c.changeIndex]
    BY <2>7, <2>8, NewOrder
  <2>10. Becomes(u)
    BY <2>1 DEF u, c, d, s
  <2> HIDE DEF u
  <2>11. /\ u.ins = c.ins /\ u.inAmount = txn.inAmount /\ u.outAmount = txn.outAmount
         /\ u.fee = txn.fee /\ u.changeScript = txn.changeScript
         /\ u.feePerKb = txn.feePerKb /\ u.feePerByte = txn.feePerByte
    <3>1. /\ d.inAmount = txn.inAmount /\ d.outAmount = txn.outAmount
          /\ d.fee = txn.fee /\ d.changeScript = txn.changeScript
          /\ d.feePerKb = txn.feePerKb /\ d.feePerByte = txn.feePerByte
      BY <1>1, <2>5 DEF TxnType
    <3>2. /\ c.inAmount = d.inAmount /\ c.outAmount = d.outAmount
          /\ c.fee = d.fee /\ c.changeScript = d.changeScript
          /\ c.feePerKb = d.feePerKb /\ c.feePerByte = d.feePerByte
      BY <2>5, <2>7 DEF TxnType
    <3>3. /\ u.inAmount = c.inAmount /\ u.outAmount = c.outAmount
          /\ u.fee = c.fee /\ u.changeScript = c.changeScript /\ u.ins = c.ins
          /\ u.feePerKb = c.feePerKb /\ u.feePerByte = c.feePerByte
      BY <2>7, <2>9 DEF TxnType
    <3> QED
      BY <3>1, <3>2, <3>3
  <2>12. Amount(u.ins) = Amount(txn.ins) /\ Amount(u.outs) = Amount(txn.outs)
    BY <2>4, <2>5, <2>7, <2>8, <2>9, <2>11
  <2>13. AmountsRight(u)
    BY <1>1, <2>11, <2>12 DEF AmountsRight
  <2>14. AllSignable(u) => AllSignable(txn) /\ InputsSize(u.ins) = InputsSize(txn.ins)
    <3>1. AllSignable(u) <=> AllSignable(c)
      BY <2>11 DEF AllSignable
    <3> QED
      BY <2>4, <2>5, <2>6, <2>7, <2>11, <3>1
  <2> QED
    BY <1>3, <2>8, <2>9, <2>10, <2>11, <2>12, <2>13, <2>14
<1>5. ASSUME shuffleOutputs PROVE TxnInv'
  <2>1. PICK p \in Orders(txn.outs) : Becomes(_newOutputOrder(txn, p))
    BY <1>5 DEF shuffleOutputs
  <2> DEFINE u == _newOutputOrder(txn, p)
  <2>2. /\ u \in TxnType /\ u = [txn EXCEPT !.outs = u.outs, !.changeIndex = u.changeIndex]
        /\ Amount(u.outs) = Amount(txn.outs) /\ OutputsSize(u.outs) = OutputsSize(txn.outs)
        /\ txn.changeIndex = Undefined => u.changeIndex = Undefined
        /\ txn.changeIndex # Undefined /\ txn.changeIndex \in 1..Len(txn.outs) =>
             /\ u.changeIndex \in 1..Len(u.outs)
             /\ u.outs[u.changeIndex] = txn.outs[txn.changeIndex]
    BY <1>1, NewOrder
  <2>3. Becomes(u)
    BY <2>1
  <2> HIDE DEF u
  <2>4. /\ u.ins = txn.ins /\ u.inAmount = txn.inAmount /\ u.outAmount = txn.outAmount
        /\ u.fee = txn.fee /\ u.changeScript = txn.changeScript
        /\ u.feePerKb = txn.feePerKb /\ u.feePerByte = txn.feePerByte
    BY <1>1, <2>2 DEF TxnType
  <2>5. AmountsRight(u)
    BY <1>1, <2>2, <2>4 DEF AmountsRight
  <2>6. AllSignable(u) => AllSignable(txn) /\ InputsSize(u.ins) = InputsSize(txn.ins)
    BY <2>4 DEF AllSignable
  <2> QED
    BY <1>3, <2>2, <2>3, <2>4, <2>5, <2>6
<1>6. ASSUME NEW s \in Seq(Input), NEW u \in TxnType, Becomes(u),
             DOMAIN s = DOMAIN txn.ins,
             \A i \in DOMAIN txn.ins : s[i].sats = txn.ins[i].sats /\ s[i].kind = txn.ins[i].kind,
             u = [txn EXCEPT !.ins = s, !.nLockTime = u.nLockTime]
      PROVE  TxnInv'
  <2>1. /\ u.ins = s /\ u.outs = txn.outs /\ u.changeIndex = txn.changeIndex
        /\ u.inAmount = txn.inAmount /\ u.outAmount = txn.outAmount
        /\ u.fee = txn.fee /\ u.changeScript = txn.changeScript
        /\ u.feePerKb = txn.feePerKb /\ u.feePerByte = txn.feePerByte
    BY <1>1, <1>6 DEF TxnType
  <2>2. Amount(u.ins) = Amount(txn.ins) /\ (AllSignable(txn) => InputsSize(u.ins) = InputsSize(txn.ins))
    <3>1. /\ Amount(s) = Amount(txn.ins)
          /\ (\A i \in DOMAIN txn.ins : Signable(txn.ins[i])) => InputsSize(s) = InputsSize(txn.ins)
      BY <1>2, <1>6, InputTotals
    <3> QED
      BY <2>1, <3>1 DEF AllSignable
  <2>3. AllSignable(u) => AllSignable(txn)
    BY <1>6, <2>1 DEF AllSignable, Signable
  <2>4. AmountsRight(u)
    BY <1>1, <2>1, <2>2 DEF AmountsRight
  <2> QED
    BY <1>3, <1>6, <2>1, <2>2, <2>3, <2>4
<1>7. ASSUME NEW time \in LockTimes, lockUntilDate(time) \/ lockUntilBlockHeight(time)
      PROVE  TxnInv'
  <2> DEFINE s == [i \in DOMAIN txn.ins |-> Locked(txn.ins[i])]
             u == LockTime(txn, time)
  <2>1. ASSUME NEW i \in DOMAIN txn.ins
        PROVE  s[i] \in Input /\ s[i].sats = txn.ins[i].sats /\ s[i].kind = txn.ins[i].kind
    <3>1. txn.ins[i] \in Input
      BY <1>2
    <3> QED
      BY <3>1 DEF Input, Locked
  <2>2. s \in Seq(Input) /\ DOMAIN s = DOMAIN txn.ins
    <3>1. DOMAIN s = 1..Len(txn.ins) /\ s \in [1..Len(txn.ins) -> Input]
      BY <1>2, <2>1
    <3> HIDE DEF s
    <3> QED
      BY <1>2, <3>1
  <2>3. Becomes(u)
    BY <1>7 DEF lockUntilDate, lockUntilBlockHeight
  <2>4. u = [txn EXCEPT !.ins = s, !.nLockTime = time]
    BY DEF LockTime
  <2> HIDE DEF s, u
  <2>5. time \in Nat
    BY SMT DEF LockTimes, NLOCKTIME_BLOCKHEIGHT_LIMIT
  <2>6. u \in TxnType /\ u = [txn EXCEPT !.ins = s, !.nLockTime = u.nLockTime]
    BY <1>1, <2>2, <2>4, <2>5 DEF TxnType
  <2> QED
    BY <1>6, <2>1, <2>2, <2>3, <2>6
<1>8. ASSUME NEW i \in DOMAIN txn.ins, sign(i) PROVE TxnInv'
  <2> DEFINE s == [txn.ins EXCEPT ![i] = [txn.ins[i] EXCEPT !.signed = TRUE]]
             u == [txn EXCEPT !.ins = s]
  <2>1. txn.ins[i] \in Input
    BY <1>2
  <2>2. LET x == [txn.ins[i] EXCEPT !.signed = TRUE] IN
        x \in Input /\ x.sats = txn.ins[i].sats /\ x.kind = txn.ins[i].kind
    BY <2>1 DEF Input
  <2>3. /\ s \in Seq(Input) /\ DOMAIN s = DOMAIN txn.ins
        /\ \A k \in DOMAIN txn.ins : s[k].sats = txn.ins[k].sats /\ s[k].kind = txn.ins[k].kind
    BY <1>2, <2>2
  <2>4. Becomes(u)
    BY <1>8 DEF sign, applySignature
  <2> HIDE DEF s
  <2>5. u \in TxnType /\ u = [txn EXCEPT !.ins = s, !.nLockTime = u.nLockTime]
    BY <1>1, <2>3 DEF TxnType
  <2> HIDE DEF u
  <2> QED
    BY <1>6, <2>3, <2>4, <2>5
<1>9. ASSUME NEW i \in DOMAIN txn.outs, NEW amount \in Fees, sweepInto(i, amount) PROVE TxnInv'
  <2> DEFINE t == WithAmounts(txn)
             rest == _getUnspentValue(t) - amount
             x == [t.outs[i] EXCEPT !.sats = @ + rest]
             s == [t.outs EXCEPT ![i] = x]
             u == [t EXCEPT !.outs = s, !.outAmount = t.outAmount + rest]
  <2>1. /\ txn.changeScript = "none" /\ KnowsInputs(txn)
        /\ t.outs[i].sats + rest >= 0 /\ Becomes(u)
    BY <1>9 DEF sweepInto
  <2>2. t = [txn EXCEPT !.inAmount = Amount(txn.ins), !.outAmount = Amount(txn.outs)]
    BY <1>1, <2>1, FeeComputed
  <2>3. Amount(txn.ins) \in Int /\ Amount(txn.outs) \in Int /\ amount \in Int
    BY <1>1, SizeParts, TransactionAssumption
  <2> HIDE DEF t
  <2>4. /\ t \in TxnType /\ t.ins = txn.ins /\ t.outs = txn.outs
        /\ t.inAmount = Amount(txn.ins) /\ t.outAmount = Amount(txn.outs)
        /\ t.changeScript = txn.changeScript
    BY <1>1, <2>2, <2>3 DEF TxnType
  <2>5. AmountsRight(t) /\ KnowsInputs(t)
    BY <2>1, <2>4 DEF AmountsRight, KnowsInputs
  <2>6. rest \in Int
    <3>1. _getUnspentValue(t) = Rest(t) /\ Rest(t) \in Int
      BY <2>4, <2>5, FeeComputed, SizeParts
    <3> QED
      BY <2>3, <3>1
  <2> HIDE DEF rest
  <2>7. t.outs[i] \in Output /\ i \in 1..Len(t.outs) /\ t.outs \in Seq(Output)
    BY <1>2, <2>4
  <2>8. x \in Output /\ x.sats = t.outs[i].sats + rest /\ t.outs[i].sats \in Int
    BY <2>1, <2>6, <2>7 DEF Output
  <2> HIDE DEF x
  <2>9. s \in Seq(Output) /\ Amount(s) = Amount(t.outs) - t.outs[i].sats + x.sats
    BY <2>7, <2>8, OutputTotals
  <2> HIDE DEF s
  <2>10. Amount(s) = t.outAmount + rest /\ t.outAmount + rest \in Int
    BY <2>3, <2>4, <2>6, <2>8, <2>9
  <2>11. /\ u \in TxnType /\ u.ins = t.ins /\ u.outs = s /\ u.inAmount = t.inAmount
         /\ u.outAmount = t.outAmount + rest /\ u.changeScript = t.changeScript
    BY <2>4, <2>9, <2>10 DEF TxnType
  <2> HIDE DEF u
  <2>12. AmountsRight(u)
    BY <2>4, <2>10, <2>11 DEF AmountsRight
  <2> QED
    BY <2>1, <2>4, <2>11, <2>12, BecomesStep
<1> QED
  BY <1>4, <1>5, <1>7, <1>8, <1>9

\* checkedSerialize, and a transaction read back from an object or from bytes.
LEMMA SerializingCalls ==
    ASSUME TxnInv, called' \in Nat, checkedSerialize \/ fromObject \/ shallowCopy
    PROVE  TxnInv'
<1>1. /\ txn \in TxnType /\ AmountsRight(txn) /\ ChangeKept
      /\ readBack \in BOOLEAN /\ Undefined \in Int
  BY DEF TxnInv, TxnTypeOK, Undefined
<1>2. /\ txn.ins \in Seq(Input) /\ txn.outs \in Seq(Output)
      /\ DOMAIN txn.ins = 1..Len(txn.ins) /\ Len(txn.ins) \in Nat
  BY <1>1 DEF TxnType
<1>3. ASSUME checkedSerialize PROVE TxnInv'
  <2>1. /\ KnowsInputs(txn) /\ txn' = WithAmounts(txn) /\ readBack' = readBack
        /\ accepted' = ~getSerializationError(txn)
    BY <1>3 DEF checkedSerialize
  <2>2. /\ txn' = [txn EXCEPT !.inAmount = Amount(txn.ins), !.outAmount = Amount(txn.outs)]
        /\ _getUnspentValue(txn) = Rest(txn)
    BY <1>1, <2>1, FeeComputed
  <2>3. Amount(txn.ins) \in Int /\ Amount(txn.outs) \in Int /\ Rest(txn) \in Int
    BY <1>1, SizeParts
  <2>4. /\ txn' \in TxnType /\ txn'.ins = txn.ins /\ txn'.outs = txn.outs
        /\ txn'.inAmount = Amount(txn.ins) /\ txn'.outAmount = Amount(txn.outs)
        /\ txn'.fee = txn.fee /\ txn'.changeScript = txn.changeScript
        /\ txn'.feePerKb = txn.feePerKb /\ txn'.feePerByte = txn.feePerByte
        /\ txn'.changeIndex = txn.changeIndex
    BY <1>1, <2>2, <2>3 DEF TxnType
  <2>5. AmountsRight(txn')
    BY <2>4 DEF AmountsRight
  <2>6. TxnTypeOK'
    BY <1>1, <2>1, <2>4 DEF TxnTypeOK
  <2>7. ChangeKept'
    <3> SUFFICES ASSUME txn'.changeScript # "none", ~readBack', AllSignable(txn')
                 PROVE  ChangeRight(txn')
      BY DEF ChangeKept
    <3>1. ChangeRight(txn)
      BY <1>1, <2>1, <2>4 DEF ChangeKept, AllSignable
    <3>2. IF txn.changeIndex = Undefined THEN txn'.changeIndex = Undefined
          ELSE /\ txn'.changeIndex \in 1..Len(txn'.outs)
               /\ txn'.outs[txn'.changeIndex] = txn.outs[txn.changeIndex]
      BY <2>4, <3>1 DEF ChangeRight
    <3> QED
      BY <1>1, <2>4, <3>1, <3>2, ChangeCarried
  <2>8. AcceptedRight'
    <3> SUFFICES ASSUME ~getSerializationError(txn)
                 PROVE  /\ Rest(txn') >= 0 /\ txn'.fee \in {Undefined, Rest(txn')}
                        /\ ~_hasDustOutputs(txn') /\ isFullySigned(txn')
      BY <2>1 DEF AcceptedRight
    <3>1. /\ ~(Rest(txn) < 0) /\ (txn.fee = Undefined \/ txn.fee = Rest(txn))
          /\ ~_hasDustOutputs(txn) /\ isFullySigned(txn)
      BY <2>2 DEF getSerializationError, _hasFeeError
    <3>2. /\ Rest(txn') = Rest(txn)
          /\ _hasDustOutputs(txn') <=> _hasDustOutputs(txn)
          /\ isFullySigned(txn') <=> isFullySigned(txn)
      BY <2>4 DEF Rest, _hasDustOutputs, isFullySigned
    <3> QED
      BY <2>3, <2>4, <3>1, <3>2
  <2> QED
    BY <2>5, <2>6, <2>7, <2>8 DEF TxnInv
<1>4. ASSUME txn' \in TxnType, txn'.inAmount = Undefined, txn'.outAmount = Undefined,
             readBack' = TRUE, accepted' = FALSE
      PROVE  TxnInv'
  <2>1. AmountsRight(txn')
    BY <1>4 DEF AmountsRight
  <2>2. TxnTypeOK' /\ ChangeKept' /\ AcceptedRight'
    BY <1>4 DEF TxnTypeOK, ChangeKept, AcceptedRight
  <2> QED
    BY <2>1, <2>2 DEF TxnInv
<1>5. ASSUME fromObject PROVE TxnInv'
  <2> DEFINE o == toObject(txn)
             index == IF o.changeIndex = 1 THEN Undefined ELSE o.changeIndex
             amount == IF o.fee = 0 THEN Undefined ELSE o.fee
  <2>1. o \in TxnType /\ o.inAmount = Undefined /\ o.outAmount = Undefined
    BY <1>1 DEF toObject, TxnType
  <2>2. /\ txn' = [o EXCEPT !.changeIndex = index, !.fee = amount]
        /\ readBack' = TRUE /\ accepted' = FALSE
    <3>1. /\ txn' = [o EXCEPT !.changeIndex = IF @ = 1 THEN Undefined ELSE @,
                              !.fee = IF @ = 0 THEN Undefined ELSE @]
          /\ readBack' = TRUE /\ accepted' = FALSE
      BY <1>5 DEF fromObject
    <3> HIDE DEF o
    <3> QED
      BY <2>1, <3>1 DEF TxnType
  <2> HIDE DEF o
  <2>3. index \in Int /\ amount \in Int
    BY <1>1, <2>1 DEF TxnType
  <2> HIDE DEF index, amount
  <2>4. txn' \in TxnType /\ txn'.inAmount = Undefined /\ txn'.outAmount = Undefined
    BY <2>1, <2>2, <2>3 DEF TxnType
  <2> QED
    BY <1>4, <2>2, <2>4
<1>6. ASSUME shallowCopy PROVE TxnInv'
  <2> DEFINE s == [i \in DOMAIN txn.ins |-> [txn.ins[i] EXCEPT !.kind = "bare", !.sats = 0]]
  <2>1. /\ txn' = [NewTransaction EXCEPT !.ins = s, !.outs = txn.outs, !.nLockTime = txn.nLockTime]
        /\ readBack' = TRUE /\ accepted' = FALSE
    BY <1>6 DEF shallowCopy, fromBuffer, toBuffer
  <2>2. s \in Seq(Input)
    <3>1. ASSUME NEW i \in 1..Len(txn.ins) PROVE s[i] \in Input
      <4> DEFINE x == txn.ins[i]
      <4>1. x \in Input
        BY <1>2
      <4>2. s[i] = [x EXCEPT !.kind = "bare", !.sats = 0]
        BY <1>2
      <4> HIDE DEF x
      <4>3. [x EXCEPT !.kind = "bare", !.sats = 0] \in Input
        BY <4>1 DEF Input, Kinds
      <4> QED
        BY <4>2, <4>3
    <3>2. DOMAIN s = 1..Len(txn.ins) /\ s = [i \in 1..Len(txn.ins) |-> s[i]]
      BY <1>2
    <3> HIDE DEF s
    <3> QED
      BY <1>2, <3>1, <3>2
  <2> HIDE DEF s
  <2>3. txn.nLockTime \in Nat
    BY <1>1 DEF TxnType
  <2>4. /\ NewTransaction \in TxnType /\ NewTransaction.inAmount = Undefined
        /\ NewTransaction.outAmount = Undefined
    BY <1>1 DEF NewTransaction, TxnType
  <2>5. txn' \in TxnType /\ txn'.inAmount = Undefined /\ txn'.outAmount = Undefined
    BY <1>2, <2>1, <2>2, <2>3, <2>4 DEF TxnType
  <2> QED
    BY <1>4, <2>1, <2>5
<1> QED
  BY <1>3, <1>5, <1>6

\* The invariant of the transaction object is inductive.
THEOREM TxnInvariant == TxnSpec => []TxnInv
<1>1. TxnInit => TxnInv
  <2> SUFFICES ASSUME TxnInit PROVE TxnInv
    OBVIOUS
  <2>1. txn = NewTransaction /\ readBack = FALSE /\ accepted = FALSE /\ called = 0
    BY DEF TxnInit
  <2>2. /\ txn \in TxnType /\ txn.inAmount = Undefined /\ txn.outAmount = Undefined
        /\ txn.changeScript = "none"
    <3>1. <<>> \in Seq(Input) /\ <<>> \in Seq(Output) /\ Undefined \in Int
      BY DEF Undefined
    <3> QED
      BY <2>1, <3>1 DEF NewTransaction, TxnType
  <2> QED
    BY <2>1, <2>2 DEF TxnInv, TxnTypeOK, AmountsRight, ChangeKept, AcceptedRight
<1>2. TxnInv /\ [TxnNext]_txnVars => TxnInv'
  <2> SUFFICES ASSUME TxnInv, [TxnNext]_txnVars PROVE TxnInv'
    OBVIOUS
  <2>1. CASE TxnNext
    <3>1. called' \in Nat /\ Call
      BY <2>1 DEF TxnNext, TxnInv, TxnTypeOK
    <3> QED
      BY <3>1, ChangingCalls, KeepingCalls, SerializingCalls DEF Call
  <2>2. CASE UNCHANGED txnVars
    BY <2>2 DEF txnVars, TxnInv, TxnTypeOK, ChangeKept, AcceptedRight, AmountsRight,
                AllSignable, isFullySigned, _hasDustOutputs
  <2> QED
    BY <2>1, <2>2
<1> QED
  BY <1>1, <1>2, PTL DEF TxnSpec

\* The transaction object has its type after any calls.
THEOREM TxnTypeCorrect == TxnSpec => []TxnTypeOK
<1>1. TxnInv => TxnTypeOK
  BY DEF TxnInv
<1> QED
  BY <1>1, TxnInvariant, PTL

\* After any sequence of calls on a transaction its amounts and its change are
\* up to date, and what checkedSerialize lets pass is right, for every number
\* of inputs and outputs and for all amounts, fees and rates.
THEOREM ChangeTheorem == TxnSpec => []ChangeUpToDate
<1>1. TxnInv => ChangeUpToDate
  <2> SUFFICES ASSUME TxnInv PROVE ChangeUpToDate
    OBVIOUS
  <2>1. txn \in TxnType /\ AmountsRight(txn) /\ ChangeKept /\ AcceptedRight
    BY DEF TxnInv, TxnTypeOK
  <2>2. ASSUME txn.changeScript # "none", ~readBack, \A i \in DOMAIN txn.ins : Signable(txn.ins[i])
        PROVE  IF txn.changeIndex = Undefined
               THEN Rest(txn) - getFee(txn) < DUST_AMOUNT
               ELSE /\ txn.outs[txn.changeIndex].to = txn.changeScript
                    /\ Rest(txn) = getFee(WithoutChange(txn))
    <3>1. ChangeRight(txn) /\ KnowsInputs(txn)
      BY <2>1, <2>2 DEF ChangeKept, AllSignable, KnowsInputs, Signable
    <3>2. CASE txn.changeIndex = Undefined
      <4>1. getFee(txn) = FeeFor(txn, estimateSize(txn), Rest(txn))
        BY <2>1, <3>1, FeeComputed
      <4> QED
        BY <3>1, <3>2, <4>1 DEF ChangeRight
    <3>3. CASE txn.changeIndex # Undefined
      <4> DEFINE o == txn.outs[txn.changeIndex]
                 s == RemoveAt(txn.outs, txn.changeIndex)
                 u == WithoutChange(txn)
      <4>1. /\ txn.changeIndex \in 1..Len(txn.outs) /\ o.to = txn.changeScript
            /\ Rest(txn) = FeeFor(txn, estimateSize(txn) - OutputSize(o), Rest(txn) + o.sats)
        BY <3>1, <3>3 DEF ChangeRight
      <4>2. txn.outs \in Seq(Output) /\ txn.changeIndex \in DOMAIN txn.outs
        BY <2>1, <4>1 DEF TxnType
      <4>3. s \in Seq(Output) /\ o \in Output
        BY <4>1, <4>2, RemoveAtFacts
      <4>4. /\ Amount(s) = Amount(txn.outs) - o.sats
            /\ OutputsSize(s) = OutputsSize(txn.outs) - OutputSize(o)
        BY <4>1, <4>2, OutputTotals
      <4>5. u = [[txn EXCEPT !.outs = s, !.outAmount = Undefined] EXCEPT !.inAmount = Undefined]
        BY <3>3, <4>2 DEF WithoutChange, _removeOutput
      <4> HIDE DEF s, u, o
      <4>6. /\ u \in TxnType /\ u.ins = txn.ins /\ u.outs = s
            /\ u.inAmount = Undefined /\ u.outAmount = Undefined
            /\ u.fee = txn.fee /\ u.changeScript = txn.changeScript
            /\ u.feePerKb = txn.feePerKb /\ u.feePerByte = txn.feePerByte
        <5>1. Undefined \in Int
          BY DEF Undefined
        <5> QED
          BY <2>1, <4>3, <4>5, <5>1 DEF TxnType
      <4>7. AmountsRight(u) /\ KnowsInputs(u)
        BY <3>1, <4>6 DEF AmountsRight, KnowsInputs
      <4>8. getFee(u) = FeeFor(u, estimateSize(u), Rest(u))
        BY <4>6, <4>7, FeeComputed
      <4>9. /\ estimateSize(u) = estimateSize(txn) - OutputSize(o)
            /\ Rest(u) = Rest(txn) + o.sats
            /\ estimateSize(u) \in Int /\ Rest(u) \in Int
        <5>1. /\ estimateSize(u) = MAXIMUM_EXTRA_SIZE + InputsSize(u.ins) + OutputsSize(u.outs)
              /\ Rest(u) = Amount(u.ins) - Amount(u.outs)
              /\ estimateSize(u) \in Int /\ Rest(u) \in Int
          BY <4>6, SizeParts
        <5>2. /\ estimateSize(txn) = MAXIMUM_EXTRA_SIZE + InputsSize(txn.ins) + OutputsSize(txn.outs)
              /\ Rest(txn) = Amount(txn.ins) - Amount(txn.outs)
              /\ Amount(txn.outs) \in Int /\ OutputsSize(txn.outs) \in Int
              /\ Amount(txn.ins) \in Int /\ InputsSize(txn.ins) \in Int
          BY <2>1, SizeParts
        <5>3. OutputSize(o) \in Int /\ o.sats \in Int
          BY <4>3 DEF OutputSize, ScriptSize, Output
        <5>4. u.ins = txn.ins /\ u.outs = s
          BY <4>6
        <5> QED
          BY <4>4, <5>1, <5>2, <5>3, <5>4 DEF MAXIMUM_EXTRA_SIZE
      <4>10. FeeFor(u, estimateSize(u), Rest(u)) = FeeFor(txn, estimateSize(u), Rest(u))
        BY <2>1, <4>6, <4>9, FeeForType
      <4>11. o.to = txn.changeScript /\ Rest(txn) = getFee(u)
        BY <4>1, <4>8, <4>9, <4>10
      <4> QED
        BY <3>3, <4>11 DEF u, o
    <3> QED
      BY <3>2, <3>3
  <2>3. /\ txn.inAmount # Undefined => txn.inAmount = Amount(txn.ins)
        /\ txn.outAmount # Undefined => txn.outAmount = Amount(txn.outs)
    BY <2>1 DEF AmountsRight
  <2> QED
    BY <2>1, <2>2, <2>3 DEF ChangeUpToDate, AcceptedRight
<1> QED
  BY <1>1, TxnInvariant, PTL

-----------------------------------------------------------------------------
(* Transactions of a set.                                                  *)

Paid == [to : {"payee", "change"}, sats : Int]
OneTx == [ins : Seq(Nat), outs : Seq(Paid)]
PaidTx == [ins : Seq(Nat), outs : Seq(Paid), vout : Int]

CoinTypeOK ==
    /\ mode \in {"none", "set", "single"}
    /\ asked \in Seq(Nat) /\ coins \in Seq(Nat) /\ left \in Nat
    /\ tx \in OneTx
    /\ keys \in Nat /\ skip \in Int
    /\ bundle \in Seq(PaidTx)
    /\ phase \in {"idle", "staging", "picking", "change", "sweep", "shuffle",
                  "done", "thrown"}

\* What the payees of the finished transactions get.
Payees(b) == [k \in DOMAIN b |-> b[k].outs[b[k].vout].sats]

\* The first output is the payee's, the others are change of at least low.
PayeeFirst(outs, low) ==
    /\ outs # <<>> /\ outs[1].to = "payee"
    /\ \A i \in 2..Len(outs) : outs[i].to = "change" /\ outs[i].sats >= low

\* The fee pays for every byte but one for each output.
FeeEnough(t) == Fee(t) >= _estimateSize(t) * minFeePerByte - minFeePerByte
FeeSmall(t) == Fee(t) < (_estimateSize(t) + standardUtxoSize) * minFeePerByte
                        + minimumNewInputAmount

\* A transaction of the bundle.
Built(t) ==
    /\ t.vout \in DOMAIN t.outs
    /\ \A i \in DOMAIN t.outs : (t.outs[i].to = "payee") <=> (i = t.vout)
    /\ \A i \in DOMAIN t.outs :
         t.outs[i].to = "change" => t.outs[i].sats >= dustLimit - minFeePerByte
    /\ FeeEnough(t) /\ FeeSmall(t)

\* What a call of constructTransactionSet has done so far: the payees of the
\* bundle and of tx have what is not left.
SetSoFar ==
    mode = "set" =>
      /\ Len(asked) = 1
      /\ \A k \in DOMAIN bundle : Built(bundle[k])
      /\ phase \in {"staging", "change", "sweep", "shuffle", "done", "thrown"}
      /\ phase = "staging" => tx.outs = <<>> /\ Total(Payees(bundle)) + left = asked[1]
      /\ phase \in {"change", "sweep", "shuffle"} =>
           /\ Total(Payees(bundle)) + tx.outs[1].sats + left = asked[1]
           /\ FeeEnough(tx)
      /\ phase \in {"change", "sweep"} => PayeeFirst(tx.outs, dustLimit) /\ skip >= 0
      /\ phase = "shuffle" => PayeeFirst(tx.outs, dustLimit - minFeePerByte) /\ FeeSmall(tx)
      /\ phase = "done" => Total(Payees(bundle)) = asked[1]

CoinInv ==
    /\ CoinTypeOK /\ SetSoFar
    /\ phase = "staging" => mode = "set"
    /\ phase = "picking" => mode = "single"
    /\ phase = "idle" => tx = NoTx /\ bundle = <<>>
    /\ phase \in {"picking", "change", "sweep", "shuffle"} => tx.outs # <<>>

\* The largest of some places of a sequence.
LEMMA MaxPlace ==
    ASSUME NEW n \in Nat, NEW S, S \subseteq 1..n, S # {}
    PROVE  Max(S) \in S
<1> DEFINE U == {u \in Nat : \A y \in S : y <= u}
<1>1. n \in U /\ U \subseteq Nat
  OBVIOUS
<1>2. PICK u \in U : \A w \in U : u <= w
  <2>1. U # {} /\ U \subseteq Nat
    BY <1>1
  <2> HIDE DEF U
  <2> QED
    BY <2>1, MinProperties
<1>3. u \in S
  <2> SUFFICES ASSUME u \notin S PROVE FALSE
    OBVIOUS
  <2>1. PICK y \in S : TRUE
    OBVIOUS
  <2>2. y \in Nat /\ y >= 1 /\ y <= u
    BY <1>2, <2>1
  <2>3. u - 1 \in Nat
    BY <1>2, <2>2
  <2>4. \A z \in S : z <= u - 1
    BY <1>2
  <2>5. u - 1 \in U
    BY <2>3, <2>4
  <2> QED
    BY <1>2, <2>5
<1>4. \A y \in S : u >= y
  BY <1>2
<1>5. \E x \in S : \A y \in S : x >= y
  BY <1>3, <1>4
<1> QED
  BY <1>5, Zenon DEF Max

\* Two places of an order are exchanged.
LEMMA SwapOrder ==
    ASSUME NEW n \in Nat, NEW p, Reorders(p, n), NEW i \in 1..n, NEW j \in 1..n,
           NEW s
    PROVE  /\ Reorders(Swapped(p, i, j), n)
           /\ Swapped([l \in 1..n |-> s[p[l]]], i, j) = [l \in 1..n |-> s[Swapped(p, i, j)[l]]]
<1> DEFINE q == Swapped(p, i, j)
<1>1. p \in [1..n -> 1..n]
  BY DEF Reorders
<1>2. /\ q \in [1..n -> 1..n]
      /\ \A l \in 1..n : q[l] = IF l = j THEN p[i] ELSE IF l = i THEN p[j] ELSE p[l]
  BY <1>1 DEF Swapped
<1> HIDE DEF q
<1>3. \A k, l \in 1..n : q[k] = q[l] => k = l
  BY <1>2 DEF Reorders
<1>4. ASSUME NEW k \in 1..n PROVE \E l \in 1..n : q[l] = k
  <2>1. PICK l \in 1..n : p[l] = k
    BY DEF Reorders
  <2>2. CASE l = i
    BY <1>2, <2>1, <2>2
  <2>3. CASE l = j
    <3>1. i # j => q[i] = p[j]
      BY <1>2
    <3>2. i = j => q[j] = p[i]
      BY <1>2
    <3> QED
      BY <2>1, <2>3, <3>1, <3>2
  <2>4. CASE l # i /\ l # j
    BY <1>2, <2>1, <2>4
  <2> QED
    BY <2>2, <2>3, <2>4
<1>5. Reorders(q, n)
  BY <1>2, <1>3, <1>4 DEF Reorders
<1>6. Swapped([l \in 1..n |-> s[p[l]]], i, j) = [l \in 1..n |-> s[q[l]]]
  <2> DEFINE f == [l \in 1..n |-> s[p[l]]]
             g == Swapped(f, i, j)
  <2>1. /\ DOMAIN g = 1..n /\ g = [l \in 1..n |-> g[l]]
        /\ \A l \in 1..n : g[l] = IF l = j THEN f[i] ELSE IF l = i THEN f[j] ELSE f[l]
    BY DEF Swapped
  <2>2. \A l \in 1..n : f[l] = s[p[l]]
    OBVIOUS
  <2> HIDE DEF f, g
  <2>3. \A l \in 1..n : g[l] = s[q[l]]
    BY <1>2, <2>1, <2>2
  <2>4. g = [l \in 1..n |-> s[q[l]]]
    BY <2>1, <2>3
  <2> QED
    BY <2>4 DEF f, g
<1> QED
  BY <1>5, <1>6 DEF q

\* The numbers that shuffleArray draws.
Draws(js, n) == js \in [2..n -> 1..n]

\* What shuffleArray computes, step by step.
LEMMA ShuffleSteps ==
    ASSUME NEW T, NEW s \in Seq(T), Len(s) >= 1, NEW js, Draws(js, Len(s))
    PROVE  \E h : /\ h[0] = s
                  /\ \A k \in 1..(Len(s) - 1) :
                       h[k] = Swapped(h[k - 1], Len(s) + 1 - k, js[Len(s) + 1 - k])
                  /\ shuffleArray(s, js) = h[Len(s) - 1]
<1> DEFINE n == Len(s)
           X == [1..n -> T]
           G == [k \in 1..(n - 1) |-> [x \in X |-> Swapped(x, n + 1 - k, js[n + 1 - k])]]
           R(f) == f = [k \in 0 .. n - 1 |->
                          IF k = 0 THEN s
                          ELSE LET i == n + 1 - k IN Swapped(f[k - 1], i, js[i])]
<1>1. n \in Nat /\ n - 1 \in Nat /\ s \in X
  OBVIOUS
<1>2. ASSUME NEW k \in 1..(n - 1)
      PROVE  n + 1 - k \in 1..n /\ js[n + 1 - k] \in 1..n
  <2>1. n + 1 - k \in 2..n /\ n + 1 - k \in 1..n
    BY <1>1
  <2> QED
    BY <2>1 DEF Draws
<1>3. Steps(G, n - 1, X)
  <2>1. ASSUME NEW k \in 1..(n - 1), NEW x \in X
        PROVE  Swapped(x, n + 1 - k, js[n + 1 - k]) \in X
    BY <1>2 DEF Swapped
  <2> HIDE DEF X
  <2> QED
    BY <2>1 DEF Steps
<1>4. PICK f : Iterated(f, G, n - 1, X, s)
  <2> HIDE DEF G, X, n
  <2> QED
    BY <1>1, <1>3, Iterates
<1>5. R(f)
  <2>1. f \in [0..(n - 1) -> X] /\ f[0] = s /\ \A k \in 1..(n - 1) : f[k] = G[k][f[k - 1]]
    BY <1>4 DEF Iterated
  <2>2. ASSUME NEW k \in 1..(n - 1)
        PROVE  f[k] = Swapped(f[k - 1], n + 1 - k, js[n + 1 - k])
    <3>1. k - 1 \in 0..(n - 1)
      BY <1>1
    <3>2. f[k - 1] \in X
      BY <2>1, <3>1
    <3> HIDE DEF X
    <3> QED
      BY <2>1, <3>2
  <2>3. \A k \in 0..(n - 1) : k # 0 => k \in 1..(n - 1)
    BY <1>1
  <2> HIDE DEF n, X, G
  <2>4. \A k \in 0..(n - 1) :
          f[k] = IF k = 0 THEN s ELSE Swapped(f[k - 1], n + 1 - k, js[n + 1 - k])
    BY <2>1, <2>2, <2>3
  <2>5. f = [k \in 0..(n - 1) |-> f[k]]
    BY <2>1
  <2> QED
    BY <2>4, <2>5
<1> DEFINE h == CHOOSE g : R(g)
<1>6. R(h)
  <2> HIDE DEF R
  <2> QED
    BY <1>5
<1>7. shuffleArray(s, js) = h[n - 1]
  BY DEF shuffleArray
<1> HIDE DEF h
<1>8. \A k \in 0..(n - 1) :
        h[k] = IF k = 0 THEN s ELSE Swapped(h[k - 1], n + 1 - k, js[n + 1 - k])
  BY <1>6
<1>9. h[0] = s
  <2>1. 0 \in 0..(n - 1)
    BY <1>1
  <2> QED
    BY <1>8, <2>1
<1>10. \A k \in 1..(n - 1) : h[k] = Swapped(h[k - 1], n + 1 - k, js[n + 1 - k])
  <2>1. \A k \in 1..(n - 1) : k \in 0..(n - 1) /\ k # 0
    BY <1>1
  <2> HIDE DEF n
  <2> QED
    BY <1>8, <2>1
<1> QED
  BY <1>7, <1>9, <1>10

Places(n) == [i \in 1..n |-> i]
Reordered(s, p) == [i \in DOMAIN s |-> s[p[i]]]

\* Whatever is drawn, shuffleArray orders anew, and the places with it.
LEMMA ShuffleOrders ==
    ASSUME NEW T, NEW s \in Seq(T), Len(s) >= 1, NEW js, Draws(js, Len(s))
    PROVE  /\ Reorders(shuffleArray(Places(Len(s)), js), Len(s))
           /\ shuffleArray(s, js) = Reordered(s, shuffleArray(Places(Len(s)), js))
<1> DEFINE n == Len(s)
           same == [i \in 1..n |-> i]
<1>1. n \in Nat /\ n - 1 \in Nat /\ DOMAIN s = 1..n /\ s = [i \in 1..n |-> s[i]]
  OBVIOUS
<1>2. same \in Seq(Nat) /\ Len(same) = n
  BY <1>1
<1>3. PICK h : /\ h[0] = s
               /\ \A k \in 1..(n - 1) : h[k] = Swapped(h[k - 1], n + 1 - k, js[n + 1 - k])
               /\ shuffleArray(s, js) = h[n - 1]
  BY ShuffleSteps
<1>4. PICK g : /\ g[0] = same
               /\ \A k \in 1..(n - 1) : g[k] = Swapped(g[k - 1], n + 1 - k, js[n + 1 - k])
               /\ shuffleArray(same, js) = g[n - 1]
  <2>1. Draws(js, Len(same)) /\ Len(same) >= 1
    BY <1>2
  <2> HIDE DEF same
  <2>2. \E g : /\ g[0] = same
               /\ \A k \in 1..(Len(same) - 1) :
                    g[k] = Swapped(g[k - 1], Len(same) + 1 - k, js[Len(same) + 1 - k])
               /\ shuffleArray(same, js) = g[Len(same) - 1]
    BY <1>2, <2>1, ShuffleSteps
  <2> HIDE DEF n
  <2> QED
    BY <1>2, <2>2
<1> DEFINE S == {k \in Nat : k <= n - 1 =>
                    Reorders(g[k], n) /\ h[k] = [l \in 1..n |-> s[g[k][l]]]}
<1>5. 0 \in S
  <2>1. Reorders(same, n)
    BY <1>1 DEF Reorders
  <2>2. s = [l \in 1..n |-> s[same[l]]]
    BY <1>1
  <2> HIDE DEF same
  <2> QED
    BY <1>3, <1>4, <2>1, <2>2
<1>6. ASSUME NEW k \in Nat, k \in S PROVE k + 1 \in S
  <2> SUFFICES ASSUME k + 1 <= n - 1
               PROVE  Reorders(g[k + 1], n) /\ h[k + 1] = [l \in 1..n |-> s[g[k + 1][l]]]
    OBVIOUS
  <2> DEFINE i == n - k
             j == js[n - k]
  <2>1. /\ k + 1 \in 1..(n - 1) /\ (k + 1) - 1 = k /\ n + 1 - (k + 1) = n - k
        /\ i \in 1..n /\ i \in 2..n
    BY <1>1
  <2>2. j \in 1..n
    BY <2>1 DEF Draws
  <2>3. Reorders(g[k], n) /\ h[k] = [l \in 1..n |-> s[g[k][l]]]
    BY <1>1, <1>6
  <2>4. h[k + 1] = Swapped(h[k], i, j) /\ g[k + 1] = Swapped(g[k], i, j)
    BY <1>3, <1>4, <2>1
  <2> DEFINE p == g[k]
  <2> HIDE DEF i, j, n, p
  <2>5. /\ Reorders(Swapped(p, i, j), n)
        /\ Swapped([l \in 1..n |-> s[p[l]]], i, j) = [l \in 1..n |-> s[Swapped(p, i, j)[l]]]
    <3>1. Reorders(p, n) /\ i \in 1..n /\ n \in Nat
      BY <1>1, <2>1, <2>3 DEF p
    <3> HIDE DEF S, same
    <3> QED
      BY <2>2, <3>1, SwapOrder, SMTT(30)
  <2> QED
    BY <2>3, <2>4, <2>5 DEF p
<1>7. n - 1 \in S
  <2> HIDE DEF S
  <2> QED
    BY <1>1, <1>5, <1>6, InductionOverNat
<1>8. Reorders(g[n - 1], n) /\ h[n - 1] = [l \in 1..n |-> s[g[n - 1][l]]]
  BY <1>1, <1>7
<1> HIDE DEF S
<1>9. Places(Len(s)) = same
  BY DEF Places
<1>10. h[n - 1] = Reordered(s, g[n - 1])
  BY <1>1, <1>8 DEF Reordered
<1> HIDE DEF same, n
<1> QED
  BY <1>3, <1>4, <1>8, <1>9, <1>10 DEF n

\* What outputs hold together when one is added or changed, or they are ordered
\* anew.
LEMMA PaidTotals ==
    ASSUME NEW s \in Seq(Paid)
    PROVE  /\ Total(Sats(s)) \in Int
           /\ \A x \in Paid : Total(Sats(Append(s, x))) = Total(Sats(s)) + x.sats
           /\ \A i \in 1..Len(s), x \in Paid :
                Total(Sats([s EXCEPT ![i] = x])) = Total(Sats(s)) - s[i].sats + x.sats
           /\ \A p : Reorders(p, Len(s)) =>
                /\ Reordered(s, p) \in Seq(Paid)
                /\ Len(Reordered(s, p)) = Len(s)
                /\ Total(Sats(Reordered(s, p))) = Total(Sats(s))
<1> DEFINE m == [x \in Paid |-> x.sats]
<1>1. m \in [Paid -> Int]
  BY DEF Paid
<1>2. ASSUME NEW r \in Seq(Paid) PROVE Sats(r) = Measured(m, r)
  <2>1. \A i \in DOMAIN r : r[i] \in Paid
    OBVIOUS
  <2> QED
    BY <2>1 DEF Sats, Measured
<1>3. \A x \in Paid : m[x] = x.sats
  OBVIOUS
<1> HIDE DEF m
<1>4. Total(Sats(s)) \in Int
  <2>1. Total(Measured(m, s)) \in Int
    BY <1>1, MeasuredType
  <2> QED
    BY <1>2, <2>1
<1>5. ASSUME NEW x \in Paid PROVE Total(Sats(Append(s, x))) = Total(Sats(s)) + x.sats
  <2>1. Total(Measured(m, Append(s, x))) = Total(Measured(m, s)) + m[x]
    BY <1>1, MeasuredAppend
  <2>2. Append(s, x) \in Seq(Paid)
    OBVIOUS
  <2> QED
    BY <1>2, <1>3, <2>1, <2>2
<1>6. ASSUME NEW i \in 1..Len(s), NEW x \in Paid
      PROVE  Total(Sats([s EXCEPT ![i] = x])) = Total(Sats(s)) - s[i].sats + x.sats
  <2>1. Total(Measured(m, [s EXCEPT ![i] = x])) = Total(Measured(m, s)) - m[s[i]] + m[x]
    BY <1>1, MeasuredUpdate
  <2>2. [s EXCEPT ![i] = x] \in Seq(Paid) /\ s[i] \in Paid
    OBVIOUS
  <2> QED
    BY <1>2, <1>3, <2>1, <2>2
<1>7. ASSUME NEW p, Reorders(p, Len(s))
      PROVE  /\ Reordered(s, p) \in Seq(Paid)
             /\ Len(Reordered(s, p)) = Len(s)
             /\ Total(Sats(Reordered(s, p))) = Total(Sats(s))
  <2> DEFINE r == [i \in DOMAIN s |-> s[p[i]]]
  <2>1. \A i \in 1..Len(s) : p[i] \in 1..Len(s)
    BY <1>7 DEF Reorders
  <2>2. \A i \in 1..Len(s) : s[p[i]] \in Paid
    BY <2>1
  <2>3. r \in Seq(Paid) /\ Len(r) = Len(s)
    BY <2>2
  <2>4. Total(Measured(m, r)) = Total(Measured(m, s))
    BY <1>1, <1>7, MeasuredOrder
  <2>6. Reordered(s, p) = r
    BY DEF Reordered
  <2> HIDE DEF r
  <2>5. Total(Sats(r)) = Total(Sats(s))
    BY <1>2, <2>3, <2>4
  <2> QED
    BY <2>3, <2>5, <2>6
<1> QED
  BY <1>4, <1>5, <1>6, <1>7

\* Sizes and fees are numbers.
LEMMA FeeParts ==
    ASSUME NEW t, t.ins \in Seq(Nat), t.outs \in Seq(Paid)
    PROVE  /\ inputAmount(t) \in Int /\ outputAmount(t) \in Int /\ Fee(t) \in Int
           /\ Fee(t) = inputAmount(t) - Total(Sats(t.outs))
           /\ _estimateSize(t) \in Nat
           /\ Len(t.ins) \in Nat /\ Len(t.outs) \in Nat
<1>1. Total(t.ins) \in Int
  <2>1. t.ins \in Seq(Int)
    OBVIOUS
  <2> QED
    BY <2>1, TotalProperties
<1>2. Total(Sats(t.outs)) \in Int
  BY PaidTotals
<1>3. Len(t.ins) \in Nat /\ Len(t.outs) \in Nat
  OBVIOUS
<1> QED
  <2>1. _estimateSize(t) \in Nat
    <3>1. \A m, n \in Nat : 26 + m * 35 + n * 148 \in Nat
      OBVIOUS
    <3> QED
      BY <1>3, <3>1, Zenon DEF _estimateSize
  <2>2. inputAmount(t) \in Int /\ outputAmount(t) \in Int /\ outputAmount(t) = Total(Sats(t.outs))
    BY <1>1, <1>2 DEF inputAmount, outputAmount
  <2> QED
    BY <1>3, <2>1, <2>2 DEF Fee

\* An output, or an input, more.
LEMMA FeeWithOutput ==
    ASSUME NEW t, t.ins \in Seq(Nat), t.outs \in Seq(Paid), NEW x \in Paid, NEW u,
           u.ins = t.ins, u.outs = Append(t.outs, x)
    PROVE  Fee(u) = Fee(t) - x.sats /\ _estimateSize(u) = _estimateSize(t) + 35
<1>1. /\ inputAmount(t) \in Int /\ Total(Sats(t.outs)) \in Int
      /\ Fee(t) = inputAmount(t) - Total(Sats(t.outs))
      /\ Len(t.ins) \in Nat /\ Len(t.outs) \in Nat /\ x.sats \in Int
  BY FeeParts, PaidTotals DEF Paid
<1>2. Total(Sats(u.outs)) = Total(Sats(t.outs)) + x.sats /\ Len(u.outs) = Len(t.outs) + 1
  BY PaidTotals
<1>3. Fee(u) = inputAmount(t) - Total(Sats(u.outs))
  BY DEF Fee, inputAmount, outputAmount
<1>4. _estimateSize(u) = _estimateSize(t) + 35
  <2>1. \A m, n \in Nat : 26 + (m + 1) * 35 + n * 148 = (26 + m * 35 + n * 148) + 35
    OBVIOUS
  <2>2. _estimateSize(u) = 26 + (Len(t.outs) + 1) * 35 + Len(t.ins) * 148
    BY <1>2, Zenon DEF _estimateSize
  <2> QED
    BY <1>1, <2>1, <2>2, Zenon DEF _estimateSize
<1> QED
  BY <1>1, <1>2, <1>3, <1>4

\* A share of an amount is between nothing and the amount.
LEMMA SplitBounds ==
    ASSUME NEW split \in Splits, NEW rest \in Int
    PROVE  /\ CeilDiv(split * rest, 100) \in Int
           /\ rest >= 0 => CeilDiv(split * rest, 100) <= rest /\ CeilDiv(split * rest, 100) >= 0
           /\ rest < 0 => CeilDiv(split * rest, 100) >= rest /\ CeilDiv(split * rest, 100) <= 0
<1>1. split \in Int /\ 40 <= split /\ split <= 59
  BY CoinAssumption
<1> DEFINE a == split * rest
<1>2. a \in Int
  BY <1>1
<1>3. rest >= 0 => 0 <= a /\ a <= 59 * rest
  BY <1>1
<1>4. rest < 0 => a <= 0 /\ 59 * rest <= a
  BY <1>1
<1> HIDE DEF a
<1>5. /\ CeilDiv(a, 100) \in Int
      /\ 100 * CeilDiv(a, 100) >= a /\ 100 * CeilDiv(a, 100) < a + 100
  BY <1>2 DEF CeilDiv
<1> DEFINE c == CeilDiv(a, 100)
<1> HIDE DEF c
<1>6. c \in Int /\ 100 * c >= a /\ 100 * c < a + 100
  BY <1>5 DEF c
<1>7. /\ rest >= 0 => c <= rest /\ c >= 0
      /\ rest < 0 => c >= rest /\ c <= 0
  BY <1>2, <1>3, <1>4, <1>6
<1> QED
  BY <1>6, <1>7 DEF c, a

\* What the payees get is a number.
LEMMA PayeesTotal ==
    ASSUME NEW b \in Seq(PaidTx), \A k \in DOMAIN b : b[k].vout \in DOMAIN b[k].outs
    PROVE  /\ Payees(b) \in Seq(Int) /\ Len(Payees(b)) = Len(b)
           /\ \A k \in 1..Len(b) : Payees(b)[k] = b[k].outs[b[k].vout].sats
           /\ Total(Payees(b)) \in Int
<1>1. DOMAIN b = 1..Len(b) /\ Len(b) \in Nat /\ \A k \in 1..Len(b) : b[k] \in PaidTx
  OBVIOUS
<1>2. ASSUME NEW k \in 1..Len(b) PROVE b[k].outs[b[k].vout].sats \in Int
  <2>1. b[k].outs \in Seq(Paid) /\ b[k].vout \in DOMAIN b[k].outs
    BY <1>1 DEF PaidTx
  <2>2. b[k].outs[b[k].vout] \in Paid
    BY <2>1
  <2> QED
    BY <2>2 DEF Paid
<1> DEFINE v == Payees(b)
<1>3. v \in Seq(Int) /\ Len(v) = Len(b) /\ \A k \in 1..Len(b) : v[k] = b[k].outs[b[k].vout].sats
  BY <1>1, <1>2 DEF Payees
<1> HIDE DEF v
<1>4. Total(v) \in Int
  BY <1>3, TotalProperties
<1> QED
  BY <1>3, <1>4 DEF v

\* What the payees get when a transaction is added to the bundle.
LEMMA PayeesAppend ==
    ASSUME NEW b \in Seq(PaidTx), \A k \in DOMAIN b : b[k].vout \in DOMAIN b[k].outs,
           NEW x \in PaidTx, x.vout \in DOMAIN x.outs
    PROVE  Total(Payees(Append(b, x))) = Total(Payees(b)) + x.outs[x.vout].sats
<1>1. x.outs \in Seq(Paid)
  BY DEF PaidTx
<1>2. DOMAIN b = 1..Len(b) /\ Len(b) \in Nat
  OBVIOUS
<1>3. x.outs[x.vout] \in Paid
  BY <1>1
<1> DEFINE v == Payees(b)
           a == x.outs[x.vout].sats
<1>4. v \in Seq(Int) /\ Len(v) = Len(b) /\ \A k \in 1..Len(b) : v[k] = b[k].outs[b[k].vout].sats
  BY PayeesTotal
<1>5. a \in Int
  BY <1>3 DEF Paid
<1> HIDE DEF v, a
<1>6. /\ Append(b, x) \in Seq(PaidTx) /\ DOMAIN Append(b, x) = 1..(Len(b) + 1)
      /\ \A k \in 1..Len(b) : Append(b, x)[k] = b[k]
      /\ Append(b, x)[Len(b) + 1] = x
  BY <1>2
<1>7. /\ Append(v, a) \in Seq(Int) /\ DOMAIN Append(v, a) = 1..(Len(b) + 1)
      /\ \A k \in 1..Len(b) : Append(v, a)[k] = v[k]
      /\ Append(v, a)[Len(b) + 1] = a
  BY <1>2, <1>4, <1>5
<1>8. \A k \in 1..(Len(b) + 1) : k \in 1..Len(b) \/ k = Len(b) + 1
  BY <1>2
<1>9. ASSUME NEW k \in 1..(Len(b) + 1)
      PROVE  Append(v, a)[k] = Append(b, x)[k].outs[Append(b, x)[k].vout].sats
  <2>1. CASE k \in 1..Len(b)
    BY <1>4, <1>6, <1>7, <2>1
  <2>2. CASE k = Len(b) + 1
    BY <1>6, <1>7, <2>2 DEF a
  <2> QED
    BY <1>8, <2>1, <2>2
<1>10. Append(v, a) = [k \in 1..(Len(b) + 1) |-> Append(v, a)[k]]
  <2> DEFINE w == Append(v, a)
  <2>1. w \in Seq(Int) /\ DOMAIN w = 1..(Len(b) + 1)
    BY <1>7
  <2> HIDE DEF w
  <2>2. w = [k \in DOMAIN w |-> w[k]]
    BY <2>1
  <2>3. w = [k \in 1..(Len(b) + 1) |-> w[k]]
    BY <2>1, <2>2
  <2> QED
    BY <2>3 DEF w
<1>11. Payees(Append(b, x)) = Append(v, a)
  BY <1>6, <1>9, <1>10 DEF Payees
<1>12. Total(Append(v, a)) = Total(v) + a
  BY <1>4, <1>5, TotalProperties
<1> QED
  BY <1>11, <1>12 DEF v, a

\* A step that keeps the bundle and the call, in a phase with a transaction
\* that pays the payee.
LEMMA FinalizingStep ==
    ASSUME CoinInv, UNCHANGED <<mode, asked, coins, left, bundle>>,
           phase \in {"change", "sweep"}, phase' \in {"change", "sweep", "shuffle", "thrown"},
           tx' \in OneTx, tx'.outs # <<>>,
           keys' \in Nat, skip' \in Int,
           mode = "set" =>
             /\ tx'.outs[1].sats = tx.outs[1].sats
             /\ FeeEnough(tx')
             /\ phase' \in {"change", "sweep"} => PayeeFirst(tx'.outs, dustLimit) /\ skip' >= 0
             /\ phase' = "shuffle" =>
                  PayeeFirst(tx'.outs, dustLimit - minFeePerByte) /\ FeeSmall(tx')
    PROVE  CoinInv'
<1>1. CoinTypeOK'
  BY DEF CoinInv, CoinTypeOK
<1>2. SetSoFar'
  <2> SUFFICES ASSUME mode = "set"
               PROVE  /\ Len(asked) = 1
                      /\ \A k \in DOMAIN bundle : Built(bundle[k])
                      /\ Total(Payees(bundle)) + tx'.outs[1].sats + left = asked[1]
    BY DEF SetSoFar
  <2> QED
    BY DEF CoinInv, SetSoFar
<1> QED
  BY <1>1, <1>2 DEF CoinInv

\* A coin is staged; the transaction is made when it can be.
LEMMA StageStep == CoinInv /\ StageCoin => CoinInv'
<1> SUFFICES ASSUME CoinInv, StageCoin PROVE CoinInv'
  OBVIOUS
<1> DEFINE usable == Most(CeilDiv(asked[1], 2), minimumNewInputAmount)
           requisite ==
             Least(left, usable) - inputAmount(tx)
             + (_estimateSize(tx) + standardUtxoSize + standardInputSize) * maxFeePerByte
           smaller == {i \in DOMAIN coins : coins[i] < requisite}
           at == IF smaller # {} THEN Max(smaller) ELSE 1
           staged == [tx EXCEPT !.ins = Append(@, coins[at])]
           satoshis == inputAmount(staged)
           txnSize == _estimateSize(staged)
           available == satoshis - (txnSize + standardUtxoSize) * minFeePerByte
           amountToUse == Least(left, available)
           forChange == satoshis - amountToUse - (txnSize + standardUtxoSize) * minFeePerByte
           overage == left - amountToUse
           again == \/ available < dustLimit
                    \/ /\ forChange > (txnSize + standardUtxoSize) * maxFeePerByte
                       /\ forChange < dustLimit + standardUtxoSize * minFeePerByte
                    \/ overage > 0 /\ overage < minimumNewInputAmount
           o == Out("payee", amountToUse)
<1>1. /\ phase = "staging" /\ coins # <<>> /\ coins' = RemoveAt(coins, at)
      /\ IF again
         THEN tx' = staged /\ UNCHANGED <<left, keys, skip, phase>>
         ELSE /\ tx' = [staged EXCEPT !.outs = Append(@, o)]
              /\ left' = left - amountToUse
              /\ keys' = NumChange /\ skip' = 0 /\ phase' = "change"
      /\ UNCHANGED <<mode, asked, bundle>>
  BY Zenon DEF StageCoin
<1>2. /\ CoinTypeOK /\ mode = "set" /\ Len(asked) = 1
      /\ \A k \in DOMAIN bundle : Built(bundle[k])
      /\ tx.outs = <<>> /\ Total(Payees(bundle)) + left = asked[1]
  BY <1>1 DEF CoinInv, SetSoFar
<1>3. /\ coins \in Seq(Nat) /\ left \in Nat /\ tx \in OneTx
      /\ tx.ins \in Seq(Nat) /\ tx.outs \in Seq(Paid)
  BY <1>2 DEF CoinTypeOK, OneTx
<1>4. at \in 1..Len(coins)
  <2> HIDE DEF requisite
  <2>1. smaller \subseteq 1..Len(coins) /\ Len(coins) \in Nat /\ 1 \in 1..Len(coins)
    <3>1. coins # <<>>
      BY <1>1
    <3> QED
      BY <1>3, <3>1
  <2> HIDE DEF smaller
  <2>2. smaller # {} => Max(smaller) \in smaller
    BY <2>1, MaxPlace
  <2> QED
    BY <2>1, <2>2
<1> HIDE DEF at
<1>5. coins' \in Seq(Nat) /\ coins[at] \in Nat
  BY <1>1, <1>3, <1>4, RemoveAtFacts
<1>6. /\ staged \in OneTx
      /\ staged.ins \in Seq(Nat) /\ staged.outs = <<>> /\ staged.outs \in Seq(Paid)
  <2> DEFINE q == Append(tx.ins, coins[at])
  <2>1. q \in Seq(Nat)
    BY <1>3, <1>5
  <2> HIDE DEF q
  <2>2. staged = [tx EXCEPT !.ins = q]
    BY DEF q
  <2>3. /\ staged \in OneTx
        /\ staged.ins = q /\ staged.outs = tx.outs
    BY <1>3, <2>1, <2>2 DEF OneTx
  <2> QED
    BY <1>2, <1>3, <2>1, <2>3
<1> HIDE DEF staged
<1>7. satoshis \in Int /\ txnSize \in Nat /\ Fee(staged) = satoshis
  <2>1. /\ inputAmount(staged) \in Int /\ _estimateSize(staged) \in Nat
        /\ Fee(staged) = inputAmount(staged) - Total(Sats(staged.outs))
    BY <1>6, FeeParts
  <2>2. Total(Sats(staged.outs)) = 0
    <3>1. Sats(<<>>) = <<>>
      BY DEF Sats
    <3> QED
      BY <1>6, <3>1, TotalProperties
  <2> QED
    BY <2>1, <2>2
<1> HIDE DEF satoshis, txnSize
<1>8. /\ amountToUse \in Int /\ amountToUse <= left /\ amountToUse <= available
      /\ available \in Int
  BY <1>3, <1>7 DEF Least, standardUtxoSize, minFeePerByte
<1> HIDE DEF amountToUse
<1>9. CASE again
  <2> HIDE DEF again
  <2>1. tx' = staged /\ UNCHANGED <<mode, asked, bundle, left, keys, skip, phase>>
    BY <1>1, <1>9
  <2>2. CoinTypeOK'
    BY <1>2, <1>5, <1>6, <2>1 DEF CoinTypeOK
  <2>3. SetSoFar'
    BY <1>1, <1>2, <1>6, <2>1 DEF SetSoFar
  <2> QED
    BY <1>1, <1>2, <2>1, <2>2, <2>3 DEF CoinInv
<1>10. CASE ~again
  <2> HIDE DEF again
  <2>1. /\ tx' = [staged EXCEPT !.outs = Append(@, o)] /\ left' = left - amountToUse
        /\ keys' = NumChange /\ skip' = 0 /\ phase' = "change"
        /\ UNCHANGED <<mode, asked, bundle>>
    BY <1>1, <1>10
  <2>2. o \in Paid /\ o.sats = amountToUse /\ o.to = "payee"
    BY <1>8 DEF Out, Paid
  <2> HIDE DEF o
  <2>3. /\ tx' \in OneTx
        /\ tx'.ins = staged.ins /\ tx'.outs = Append(staged.outs, o)
    <3> DEFINE q == Append(staged.outs, o)
    <3>1. q \in Seq(Paid)
      BY <1>6, <2>2
    <3>2. tx' = [staged EXCEPT !.outs = q]
      BY <2>1
    <3> HIDE DEF q
    <3>3. tx' \in OneTx /\ tx'.ins = staged.ins /\ tx'.outs = q
      BY <1>6, <3>1, <3>2 DEF OneTx
    <3> QED
      BY <3>3 DEF q
  <2>4. tx'.outs = <<o>> /\ Len(tx'.outs) = 1 /\ tx'.outs[1] = o /\ tx'.outs # <<>>
    BY <1>6, <2>3
  <2>5. Fee(tx') = satoshis - amountToUse /\ _estimateSize(tx') = txnSize + 35
    BY <1>6, <1>7, <2>2, <2>3, FeeWithOutput DEF txnSize
  <2>6. FeeEnough(tx')
    BY <1>7, <1>8, <2>5 DEF FeeEnough, minFeePerByte, standardUtxoSize
  <2>7. PayeeFirst(tx'.outs, dustLimit)
    BY <2>2, <2>4 DEF PayeeFirst
  <2>8. CoinTypeOK'
    <3>1. left' \in Nat /\ NumChange \in Nat
      BY <1>3, <1>8, <2>1, CoinAssumption
    <3> QED
      BY <1>2, <1>5, <2>1, <2>3, <3>1 DEF CoinTypeOK
  <2>9. Total(Payees(bundle)) \in Int
    <3>1. bundle \in Seq(PaidTx) /\ \A k \in DOMAIN bundle : bundle[k].vout \in DOMAIN bundle[k].outs
      BY <1>2 DEF CoinTypeOK, Built
    <3> QED
      BY <3>1, PayeesTotal
  <2>10. Total(Payees(bundle)) + tx'.outs[1].sats + left' = asked[1]
    BY <1>2, <1>3, <1>8, <2>1, <2>2, <2>4, <2>9
  <2>11. SetSoFar'
    BY <1>2, <2>1, <2>6, <2>7, <2>10 DEF SetSoFar
  <2> QED
    BY <2>1, <2>4, <2>8, <2>11 DEF CoinInv
<1> QED
  BY <1>9, <1>10

\* A transaction with an output more.
LEMMA OutputAdded ==
    ASSUME NEW t \in OneTx, NEW x \in Paid
    PROVE  LET u == [t EXCEPT !.outs = Append(t.outs, x)]
           IN  u \in OneTx /\ u.ins = t.ins /\ u.outs = Append(t.outs, x)
<1> DEFINE q == Append(t.outs, x)
           u == [t EXCEPT !.outs = q]
<1>1. q \in Seq(Paid)
  BY DEF OneTx
<1> HIDE DEF q
<1>2. u \in OneTx /\ u.ins = t.ins /\ u.outs = q
  BY <1>1 DEF OneTx
<1> QED
  BY <1>2 DEF q

\* A change output is appended.
LEMMA ChangeAppended ==
    ASSUME tx \in OneTx, tx.outs # <<>>, tx' \in OneTx,
           NEW x \in Paid, tx'.ins = tx.ins, tx'.outs = Append(tx.outs, x)
    PROVE  /\ tx'.outs # <<>> /\ tx'.outs[1] = tx.outs[1]
           /\ Fee(tx') = Fee(tx) - x.sats /\ _estimateSize(tx') = _estimateSize(tx) + 35
           /\ \A low \in Int : PayeeFirst(tx.outs, low) /\ x.to = "change" /\ x.sats >= low
                                 => PayeeFirst(tx'.outs, low)
<1>1. /\ tx.ins \in Seq(Nat) /\ tx.outs \in Seq(Paid)
      /\ Len(tx.outs) \in Nat /\ Len(tx.outs) >= 1 /\ 1 \in 1..Len(tx.outs)
  BY DEF OneTx
<1> DEFINE q == Append(tx.outs, x)
<1>2. /\ q \in Seq(Paid) /\ Len(q) = Len(tx.outs) + 1 /\ q # <<>>
      /\ \A i \in 1..Len(tx.outs) : q[i] = tx.outs[i]
      /\ q[Len(tx.outs) + 1] = x
  BY <1>1
<1>4. tx'.outs = q
  OBVIOUS
<1> HIDE DEF q
<1>5. Fee(tx') = Fee(tx) - x.sats /\ _estimateSize(tx') = _estimateSize(tx) + 35
  BY <1>1, <1>4, FeeWithOutput DEF q
<1>6. ASSUME NEW low \in Int, PayeeFirst(tx.outs, low), x.to = "change", x.sats >= low
      PROVE  PayeeFirst(tx'.outs, low)
  <2>1. \A i \in 2..(Len(tx.outs) + 1) : i \in 2..Len(tx.outs) \/ i = Len(tx.outs) + 1
    BY <1>1
  <2>2. \A i \in 2..Len(tx.outs) : i \in 1..Len(tx.outs)
    BY <1>1
  <2>3. q[1] = tx.outs[1]
    BY <1>1, <1>2
  <2> QED
    BY <1>2, <1>4, <1>6, <2>1, <2>2, <2>3 DEF PayeeFirst
<1>7. tx'.outs[1] = tx.outs[1]
  BY <1>1, <1>2, <1>4
<1> QED
  BY <1>2, <1>4, <1>5, <1>6, <1>7

\* One turn of the loop over the change keys.
LEMMA AddChangeStep ==
    ASSUME CoinInv, NEW split \in Splits, AddChange(split)
    PROVE  CoinInv'
<1> DEFINE delta == Fee(tx) - skip
           rest == delta - futureFee - skip - dustLimit
           amount == CeilDiv(split * rest, 100) + skip + dustLimit
           x == Out("change", amount)
<1>1. /\ phase = "change" /\ keys > 0
      /\ IF delta < dustLimit + futureFee
         THEN phase' = "sweep" /\ UNCHANGED <<tx, keys, skip>>
         ELSE /\ keys' = keys - 1
              /\ IF OOM(tx.outs[1].sats) = OOM(amount)
                 THEN skip' = skip + amount /\ UNCHANGED tx
                 ELSE skip' = 0 /\ tx' = [tx EXCEPT !.outs = Append(tx.outs, x)]
              /\ UNCHANGED phase
      /\ UNCHANGED <<mode, asked, coins, left, bundle>>
  BY Zenon DEF AddChange
<1>2. /\ tx \in OneTx /\ keys \in Nat /\ skip \in Int
      /\ tx.outs # <<>> /\ tx.ins \in Seq(Nat) /\ tx.outs \in Seq(Paid)
  BY <1>1 DEF CoinInv, CoinTypeOK, OneTx
<1>3. mode = "set" => FeeEnough(tx) /\ PayeeFirst(tx.outs, dustLimit) /\ skip >= 0
  BY <1>1 DEF CoinInv, SetSoFar
<1>4. Fee(tx) \in Int /\ _estimateSize(tx) \in Nat
  BY <1>2, FeeParts
<1>5. /\ futureFee = (_estimateSize(tx) + 34) * 2 /\ futureFee \in Int /\ dustLimit = 546
      /\ rest \in Int
  <2>1. futureFee = (_estimateSize(tx) + 34) * 2 /\ dustLimit = 546
    BY DEF futureFee, standardUtxoSize, minFeePerByte, dustLimit
  <2> QED
    BY <1>2, <1>4, <2>1
<1>6. /\ amount \in Int
      /\ skip >= 0 /\ ~(delta < dustLimit + futureFee) =>
           amount >= dustLimit /\ amount <= Fee(tx) - futureFee
  <2> DEFINE c == CeilDiv(split * rest, 100)
  <2>1. /\ c \in Int
        /\ rest >= 0 => c <= rest /\ c >= 0
        /\ rest < 0 => c >= rest /\ c <= 0
    <3> HIDE DEF rest
    <3> QED
      BY <1>5, SplitBounds
  <2> HIDE DEF c
  <2>2. amount = c + skip + dustLimit
    BY DEF c
  <2> HIDE DEF amount
  <2>3. amount \in Int
    BY <1>2, <1>5, <2>1, <2>2
  <2>4. ASSUME skip >= 0, ~(delta < dustLimit + futureFee)
        PROVE  amount >= dustLimit /\ amount <= Fee(tx) - futureFee
    <3>1. Fee(tx) - skip >= 546 + futureFee /\ futureFee \in Int
      BY <1>2, <1>4, <1>5, <2>4
    <3>2. rest = Fee(tx) - skip - futureFee - skip - 546
      BY <1>5
    <3> HIDE DEF rest
    <3>3. rest \in Int /\ dustLimit = 546
      BY <1>5
    <3>4. CASE rest >= 0
      BY <1>2, <1>4, <2>1, <2>2, <2>4, <3>1, <3>2, <3>3, <3>4
    <3>5. CASE rest < 0
      BY <1>2, <1>4, <2>1, <2>2, <2>4, <3>1, <3>2, <3>3, <3>5
    <3> QED
      BY <3>3, <3>4, <3>5
  <2> QED
    BY <2>3, <2>4
<1> HIDE DEF amount
<1>7. CASE delta < dustLimit + futureFee
  <2>1. phase' = "sweep" /\ UNCHANGED <<tx, keys, skip, mode, asked, coins, left, bundle>>
    BY <1>1, <1>7
  <2>2. FeeEnough(tx') = FeeEnough(tx)
    BY <2>1 DEF FeeEnough, Fee, inputAmount, outputAmount, _estimateSize
  <2> QED
    BY <1>1, <1>2, <1>3, <2>1, <2>2, FinalizingStep
<1>8. CASE ~(delta < dustLimit + futureFee)
  <2>1. /\ keys' \in Nat /\ phase' = "change"
        /\ UNCHANGED <<mode, asked, coins, left, bundle>>
    BY <1>1, <1>2, <1>8
  <2>2. CASE OOM(tx.outs[1].sats) = OOM(amount)
    <3>1. skip' = skip + amount /\ tx' = tx
      BY <1>1, <1>8, <2>2
    <3>2. skip' \in Int /\ (skip >= 0 => skip' >= 0)
      BY <1>2, <1>5, <1>6, <1>8, <3>1
    <3>3. FeeEnough(tx') = FeeEnough(tx)
      BY <3>1 DEF FeeEnough, Fee, inputAmount, outputAmount, _estimateSize
    <3> QED
      BY <1>1, <1>2, <1>3, <2>1, <3>1, <3>2, <3>3, FinalizingStep
  <2>3. CASE OOM(tx.outs[1].sats) # OOM(amount)
    <3>1. skip' = 0 /\ tx' = [tx EXCEPT !.outs = Append(tx.outs, x)]
      BY <1>1, <1>8, <2>3
    <3>2. x \in Paid /\ x.to = "change" /\ x.sats = amount
      BY <1>6 DEF Out, Paid
    <3> HIDE DEF x
    <3>3. /\ tx' \in OneTx
          /\ tx'.outs # <<>> /\ tx'.outs[1] = tx.outs[1]
          /\ Fee(tx') = Fee(tx) - x.sats /\ _estimateSize(tx') = _estimateSize(tx) + 35
          /\ PayeeFirst(tx.outs, dustLimit) /\ x.to = "change" /\ x.sats >= dustLimit
                => PayeeFirst(tx'.outs, dustLimit)
      <4>1. dustLimit \in Int
        BY <1>5
      <4>2. tx' \in OneTx /\ tx'.ins = tx.ins /\ tx'.outs = Append(tx.outs, x)
        BY <1>2, <3>1, <3>2, OutputAdded
      <4> QED
        BY <1>2, <3>2, <4>1, <4>2, ChangeAppended
    <3>4. mode = "set" => FeeEnough(tx') /\ PayeeFirst(tx'.outs, dustLimit)
      <4> SUFFICES ASSUME mode = "set" PROVE FeeEnough(tx') /\ PayeeFirst(tx'.outs, dustLimit)
        OBVIOUS
      <4>1. amount >= dustLimit /\ amount <= Fee(tx) - futureFee
        BY <1>3, <1>6, <1>8
      <4>2. FeeEnough(tx')
        BY <1>4, <1>5, <1>6, <3>2, <3>3, <4>1 DEF FeeEnough, minFeePerByte
      <4> QED
        BY <1>3, <3>2, <3>3, <4>1, <4>2
    <3>5. skip' \in Int /\ skip' >= 0
      BY <3>1
    <3> QED
      BY <1>1, <2>1, <3>3, <3>4, <3>5, FinalizingStep
  <2> QED
    BY <2>2, <2>3
<1> QED
  BY <1>7, <1>8

\* With a single output: one change output, or none.
LEMMA OneOffStep == CoinInv /\ OneOff => CoinInv'
<1> SUFFICES ASSUME CoinInv, OneOff PROVE CoinInv'
  OBVIOUS
<1> DEFINE amount == Fee(tx) - futureFee
           x == Out("change", amount)
<1>1. /\ phase = "sweep" /\ Len(tx.outs) = 1
      /\ tx' = IF amount >= minimumNewInputAmount
               THEN [tx EXCEPT !.outs = Append(tx.outs, x)] ELSE tx
      /\ phase' = "shuffle"
      /\ UNCHANGED <<mode, asked, coins, left, keys, skip, bundle>>
  BY Zenon DEF OneOff
<1>2. /\ tx \in OneTx /\ keys \in Nat /\ skip \in Int
      /\ tx.outs # <<>> /\ tx.ins \in Seq(Nat) /\ tx.outs \in Seq(Paid)
  BY <1>1 DEF CoinInv, CoinTypeOK, OneTx
<1>3. mode = "set" => FeeEnough(tx) /\ PayeeFirst(tx.outs, dustLimit)
  BY <1>1 DEF CoinInv, SetSoFar
<1>4. Fee(tx) \in Int /\ _estimateSize(tx) \in Nat
  BY <1>2, FeeParts
<1>5. futureFee = (_estimateSize(tx) + 34) * 2
  BY DEF futureFee, standardUtxoSize, minFeePerByte
<1>6. amount \in Int
  BY <1>4, <1>5
<1>7. PayeeFirst(tx.outs, dustLimit) => PayeeFirst(tx.outs, dustLimit - minFeePerByte)
  BY <1>1 DEF PayeeFirst
<1>8. CASE amount >= minimumNewInputAmount
  <2>1. tx' = [tx EXCEPT !.outs = Append(tx.outs, x)]
    BY <1>1, <1>8
  <2>2. x \in Paid /\ x.to = "change" /\ x.sats = amount
    BY <1>6 DEF Out, Paid
  <2> HIDE DEF x
  <2>3. dustLimit - minFeePerByte \in Int /\ amount >= dustLimit - minFeePerByte
    BY <1>6, <1>8 DEF dustLimit, minFeePerByte, minimumNewInputAmount
  <2>4. /\ tx' \in OneTx
        /\ tx'.outs # <<>> /\ tx'.outs[1] = tx.outs[1]
        /\ Fee(tx') = Fee(tx) - x.sats /\ _estimateSize(tx') = _estimateSize(tx) + 35
        /\ \A low \in Int : PayeeFirst(tx.outs, low) /\ x.to = "change" /\ x.sats >= low
                              => PayeeFirst(tx'.outs, low)
    <3>1. tx' \in OneTx /\ tx'.ins = tx.ins /\ tx'.outs = Append(tx.outs, x)
      BY <1>2, <2>1, <2>2, OutputAdded
    <3> QED
      BY <1>2, <2>2, <3>1, ChangeAppended
  <2>5. mode = "set" => PayeeFirst(tx'.outs, dustLimit - minFeePerByte)
    BY <1>3, <1>7, <2>2, <2>3, <2>4
  <2>6. FeeEnough(tx') /\ FeeSmall(tx')
    <3>1. Fee(tx') = futureFee
      BY <1>4, <1>5, <2>2, <2>4
    <3> QED
      BY <1>4, <1>5, <2>4, <3>1
      DEF FeeEnough, FeeSmall, minFeePerByte, standardUtxoSize, minimumNewInputAmount
  <2> QED
    BY <1>1, <1>2, <2>4, <2>5, <2>6, FinalizingStep
<1>9. CASE ~(amount >= minimumNewInputAmount)
  <2>1. tx' = tx
    BY <1>1, <1>9
  <2>2. FeeSmall(tx)
    BY <1>4, <1>5, <1>9 DEF FeeSmall, minFeePerByte, standardUtxoSize, minimumNewInputAmount
  <2>3. FeeSmall(tx') = FeeSmall(tx) /\ FeeEnough(tx') = FeeEnough(tx)
    BY <2>1 DEF FeeSmall, FeeEnough, Fee, inputAmount, outputAmount, _estimateSize
  <2> QED
    BY <1>1, <1>2, <1>3, <1>7, <2>1, <2>2, <2>3, FinalizingStep
<1> QED
  BY <1>8, <1>9

\* What is left beyond the fee goes to a change output.
LEMMA SweepStep ==
    ASSUME CoinInv, NEW i \in 2..Len(tx.outs), Sweep(i)
    PROVE  CoinInv'
<1> DEFINE a == tx.outs[i].sats + amountToAdd
<1>1. /\ phase = "sweep" /\ phase' = "shuffle"
      /\ tx' = [tx EXCEPT !.outs[i].sats = a]
      /\ UNCHANGED <<mode, asked, coins, left, keys, skip, bundle>>
  BY DEF Sweep
<1>2. /\ tx \in OneTx /\ keys \in Nat /\ skip \in Int
      /\ tx.outs # <<>> /\ tx.ins \in Seq(Nat) /\ tx.outs \in Seq(Paid)
  BY <1>1 DEF CoinInv, CoinTypeOK, OneTx
<1>3. mode = "set" => FeeEnough(tx) /\ PayeeFirst(tx.outs, dustLimit)
  BY <1>1 DEF CoinInv, SetSoFar
<1>4. /\ Fee(tx) \in Int /\ _estimateSize(tx) \in Nat /\ inputAmount(tx) \in Int
      /\ Fee(tx) = inputAmount(tx) - Total(Sats(tx.outs))
      /\ Total(Sats(tx.outs)) \in Int
  BY <1>2, FeeParts, PaidTotals
<1>5. amountToAdd = Fee(tx) - _estimateSize(tx) * 2 /\ amountToAdd \in Int
  BY <1>4 DEF amountToAdd, minFeePerByte
<1>6. /\ i \in 1..Len(tx.outs) /\ 1 \in 1..Len(tx.outs) /\ i # 1 /\ Len(tx.outs) \in Nat
      /\ tx.outs[i] \in Paid
  BY <1>2
<1>7. tx.outs[i].sats \in Int /\ a \in Int
  BY <1>5, <1>6 DEF Paid
<1>8. a = tx.outs[i].sats + amountToAdd
  OBVIOUS
<1> HIDE DEF a
<1> DEFINE x == [tx.outs[i] EXCEPT !.sats = a]
<1>9. /\ x \in Paid /\ x.to = tx.outs[i].to /\ x.sats = a
      /\ tx' \in OneTx /\ tx'.ins = tx.ins /\ tx'.outs = [tx.outs EXCEPT ![i] = x]
  <2> DEFINE q == [tx.outs EXCEPT ![i] = x]
  <2>1. x \in Paid /\ x.to = tx.outs[i].to /\ x.sats = a
    BY <1>6, <1>7 DEF Paid
  <2>2. tx' = [tx EXCEPT !.outs = q]
    BY <1>1
  <2> HIDE DEF x
  <2>3. q \in Seq(Paid)
    BY <1>2, <2>1
  <2> HIDE DEF q
  <2>4. tx' \in OneTx /\ tx'.ins = tx.ins /\ tx'.outs = q
    BY <1>2, <2>2, <2>3 DEF OneTx
  <2> QED
    BY <2>1, <2>4 DEF q
<1> HIDE DEF x
<1>10. /\ Len(tx'.outs) = Len(tx.outs) /\ tx'.outs # <<>> /\ tx'.outs[1] = tx.outs[1]
       /\ \A k \in 1..Len(tx.outs) : tx'.outs[k] = IF k = i THEN x ELSE tx.outs[k]
  BY <1>2, <1>6, <1>9
<1>11. Fee(tx') = _estimateSize(tx) * 2 /\ _estimateSize(tx') = _estimateSize(tx)
  <2>1. Total(Sats(tx'.outs)) = Total(Sats(tx.outs)) - tx.outs[i].sats + x.sats
    BY <1>2, <1>6, <1>9, PaidTotals, SMTT(30)
  <2>2. Fee(tx') = inputAmount(tx) - Total(Sats(tx'.outs))
    BY <1>9 DEF Fee, inputAmount, outputAmount
  <2>3. _estimateSize(tx') = _estimateSize(tx)
    BY <1>9, <1>10, Zenon DEF _estimateSize
  <2> QED
    <3> DEFINE e == _estimateSize(tx) * 2
    <3>1. e \in Int /\ amountToAdd = Fee(tx) - e
      BY <1>4, <1>5
    <3> HIDE DEF e
    <3>3. Total(Sats(tx'.outs)) = Total(Sats(tx.outs)) + amountToAdd
      <4>1. x.sats = tx.outs[i].sats + amountToAdd
        BY <1>8, <1>9
      <4>2. /\ tx.outs[i].sats \in Int /\ amountToAdd \in Int
            /\ Total(Sats(tx.outs)) \in Int
        BY <1>4, <1>5, <1>7
      <4> QED
        BY <2>1, <4>1, <4>2
    <3>2. Fee(tx') = e
      BY <1>4, <2>2, <3>1, <3>3
    <3> QED
      BY <2>3, <3>2 DEF e
<1>12. FeeEnough(tx') /\ FeeSmall(tx')
  BY <1>4, <1>11 DEF FeeEnough, FeeSmall, minFeePerByte, standardUtxoSize, minimumNewInputAmount
<1>13. mode = "set" => PayeeFirst(tx'.outs, dustLimit - minFeePerByte)
  <2> SUFFICES ASSUME mode = "set" PROVE PayeeFirst(tx'.outs, dustLimit - minFeePerByte)
    OBVIOUS
  <2>1. amountToAdd >= -2
    BY <1>3, <1>4, <1>5 DEF FeeEnough, minFeePerByte
  <2>2. /\ tx.outs[1].to = "payee"
        /\ \A k \in 2..Len(tx.outs) : tx.outs[k].to = "change" /\ tx.outs[k].sats >= 546
    BY <1>3 DEF PayeeFirst, dustLimit
  <2>3. \A k \in 2..Len(tx.outs) : k \in 1..Len(tx.outs) /\ tx.outs[k].sats \in Int
    <3>1. \A k \in 2..Len(tx.outs) : k \in 1..Len(tx.outs) /\ tx.outs[k] \in Paid
      BY <1>2
    <3> QED
      BY <3>1 DEF Paid
  <2>4. a >= 544
    BY <1>5, <1>7, <1>8, <2>1, <2>2
  <2>5. \A k \in 2..Len(tx.outs) : tx'.outs[k].to = "change" /\ tx'.outs[k].sats >= 544
    BY <1>7, <1>9, <1>10, <2>2, <2>3, <2>4
  <2> QED
    BY <1>10, <2>2, <2>5 DEF PayeeFirst, dustLimit, minFeePerByte
<1> QED
  BY <1>1, <1>2, <1>9, <1>10, <1>12, <1>13, FinalizingStep

\* The steps of finalizeTransaction that leave the transaction alone.
LEMMA IdleSteps ==
    ASSUME CoinInv,
           \/ KeysTried
           \/ \E i \in 2..Len(tx.outs) : SweepThrows(i)
    PROVE  CoinInv'
<1>1. /\ phase \in {"change", "sweep"} /\ phase' \in {"sweep", "thrown"}
      /\ UNCHANGED <<mode, asked, coins, left, tx, keys, skip, bundle>>
  BY DEF KeysTried, SweepThrows
<1>2. /\ tx \in OneTx /\ keys \in Nat /\ skip \in Int /\ tx.outs # <<>>
  BY <1>1 DEF CoinInv, CoinTypeOK
<1>3. mode = "set" => FeeEnough(tx) /\ PayeeFirst(tx.outs, dustLimit) /\ skip >= 0
  BY <1>1 DEF CoinInv, SetSoFar
<1>4. FeeEnough(tx') = FeeEnough(tx)
  BY <1>1 DEF FeeEnough, Fee, inputAmount, outputAmount, _estimateSize
<1> QED
  BY <1>1, <1>2, <1>3, <1>4, FinalizingStep

\* An error ends the call.
LEMMA ThrowingSteps ==
    ASSUME CoinInv, OutOfUtxos \/ Overflow
    PROVE  CoinInv'
<1>1. /\ phase \in {"staging", "shuffle"} /\ phase' = "thrown"
      /\ UNCHANGED <<mode, asked, coins, left, tx, keys, skip, bundle>>
  BY DEF OutOfUtxos, Overflow
<1>2. CoinTypeOK'
  BY <1>1 DEF CoinInv, CoinTypeOK
<1>3. SetSoFar'
  BY <1>1 DEF CoinInv, SetSoFar
<1> QED
  BY <1>1, <1>2, <1>3 DEF CoinInv

\* The coins a call starts from.
LEMMA SortedCoins == \A s \in Sorted : s \in Seq(Nat)
<1> SUFFICES ASSUME NEW s \in Sorted PROVE s \in Seq(Nat)
  OBVIOUS
<1>1. PICK n \in 0..MaxCoins : s \in [1..n -> CoinValues]
  BY DEF Sorted
<1>2. n \in Nat /\ CoinValues \subseteq Nat
  BY CoinAssumption
<1>3. s \in [1..n -> Nat]
  BY <1>1, <1>2
<1> QED
  BY <1>2, <1>3

\* A call for a set of transactions begins.
LEMMA SetStep ==
    ASSUME CoinInv, NEW a \in Amounts, constructTransactionSet(a)
    PROVE  CoinInv'
<1>1. /\ phase = "idle" /\ mode' = "set" /\ asked' = <<a>> /\ coins' \in Sorted
      /\ left' = a /\ phase' = "staging" /\ UNCHANGED <<tx, keys, skip, bundle>>
  BY DEF constructTransactionSet
<1>2. CoinTypeOK /\ tx = NoTx /\ bundle = <<>>
  BY <1>1 DEF CoinInv
<1>3. a \in Nat
  BY CoinAssumption
<1>4. asked' \in Seq(Nat) /\ Len(asked') = 1 /\ asked'[1] = a
  BY <1>1, <1>3
<1>5. CoinTypeOK'
  BY <1>1, <1>2, <1>3, <1>4, SortedCoins DEF CoinTypeOK
<1>6. Total(Payees(bundle')) = 0
  <2>1. Payees(<<>>) = <<>>
    BY DEF Payees
  <2> QED
    BY <1>1, <1>2, <2>1, TotalProperties
<1>7. tx'.outs = <<>>
  BY <1>1, <1>2 DEF NoTx
<1>8. DOMAIN bundle' = {}
  BY <1>1, <1>2
<1>9. SetSoFar'
  BY <1>1, <1>3, <1>4, <1>6, <1>7, <1>8 DEF SetSoFar
<1> QED
  BY <1>1, <1>5, <1>9 DEF CoinInv

\* A call for one transaction, in one of whose steps no set is built.
LEMMA SingleStep ==
    ASSUME CoinTypeOK', mode' = "single", phase' \notin {"staging", "idle"},
           phase' \in {"picking", "change", "sweep", "shuffle"} => tx'.outs # <<>>
    PROVE  CoinInv'
BY DEF CoinInv, SetSoFar

\* Coins in the opposite order are coins.
LEMMA ReversedCoins == \A s \in Seq(Nat) : Reverse(s) \in Seq(Nat)
BY DEF Reverse

\* A call for one transaction begins.
LEMMA OneStep ==
    ASSUME CoinInv, NEW v \in Seq(Nat), v # <<>>, constructTransaction(v)
    PROVE  CoinInv'
<1> DEFINE q == [i \in DOMAIN v |-> Out("payee", v[i])]
<1>1. /\ phase = "idle" /\ mode' = "single" /\ asked' = v
      /\ tx' = [ins |-> <<>>, outs |-> q]
      /\ phase' = "picking" /\ UNCHANGED <<left, keys, skip, bundle>>
  BY DEF constructTransaction
<1>2. coins' \in Seq(Nat)
  <2> DEFINE need == Total(v) + (_estimateSize(tx') + standardUtxoSize + standardInputSize)
                                * minFeePerByte
             bigger(s) == {i \in DOMAIN s : s[i] >= need}
  <2>1. PICK s \in Sorted : coins' = IF bigger(s) # {} THEN <<s[Min(bigger(s))]>> ELSE Reverse(s)
    BY Zenon DEF constructTransaction
  <2>2. s \in Seq(Nat)
    BY SortedCoins
  <2> HIDE DEF need
  <2> DEFINE B == bigger(s)
  <2>3. coins' = IF B # {} THEN <<s[Min(B)]>> ELSE Reverse(s)
    BY <2>1
  <2>4. B \subseteq DOMAIN s /\ B \subseteq Nat
    BY <2>2
  <2> HIDE DEF B
  <2>5. CASE B = {}
    BY <2>2, <2>3, <2>5, ReversedCoins
  <2>6. CASE B # {}
    <3>1. Min(B) \in DOMAIN s
      BY <2>4, <2>6, MinProperties
    <3>2. s[Min(B)] \in Nat
      BY <2>2, <3>1
    <3> QED
      BY <2>3, <2>6, <3>2
  <2> QED
    BY <2>5, <2>6
<1>3. q \in Seq(Paid) /\ q # <<>>
  <2>1. \A i \in 1..Len(v) : Out("payee", v[i]) \in Paid
    BY DEF Out, Paid
  <2>2. DOMAIN v = 1..Len(v) /\ Len(v) \in Nat /\ 1 \in 1..Len(v)
    OBVIOUS
  <2>3. q = [i \in 1..Len(v) |-> Out("payee", v[i])]
    BY <2>2
  <2>4. q \in [1..Len(v) -> Paid]
    BY <2>1, <2>3
  <2> HIDE DEF q
  <2> QED
    BY <2>2, <2>4
<1> HIDE DEF q
<1>4. tx' \in OneTx /\ tx'.outs # <<>>
  BY <1>1, <1>3 DEF OneTx
<1>5. CoinTypeOK'
  BY <1>1, <1>2, <1>4 DEF CoinInv, CoinTypeOK
<1> QED
  BY <1>1, <1>4, <1>5, SingleStep

\* The coins of one transaction are picked.
LEMMA PickingSteps ==
    ASSUME CoinInv, PickCoin \/ CoinsPicked
    PROVE  CoinInv'
<1>1. phase = "picking" /\ UNCHANGED <<mode, asked, left, bundle>>
  BY DEF PickCoin, CoinsPicked
<1>2. CoinTypeOK /\ mode = "single" /\ tx.outs # <<>> /\ tx \in OneTx /\ coins \in Seq(Nat)
  BY <1>1 DEF CoinInv, CoinTypeOK
<1>3. CASE PickCoin
  <2> DEFINE q == Append(tx.ins, Head(coins))
  <2>1. coins' \in Seq(Nat) /\ Head(coins) \in Nat
    BY <1>2, <1>3 DEF PickCoin
  <2>2. q \in Seq(Nat)
    BY <1>2, <2>1 DEF OneTx
  <2>3. tx' = [tx EXCEPT !.ins = q] /\ UNCHANGED <<keys, skip, phase>>
    BY <1>3 DEF PickCoin
  <2> HIDE DEF q
  <2>4. tx' \in OneTx /\ tx'.outs # <<>>
    BY <1>2, <2>2, <2>3 DEF OneTx
  <2>5. CoinTypeOK'
    BY <1>1, <1>2, <2>1, <2>3, <2>4 DEF CoinTypeOK
  <2> QED
    BY <1>1, <1>2, <2>3, <2>4, <2>5, SingleStep
<1>4. CASE CoinsPicked
  <2>1. /\ phase' \in {"thrown", "change"} /\ tx' = tx /\ coins' = coins
        /\ keys' \in Nat /\ skip' \in Int
    BY <1>2, <1>4, CoinAssumption DEF CoinsPicked, CoinTypeOK
  <2>2. CoinTypeOK'
    BY <1>1, <1>2, <2>1 DEF CoinTypeOK
  <2> QED
    BY <1>1, <1>2, <2>1, <2>2, SingleStep
<1> QED
  BY <1>3, <1>4

\* A finished transaction in whatever order its outputs were shuffled.
LEMMA ShuffledBuilt ==
    ASSUME NEW t \in OneTx, PayeeFirst(t.outs, dustLimit - minFeePerByte),
           FeeEnough(t), FeeSmall(t), NEW p, Reorders(p, Len(t.outs)),
           NEW b \in PaidTx, b.ins = t.ins, b.outs = Reordered(t.outs, p),
           b.vout \in 1..Len(t.outs), p[b.vout] = 1
    PROVE  Built(b) /\ b.outs[b.vout] = t.outs[1]
<1> DEFINE n == Len(t.outs)
<1>1. /\ t.ins \in Seq(Nat) /\ t.outs \in Seq(Paid) /\ n \in Nat /\ DOMAIN t.outs = 1..n
      /\ p \in [1..n -> 1..n]
      /\ \A k, l \in 1..n : p[k] = p[l] => k = l
  <2>1. /\ p \in [1..n -> 1..n]
        /\ \A k, l \in 1..n : p[k] = p[l] => k = l
    BY Zenon DEF Reorders
  <2> QED
    BY <2>1 DEF OneTx
<1>2. /\ DOMAIN b.outs = 1..n /\ Len(b.outs) = n
      /\ \A i \in 1..n : b.outs[i] = t.outs[p[i]]
      /\ Total(Sats(b.outs)) = Total(Sats(t.outs))
  <2> DEFINE r == Reordered(t.outs, p)
  <2>1. r \in Seq(Paid) /\ Len(r) = n /\ Total(Sats(r)) = Total(Sats(t.outs))
    BY <1>1, PaidTotals
  <2>2. DOMAIN r = 1..n /\ \A i \in 1..n : r[i] = t.outs[p[i]]
    BY <1>1 DEF Reordered
  <2>3. b.outs = r
    OBVIOUS
  <2> HIDE DEF r
  <2> QED
    BY <2>1, <2>2, <2>3
<1> HIDE DEF n
<1>3. Fee(b) = Fee(t) /\ _estimateSize(b) = _estimateSize(t)
  <2>1. Len(b.outs) = Len(t.outs) /\ b.ins = t.ins
    BY <1>2 DEF n
  <2> QED
    BY <1>2, <2>1, Zenon DEF Fee, inputAmount, outputAmount, _estimateSize
<1>4. FeeEnough(b) /\ FeeSmall(b)
  BY <1>3 DEF FeeEnough, FeeSmall
<1>5. ASSUME NEW i \in 1..n
      PROVE  /\ (b.outs[i].to = "payee") <=> (i = b.vout)
             /\ b.outs[i].to = "change" => b.outs[i].sats >= dustLimit - minFeePerByte
  <2>1. p[i] \in 1..n /\ b.outs[i] = t.outs[p[i]]
    BY <1>1, <1>2
  <2>2. CASE i = b.vout
    BY <2>1, <2>2 DEF PayeeFirst
  <2>3. CASE i # b.vout
    <3>1. p[i] # 1
      BY <1>1, <2>3 DEF n
    <3>2. p[i] \in 2..Len(t.outs)
      BY <1>1, <2>1, <3>1 DEF n
    <3> QED
      BY <2>1, <2>3, <3>2 DEF PayeeFirst
  <2> QED
    BY <2>2, <2>3
<1> QED
  BY <1>2, <1>4, <1>5 DEF Built, n

\* A transaction is signed and put in the bundle; the set goes on or is done.
LEMMA FinishStep == CoinInv /\ Finish => CoinInv'
<1> SUFFICES ASSUME CoinInv, Finish PROVE CoinInv'
  OBVIOUS
<1> DEFINE n == Len(tx.outs)
           same == Places(n)
           Shuffled(s, js) == IF mode = "set" THEN shuffleArray(s, js) ELSE s
<1>1. /\ phase = "shuffle" /\ tx' = NoTx
      /\ phase' = IF mode = "set" /\ left > 0 THEN "staging" ELSE "done"
      /\ UNCHANGED <<mode, asked, coins, left, keys, skip>>
  BY DEF Finish
<1>2. PICK js \in [2..n -> 1..n] :
        bundle' = Append(bundle,
                    [ins |-> tx.ins, outs |-> Shuffled(tx.outs, js),
                     vout |-> CHOOSE i \in 1..n : Shuffled(same, js)[i] = 1])
  BY Zenon DEF Finish, Places
<1>3. /\ CoinTypeOK /\ tx \in OneTx /\ tx.outs # <<>> /\ tx.ins \in Seq(Nat)
      /\ tx.outs \in Seq(Paid) /\ bundle \in Seq(PaidTx)
  BY <1>1 DEF CoinInv, CoinTypeOK, OneTx
<1>4. n \in Nat /\ n >= 1 /\ 1 \in 1..n /\ DOMAIN tx.outs = 1..n
  BY <1>3
<1> DEFINE outs == Shuffled(tx.outs, js)
           p == Shuffled(same, js)
           vout == CHOOSE i \in 1..n : p[i] = 1
           b == [ins |-> tx.ins, outs |-> outs, vout |-> vout]
<1>5. Reorders(p, n) /\ outs = Reordered(tx.outs, p)
  <2>1. CASE mode = "set"
    <3>1. Draws(js, Len(tx.outs))
      BY DEF Draws
    <3>2. /\ Reorders(shuffleArray(same, js), n)
          /\ shuffleArray(tx.outs, js) = Reordered(tx.outs, shuffleArray(same, js))
      BY <1>3, <1>4, <3>1, ShuffleOrders
    <3> QED
      BY <2>1, <3>2, Zenon
  <2>2. CASE mode # "set"
    <3>1. p = same /\ outs = tx.outs
      BY <2>2
    <3>2. Reorders(same, n)
      BY <1>4 DEF Reorders, Places
    <3>3. tx.outs = Reordered(tx.outs, same)
      <4> DEFINE s == tx.outs
      <4>1. \A i \in DOMAIN s : same[i] = i
        BY <1>4 DEF Places
      <4>2. s \in Seq(Paid)
        BY <1>3
      <4> HIDE DEF s, same
      <4>3. s = [i \in DOMAIN s |-> s[i]]
        BY <4>2
      <4>4. s = Reordered(s, same)
        BY <4>1, <4>3 DEF Reordered
      <4> QED
        BY <4>4 DEF s
    <3> HIDE DEF p, outs, same
    <3> QED
      BY <3>1, <3>2, <3>3
  <2> QED
    BY <2>1, <2>2
<1> HIDE DEF p, outs
<1>6. vout \in 1..n /\ p[vout] = 1
  <2>1. \E i \in 1..n : p[i] = 1
    BY <1>4, <1>5 DEF Reorders
  <2> QED
    BY <2>1
<1>7. bundle' = Append(bundle, b)
  BY <1>2 DEF p, outs
<1> HIDE DEF vout
<1>8. b \in PaidTx /\ b.ins = tx.ins /\ b.outs = outs /\ b.vout = vout
  <2>1. outs \in Seq(Paid)
    BY <1>3, <1>5, PaidTotals
  <2>2. vout \in Int
    BY <1>4, <1>6
  <2> QED
    BY <1>3, <2>1, <2>2 DEF PaidTx
<1> HIDE DEF b, n
<1>9. tx' \in OneTx /\ tx'.outs = <<>>
  BY <1>1 DEF NoTx, OneTx
<1>10. CoinTypeOK'
  <2>1. bundle' \in Seq(PaidTx)
    BY <1>3, <1>7, <1>8
  <2> QED
    BY <1>1, <1>3, <1>9, <2>1 DEF CoinTypeOK
<1>11. SetSoFar'
  <2> SUFFICES ASSUME mode = "set" PROVE SetSoFar'
    BY <1>1 DEF SetSoFar
  <2>1. /\ Len(asked) = 1
        /\ \A k \in DOMAIN bundle : Built(bundle[k])
        /\ Total(Payees(bundle)) + tx.outs[1].sats + left = asked[1]
        /\ FeeEnough(tx) /\ FeeSmall(tx) /\ PayeeFirst(tx.outs, dustLimit - minFeePerByte)
    BY <1>1 DEF CoinInv, SetSoFar
  <2>2. Built(b) /\ b.outs[b.vout] = tx.outs[1]
    <3>1. /\ Reorders(p, Len(tx.outs)) /\ b.outs = Reordered(tx.outs, p)
          /\ b.vout \in 1..Len(tx.outs) /\ p[b.vout] = 1
      BY <1>5, <1>6, <1>8 DEF n
    <3> QED
      BY <1>3, <1>8, <2>1, <3>1, ShuffledBuilt
  <2>3. \A k \in DOMAIN bundle' : Built(bundle'[k])
    <3>1. /\ DOMAIN bundle' = 1..(Len(bundle) + 1) /\ DOMAIN bundle = 1..Len(bundle)
          /\ \A k \in 1..Len(bundle) : bundle'[k] = bundle[k]
          /\ bundle'[Len(bundle) + 1] = b
          /\ \A k \in 1..(Len(bundle) + 1) : k \in 1..Len(bundle) \/ k = Len(bundle) + 1
      BY <1>3, <1>7, <1>8
    <3> QED
      BY <2>1, <2>2, <3>1
  <2>4. Total(Payees(bundle')) = Total(Payees(bundle)) + tx.outs[1].sats
    <3>1. /\ \A k \in DOMAIN bundle : bundle[k].vout \in DOMAIN bundle[k].outs
          /\ b.vout \in DOMAIN b.outs
      BY <2>1, <2>2 DEF Built
    <3>2. Total(Payees(Append(bundle, b))) = Total(Payees(bundle)) + b.outs[b.vout].sats
      BY <1>3, <1>8, <3>1, PayeesAppend
    <3> QED
      BY <1>7, <2>2, <3>2
  <2>5. Total(Payees(bundle)) \in Int /\ tx.outs[1].sats \in Int /\ left \in Nat
    <3>1. \A k \in DOMAIN bundle : bundle[k].vout \in DOMAIN bundle[k].outs
      BY <2>1 DEF Built
    <3>2. tx.outs[1] \in Paid
      BY <1>3, <1>4 DEF n
    <3> QED
      BY <1>3, <3>1, <3>2, PayeesTotal DEF Paid, CoinTypeOK
  <2>6. CASE left > 0
    <3>1. phase' = "staging"
      BY <1>1, <2>6
    <3>2. Total(Payees(bundle')) + left' = asked'[1]
      BY <1>1, <2>1, <2>4, <2>5
    <3> QED
      BY <1>1, <1>9, <2>1, <2>3, <3>1, <3>2 DEF SetSoFar
  <2>7. CASE ~(left > 0)
    <3>1. phase' = "done"
      BY <1>1, <2>7
    <3>2. Total(Payees(bundle')) = asked'[1]
      BY <1>1, <2>1, <2>4, <2>5, <2>7
    <3> QED
      BY <1>1, <2>1, <2>3, <3>1, <3>2 DEF SetSoFar
  <2> QED
    BY <2>6, <2>7
<1> QED
  BY <1>1, <1>10, <1>11 DEF CoinInv

\* Whatever coins the wallet holds and whatever is drawn, the calls keep CoinInv.
THEOREM CoinInvariant == CoinSpec => []CoinInv
<1>1. CoinInit => CoinInv
  <2> SUFFICES ASSUME CoinInit PROVE CoinInv
    OBVIOUS
  <2>1. tx \in OneTx
    BY DEF CoinInit, NoTx, OneTx
  <2>2. CoinTypeOK
    BY <2>1 DEF CoinInit, CoinTypeOK
  <2> QED
    BY <2>2 DEF CoinInit, CoinInv, SetSoFar
<1>2. CoinInv /\ [CoinNext]_coinVars => CoinInv'
  <2> SUFFICES ASSUME CoinInv, [CoinNext]_coinVars PROVE CoinInv'
    OBVIOUS
  <2>1. ASSUME NEW a \in Amounts, constructTransactionSet(a) PROVE CoinInv'
    BY <2>1, SetStep
  <2>2. ASSUME NEW a \in Amounts, constructTransaction(<<a>>) PROVE CoinInv'
    <3>1. <<a>> \in Seq(Nat) /\ <<a>> # <<>>
      BY CoinAssumption
    <3> QED
      BY <2>2, <3>1, OneStep
  <2>3. ASSUME NEW a \in Amounts, NEW b \in Amounts, constructTransaction(<<a, b>>) PROVE CoinInv'
    <3>1. <<a, b>> \in Seq(Nat) /\ <<a, b>> # <<>>
      BY CoinAssumption
    <3> QED
      BY <2>3, <3>1, OneStep
  <2>4. CASE StageCoin
    BY <2>4, StageStep
  <2>5. CASE OutOfUtxos \/ Overflow
    BY <2>5, ThrowingSteps
  <2>6. CASE PickCoin \/ CoinsPicked
    BY <2>6, PickingSteps
  <2>7. ASSUME NEW s \in Splits, AddChange(s) PROVE CoinInv'
    BY <2>7, AddChangeStep
  <2>8. CASE KeysTried
    BY <2>8, IdleSteps
  <2>9. CASE OneOff
    BY <2>9, OneOffStep
  <2>10. ASSUME NEW i \in 2..Len(tx.outs), Sweep(i) PROVE CoinInv'
    BY <2>10, SweepStep
  <2>11. ASSUME NEW i \in 2..Len(tx.outs), SweepThrows(i) PROVE CoinInv'
    BY <2>11, IdleSteps
  <2>12. CASE Finish
    BY <2>12, FinishStep
  <2>13. CASE UNCHANGED coinVars
    <3>1. UNCHANGED <<mode, asked, coins, left, tx, keys, skip, bundle, phase>>
      BY <2>13 DEF coinVars
    <3>2. CoinTypeOK'
      BY <3>1 DEF CoinInv, CoinTypeOK
    <3>3. SetSoFar'
      <4>1. FeeEnough(tx') = FeeEnough(tx) /\ FeeSmall(tx') = FeeSmall(tx)
        BY <3>1 DEF FeeEnough, FeeSmall, Fee, inputAmount, outputAmount, _estimateSize
      <4> QED
        BY <3>1, <4>1 DEF CoinInv, SetSoFar
    <3> QED
      BY <3>1, <3>2, <3>3 DEF CoinInv
  <2> QED
    BY <2>1, <2>2, <2>3, <2>4, <2>5, <2>6, <2>7, <2>8, <2>9, <2>10, <2>11, <2>12, <2>13
    DEF CoinNext
<1> QED
  BY <1>1, <1>2, PTL DEF CoinSpec

\* The types hold in every state of a call: what is left to pay is never
\* negative, and coins are used only while there are some.
THEOREM CoinTypeCorrect == CoinSpec => []CoinTypeOK
<1>1. CoinInv => CoinTypeOK
  BY DEF CoinInv
<1> QED
  BY <1>1, CoinInvariant, PTL

\* _buildTransactionSetForExplicitAmount and finalizeTransaction: the payees
\* of a finished set together get exactly the amount asked for, the index
\* noted for each transaction is that of its payee's output after the shuffle,
\* every fee is at least the minimum for the size and below what a change
\* output would have saved, and no change is more than one output byte's fee
\* below the dust limit.
THEOREM PaysTheorem == CoinSpec => []SetPaysAsAsked
<1>1. CoinInv => SetPaysAsAsked
  <2> SUFFICES ASSUME CoinInv, SetBuilt PROVE SetPaysAsAsked
    BY DEF SetPaysAsAsked
  <2>1. /\ bundle \in Seq(PaidTx) /\ Total(Payees(bundle)) = asked[1]
        /\ \A k \in DOMAIN bundle : Built(bundle[k])
    BY DEF CoinInv, CoinTypeOK, SetSoFar, SetBuilt
  <2>2. Total([k \in DOMAIN bundle |-> bundle[k].outs[bundle[k].vout].sats]) = asked[1]
    BY <2>1 DEF Payees
  <2>3. ASSUME NEW t \in PaidTx, Built(t)
        PROVE  /\ \A i \in DOMAIN t.outs : (t.outs[i].to = "payee") <=> (i = t.vout)
               /\ Fee(t) >= TrueSize(t) * minFeePerByte
               /\ Fee(t) < (_estimateSize(t) + standardUtxoSize) * minFeePerByte
                           + minimumNewInputAmount
               /\ \A i \in DOMAIN t.outs :
                    t.outs[i].to = "change" => t.outs[i].sats >= dustLimit - minFeePerByte
    <3>1. t.ins \in Seq(Nat) /\ t.outs \in Seq(Paid)
      BY DEF PaidTx
    <3>2. Fee(t) \in Int /\ Len(t.ins) \in Nat /\ Len(t.outs) \in Nat
      BY <3>1, FeeParts
    <3>3. Len(t.outs) >= 1
      BY <2>3, <3>1 DEF Built
    <3>4. Fee(t) >= (26 + Len(t.outs) * 35 + Len(t.ins) * 148) * 2 - 2
      BY <2>3 DEF Built, FeeEnough, _estimateSize, minFeePerByte
    <3> DEFINE m == Len(t.outs)
               n == Len(t.ins)
               f == Fee(t)
    <3>5. f >= (26 + m * 34 + n * 148) * 2
      <4>1. f \in Int /\ n \in Nat /\ m \in Nat /\ m >= 1
            /\ f >= (26 + m * 35 + n * 148) * 2 - 2
        BY <3>2, <3>3, <3>4
      <4> HIDE DEF m, n, f
      <4> QED
        BY <4>1
    <3>6. Fee(t) >= TrueSize(t) * minFeePerByte
      BY <3>5 DEF TrueSize, minFeePerByte
    <3> QED
      BY <2>3, <3>6 DEF Built, FeeSmall
  <2>4. \A k \in DOMAIN bundle : bundle[k] \in PaidTx
    BY <2>1
  <2> QED
    BY <2>1, <2>2, <2>3, <2>4 DEF SetPaysAsAsked
<1> QED
  BY <1>1, CoinInvariant, PTL

=============================================================================
