---------------------------- MODULE CoinSelection ----------------------------
(* How the wallet builds transactions from its coins (wallet/index.ts).
   constructTransactionSet splits an amount over several transactions (stamps
   and stealth payments); constructTransaction pays given outputs with one (a
   payment request, a burn, a plain address).  Both leave the change to
   finalizeTransaction.  Amounts are satoshis and the constants are those of
   the code, except the size limit, which is a parameter so that it is met. *)
EXTENDS Integers, Sequences, SequencesExt, Totals

CONSTANTS CoinValues,              \* what a coin of the wallet may hold
          MaxCoins,                \* how many coins it holds
          Amounts,                 \* what is to be paid
          Splits,                  \* percentages: Math.random() * 0.2 + 0.4
          NumChange,               \* change keys (20 in the code)
          maximumTransactionSize   \* 100000 in the code

ASSUME CoinAssumption ==
    /\ CoinValues \subseteq Nat /\ Amounts \subseteq Nat \ {0}
    /\ Splits \subseteq 40 .. 59
    /\ {MaxCoins, NumChange, maximumTransactionSize} \subseteq Nat \ {0}

standardUtxoSize == 34
standardInputSize == 175
minimumNewInputAmount == 5120
dustLimit == 546
minFeePerByte == 2
maxFeePerByte == 3

VARIABLES
    mode,     \* "set", "single": which of the two functions runs
    asked,    \* the amounts it was called with
    coins,    \* the coins not used yet, in the order the code sorted them
    left,     \* amountLeft
    tx,       \* the transaction being built: its inputs and outputs
    keys,     \* change keys finalizeTransaction has not tried
    skip,     \* skipAmount
    bundle,   \* the transactions that are done
    phase

coinVars == <<mode, asked, coins, left, tx, keys, skip, bundle, phase>>

-----------------------------------------------------------------------------
Least(a, b) == IF a < b THEN a ELSE b
Most(a, b) == IF a < b THEN b ELSE a
CeilDiv(a, b) == -((-a) \div b)

NoTx == [ins |-> <<>>, outs |-> <<>>]

\* The first is the payee's, the rest of finalizeTransaction's are change.
Out(to, sats) == [to |-> to, sats |-> sats]

_estimateSize(t) == 26 + Len(t.outs) * 35 + Len(t.ins) * 148

inputAmount(t) == Total(t.ins)
outputAmount(t) == Total(Sats(t.outs))
Fee(t) == inputAmount(t) - outputAmount(t)

\* Order of magnitude: floor(log2(amount)); nothing equals that of 0.
OOM(amount) ==
    IF amount = 0 THEN -1
    ELSE CHOOSE k \in 0 .. 30 : 2 ^ k <= amount /\ amount < 2 ^ (k + 1)

\* shuffleArray: from the last place down, each is swapped with an earlier one.
\* js gives Math.floor(Math.random() * i) for every i.
Swapped(s, i, j) == [s EXCEPT ![i] = s[j], ![j] = s[i]]

shuffleArray(s, js) ==
    LET after[k \in 0 .. Len(s) - 1] ==
          IF k = 0 THEN s ELSE LET i == Len(s) + 1 - k IN Swapped(after[k - 1], i, js[i])
    IN  after[Len(s) - 1]

-----------------------------------------------------------------------------
CoinInit ==
    /\ mode = "none" /\ asked = <<>> /\ coins = <<>> /\ left = 0
    /\ tx = NoTx /\ keys = 0 /\ skip = 0 /\ bundle = <<>> /\ phase = "idle"

\* Unfrozen coins in ascending order.
Sorted == UNION {{s \in [1 .. n -> CoinValues] :
                     \A i \in 1 .. n - 1 : s[i] <= s[i + 1]} : n \in 0 .. MaxCoins}

constructTransactionSet(amount) ==
    /\ phase = "idle"
    /\ mode' = "set" /\ asked' = <<amount>>
    /\ coins' \in Sorted
    /\ left' = amount
    /\ phase' = "staging"
    /\ UNCHANGED <<tx, keys, skip, bundle>>

\* The inner loop of _buildTransactionSetForExplicitAmount: add a coin, and
\* another one while no transaction can be made or made well.
StageCoin ==
    /\ phase = "staging" /\ coins # <<>>
    /\ LET usable == Most(CeilDiv(asked[1], 2), minimumNewInputAmount)
           requisite ==
             Least(left, usable) - inputAmount(tx)
             + (_estimateSize(tx) + standardUtxoSize + standardInputSize)
               * maxFeePerByte
           smaller == {i \in DOMAIN coins : coins[i] < requisite}
           at == IF smaller # {} THEN Max(smaller) ELSE 1
           staged == [tx EXCEPT !.ins = Append(@, coins[at])]
           satoshis == inputAmount(staged)
           txnSize == _estimateSize(staged)
           available == satoshis - (txnSize + standardUtxoSize) * minFeePerByte
           amountToUse == Least(left, available)
           forChange == satoshis - amountToUse
                        - (txnSize + standardUtxoSize) * minFeePerByte
           overage == left - amountToUse
           again == \/ available < dustLimit
                    \/ /\ forChange > (txnSize + standardUtxoSize) * maxFeePerByte
                       /\ forChange < dustLimit + standardUtxoSize * minFeePerByte
                    \/ overage > 0 /\ overage < minimumNewInputAmount
       IN  /\ coins' = RemoveAt(coins, at)
           /\ IF again
              THEN tx' = staged /\ UNCHANGED <<left, keys, skip, phase>>
              ELSE /\ tx' = [staged EXCEPT !.outs =
                               Append(@, Out("payee", amountToUse))]
                   /\ left' = left - amountToUse
                   /\ keys' = NumChange /\ skip' = 0 /\ phase' = "change"
    /\ UNCHANGED <<mode, asked, bundle>>

\* RangeError: out of utxos, unable to construct transaction set
OutOfUtxos ==
    /\ phase = "staging" /\ coins = <<>>
    /\ phase' = "thrown"
    /\ UNCHANGED <<mode, asked, coins, left, tx, keys, skip, bundle>>

\* One coin when one is enough (the smallest such), else all, largest first.
constructTransaction(amounts) ==
    /\ phase = "idle"
    /\ mode' = "single" /\ asked' = amounts
    /\ tx' = [ins |-> <<>>,
              outs |-> [i \in DOMAIN amounts |-> Out("payee", amounts[i])]]
    /\ \E s \in Sorted :
         LET bigger == {i \in DOMAIN s :
                          s[i] >= Total(amounts)
                                  + (_estimateSize(tx') + standardUtxoSize
                                     + standardInputSize) * minFeePerByte}
         IN  coins' = IF bigger # {} THEN <<s[Min(bigger)]>> ELSE Reverse(s)
    /\ phase' = "picking"
    /\ UNCHANGED <<left, keys, skip, bundle>>

Covered == inputAmount(tx) > Total(asked) + _estimateSize(tx) * minFeePerByte

PickCoin ==
    /\ phase = "picking" /\ coins # <<>> /\ ~Covered
    /\ tx' = [tx EXCEPT !.ins = Append(@, Head(coins))]
    /\ coins' = Tail(coins)
    /\ UNCHANGED <<mode, asked, left, keys, skip, bundle, phase>>

\* The loop over the coins is over; Error: insufficient funds.
CoinsPicked ==
    /\ phase = "picking" /\ (coins = <<>> \/ Covered)
    /\ IF inputAmount(tx) < Total(asked)
       THEN phase' = "thrown" /\ UNCHANGED <<keys, skip>>
       ELSE phase' = "change" /\ keys' = NumChange /\ skip' = 0
    /\ UNCHANGED <<mode, asked, coins, left, tx, bundle>>

-----------------------------------------------------------------------------
(* finalizeTransaction *)

futureFee == (_estimateSize(tx) + standardUtxoSize) * minFeePerByte

\* One turn of the loop over the change keys, with randomSplit = split / 100.
\* A change output of the payee's order of magnitude is put off.
AddChange(split) ==
    /\ phase = "change" /\ keys > 0
    /\ LET delta == Fee(tx) - skip
           rest == delta - futureFee - skip - dustLimit
           amount == CeilDiv(split * rest, 100) + skip + dustLimit
       IN  IF delta < dustLimit + futureFee
           THEN phase' = "sweep" /\ UNCHANGED <<tx, keys, skip>>
           ELSE /\ keys' = keys - 1
                /\ IF OOM(tx.outs[1].sats) = OOM(amount)
                   THEN skip' = skip + amount /\ UNCHANGED tx
                   ELSE /\ skip' = 0
                        /\ tx' = [tx EXCEPT !.outs =
                                    Append(@, Out("change", amount))]
                /\ UNCHANGED phase
    /\ UNCHANGED <<mode, asked, coins, left, bundle>>

KeysTried ==
    /\ phase = "change" /\ keys = 0
    /\ phase' = "sweep"
    /\ UNCHANGED <<mode, asked, coins, left, tx, keys, skip, bundle>>

\* With a single output: one change output when it is worth it.
OneOff ==
    /\ phase = "sweep" /\ Len(tx.outs) = 1
    /\ LET amount == Fee(tx) - futureFee
       IN  tx' = IF amount >= minimumNewInputAmount
                 THEN [tx EXCEPT !.outs = Append(@, Out("change", amount))]
                 ELSE tx
    /\ phase' = "shuffle"
    /\ UNCHANGED <<mode, asked, coins, left, keys, skip, bundle>>

\* What the inputs hold beyond the outputs and the fee; it may be negative.
amountToAdd == Fee(tx) - _estimateSize(tx) * minFeePerByte

\* The draw without its + 1: the payee's output may be the one.
SweepFirst(i) ==
    /\ phase = "sweep" /\ i \in 2 .. Len(tx.outs)
    /\ tx.outs[i - 1].sats + amountToAdd >= 0
    /\ tx' = [tx EXCEPT !.outs[i - 1].sats = @ + amountToAdd]
    /\ phase' = "shuffle"
    /\ UNCHANGED <<mode, asked, coins, left, keys, skip, bundle>>

\* Otherwise what is left beyond the fee goes to an output after the first.
Sweep(i) ==
    /\ phase = "sweep" /\ i \in 2 .. Len(tx.outs)
    /\ tx.outs[i].sats + amountToAdd >= 0
    /\ tx' = [tx EXCEPT !.outs[i].sats = @ + amountToAdd]
    /\ phase' = "shuffle"
    /\ UNCHANGED <<mode, asked, coins, left, keys, skip, bundle>>

\* Error: Output satoshis is not a natural number (the setter of satoshis)
SweepThrows(i) ==
    /\ phase = "sweep" /\ i \in 2 .. Len(tx.outs)
    /\ tx.outs[i].sats + amountToAdd < 0
    /\ phase' = "thrown"
    /\ UNCHANGED <<mode, asked, coins, left, tx, keys, skip, bundle>>

\* Shuffle (for a set), sign, and note where the payee's output went; then the
\* next transaction of the set.
TooLarge == mode = "set" /\ _estimateSize(tx) > maximumTransactionSize

Finish ==
    /\ phase = "shuffle" /\ ~TooLarge
    /\ LET n == Len(tx.outs)
           same == [i \in 1 .. n |-> i]
           draws == {js \in [2 .. n -> 1 .. n] : \A i \in 2 .. n : js[i] < i}
       IN  \E js \in draws :
             LET Shuffled(s) == IF mode = "set" THEN shuffleArray(s, js) ELSE s
             IN  bundle' = Append(bundle,
                   [ins |-> tx.ins, outs |-> Shuffled(tx.outs),
                    vout |-> CHOOSE i \in 1 .. n : Shuffled(same)[i] = 1])
    /\ tx' = NoTx
    /\ phase' = IF mode = "set" /\ left > 0 THEN "staging" ELSE "done"
    /\ UNCHANGED <<mode, asked, coins, left, keys, skip>>

\* RangeError: overflow on transaction size
Overflow ==
    /\ phase = "shuffle" /\ TooLarge
    /\ phase' = "thrown"
    /\ UNCHANGED <<mode, asked, coins, left, tx, keys, skip, bundle>>

CoinNext ==
    \/ \E a \in Amounts : constructTransactionSet(a)
    \/ \E a \in Amounts : constructTransaction(<<a>>)
    \/ \E a, b \in Amounts : constructTransaction(<<a, b>>)
    \/ StageCoin
    \/ OutOfUtxos
    \/ PickCoin
    \/ CoinsPicked
    \/ \E s \in Splits : AddChange(s)
    \/ KeysTried
    \/ OneOff
    \/ \E i \in 2 .. Len(tx.outs) : Sweep(i) \/ SweepThrows(i)
    \/ Finish
    \/ Overflow

CoinSpec == CoinInit /\ [][CoinNext]_coinVars

-----------------------------------------------------------------------------
\* A P2PKH output takes 34 bytes, one less than _estimateSize counts.
TrueSize(t) == 26 + Len(t.outs) * 34 + Len(t.ins) * 148

SetBuilt == phase = "done" /\ mode = "set"

\* Transactions of a set, however the coins, the draws and the change keys
\* fall: the payees together get the amount asked for; the recorded output
\* index is the payee's; the fee is at least the minimum for the size and is
\* never more than a coin the code would have kept beyond that; and every
\* change output is within one output byte's fee of the dust limit.
SetPaysAsAsked ==
    SetBuilt =>
      /\ Total([k \in DOMAIN bundle |-> bundle[k].outs[bundle[k].vout].sats])
           = asked[1]
      /\ \A k \in DOMAIN bundle :
           LET t == bundle[k] IN
           /\ \A i \in DOMAIN t.outs : (t.outs[i].to = "payee") <=> (i = t.vout)
           /\ Fee(t) >= TrueSize(t) * minFeePerByte
           /\ Fee(t) < (_estimateSize(t) + standardUtxoSize) * minFeePerByte
                       + minimumNewInputAmount
           /\ \A i \in DOMAIN t.outs :
                t.outs[i].to = "change" =>
                    t.outs[i].sats >= dustLimit - minFeePerByte

=============================================================================
