--------------------------- MODULE SequenceProofs ---------------------------
(***************************************************************************)
(* What the helpers on sequences return: the least element of a set of     *)
(* positions, the elements at some positions, a sequence without one of    *)
(* its elements, the orders of a finite set, the total of numbers, the     *)
(* sequences of a sequence joined to one.  The proofs about the chats, the *)
(* mailbox, the forum, the transactions and the envelope rest on these     *)
(* facts.                                                                  *)
(*                                                                         *)
(* Induction over numbers is stated of sets (InductionOverNat), so that it *)
(* takes no operator as a parameter; a recursive function exists because   *)
(* its steps can be taken one after another (Iterates).                    *)
(***************************************************************************)
EXTENDS Subsequence, Totals, SequencesExt, FiniteSetTheorems, TLAPS

\* A nonempty set of natural numbers has a least element, which Min returns.
LEMMA MinProperties ==
    ASSUME NEW S, S \subseteq Nat, S # {}
    PROVE  Min(S) \in S /\ \A y \in S : Min(S) <= y
<1>1. \E x \in S : \A y \in S : ~(<<y, x>> \in OpToRel(<, Nat))
  BY WFMin, NatLessThanWellFounded, Zenon
<1>2. \A x, y \in Nat : y < x => <<y, x>> \in OpToRel(<, Nat)
  BY DEF OpToRel
<1>3. \A x, y \in Nat : ~(y < x) => x <= y
  OBVIOUS
<1>4. \E x \in S : \A y \in S : x <= y
  BY <1>1, <1>2, <1>3, Zenon
<1> QED
  BY <1>4, Zenon DEF Min

\* The k-th position is one of the positions for every k up to their number,
\* the positions are counted in their order, and none is left out.
LEMMA NthProperties ==
    ASSUME NEW at, at \subseteq Nat, IsFiniteSet(at)
    PROVE  /\ \A k \in 1..Cardinality(at) : Nth(at, k) \in at
           /\ \A k, l \in 1..Cardinality(at) : k < l => Nth(at, k) < Nth(at, l)
           /\ \A i \in at : \E k \in 1..Cardinality(at) : Nth(at, k) = i
<1> DEFINE upto(i) == {j \in at : j <= i}
           found(k) == \E i \in at : Cardinality(upto(i)) = k
<1>1. ASSUME NEW i PROVE IsFiniteSet(upto(i)) /\ Cardinality(upto(i)) \in Nat
  BY FS_Subset, FS_CardinalityType
<1>2. ASSUME NEW k \in 1..Cardinality(at), ~found(k) PROVE FALSE
  <2> DEFINE Bad == {n \in 1..Cardinality(at) : ~found(n)}
  <2>1. Cardinality(at) \in Nat /\ k \in Bad
    BY <1>2, FS_CardinalityType
  <2>2. Bad # {} /\ Bad \subseteq Nat
    BY <2>1
  <2>3. PICK m \in Bad : \A n \in Bad : m <= n
    BY <2>2, MinProperties
  <2>4. m \in 1..Cardinality(at) /\ ~found(m)
    BY <2>3
  <2> HIDE DEF Bad
  <2>5. ASSUME NEW S, S \subseteq at, IsFiniteSet(S), Cardinality(S) = m - 1,
               \A j \in S : \A q \in at \ S : j < q
        PROVE  FALSE
    <3>1. S # at
      BY <2>1, <2>4, <2>5
    <3>2. at \ S # {} /\ at \ S \subseteq Nat
      BY <3>1, <2>5
    <3>3. PICK p \in at \ S : \A q \in at \ S : p <= q
      BY <3>2, MinProperties
    <3>4. upto(p) = S \cup {p}
      <4>1. ASSUME NEW j \in S PROVE j \in at /\ j <= p
        BY <2>5, <3>3, <4>1
      <4>2. ASSUME NEW j \in at, j <= p, j \notin S PROVE j = p
        BY <3>3, <4>2
      <4> QED
        BY <3>3, <4>1, <4>2
    <3>5. Cardinality(upto(p)) = Cardinality(S) + 1
      BY <3>3, <3>4, <2>5, FS_AddElement
    <3>6. Cardinality(upto(p)) = m
      BY <3>5, <2>4, <2>5, <2>1
    <3> QED
      BY <3>3, <3>6, <2>4
  <2>6. CASE m = 1
    <3>1. Cardinality({}) = m - 1 /\ IsFiniteSet({})
      BY <2>6, FS_EmptySet
    <3> QED
      BY <3>1, <2>5
  <2>7. CASE m # 1
    <3>1. m - 1 \in 1..Cardinality(at) /\ ~(m <= m - 1)
      BY <2>1, <2>4, <2>7
    <3>2. m - 1 \notin Bad
      BY <2>3, <3>1
    <3>3. found(m - 1)
      BY <3>1, <3>2 DEF Bad
    <3>4. PICK i \in at : Cardinality(upto(i)) = m - 1
      BY <3>3
    <3>5. \A j \in upto(i) : \A q \in at \ upto(i) : j < q
      OBVIOUS
    <3> HIDE DEF upto
    <3>6. upto(i) \subseteq at
      BY DEF upto
    <3> QED
      BY <3>4, <3>5, <3>6, <2>5, <1>1
  <2> QED
    BY <2>6, <2>7
<1>3. ASSUME NEW k \in 1..Cardinality(at)
      PROVE  Nth(at, k) \in at /\ Cardinality(upto(Nth(at, k))) = k
  <2>1. found(k)
    BY <1>2
  <2> QED
    BY <2>1 DEF Nth
<1>4. ASSUME NEW i \in at, NEW j \in at, Cardinality(upto(j)) >= Cardinality(upto(i)), j <= i
      PROVE  i = j
  <2>1. upto(j) \subseteq upto(i)
    <3> SUFFICES ASSUME NEW x \in at, x <= j PROVE x <= i
      OBVIOUS
    <3>1. x \in Nat /\ i \in Nat /\ j \in Nat
      OBVIOUS
    <3> QED
      BY <3>1, <1>4
  <2>2. Cardinality(upto(j)) = Cardinality(upto(i)) => upto(i) = upto(j)
    BY <2>1, <1>1, FS_Subset
  <2>3. Cardinality(upto(j)) <= Cardinality(upto(i))
    BY <2>1, <1>1, FS_Subset
  <2>4. upto(i) = upto(j)
    BY <2>2, <2>3, <1>1, <1>4
  <2>5. i \in upto(i)
    BY <1>4
  <2> QED
    BY <2>4, <2>5, <1>4
<1>5. ASSUME NEW k \in 1..Cardinality(at), NEW l \in 1..Cardinality(at), k < l
      PROVE  Nth(at, k) < Nth(at, l)
  <2>1. /\ Nth(at, k) \in at /\ Cardinality(upto(Nth(at, k))) = k
        /\ Nth(at, l) \in at /\ Cardinality(upto(Nth(at, l))) = l
    BY <1>3
  <2> HIDE DEF upto
  <2>2. k \in Nat /\ l \in Nat /\ Cardinality(at) \in Nat
    BY FS_CardinalityType
  <2>3. Nth(at, k) # Nth(at, l)
    BY <2>1, <2>2, <1>5
  <2>4. ASSUME Nth(at, l) <= Nth(at, k) PROVE FALSE
    <3>1. Cardinality(upto(Nth(at, l))) >= Cardinality(upto(Nth(at, k)))
      BY <2>1, <2>2, <1>5
    <3> QED
      BY <2>1, <2>3, <2>4, <3>1, <1>4
  <2>5. Nth(at, k) \in Nat /\ Nth(at, l) \in Nat
    BY <2>1
  <2> QED
    BY <2>4, <2>5
<1>6. ASSUME NEW i \in at PROVE \E k \in 1..Cardinality(at) : Nth(at, k) = i
  <2> DEFINE k == Cardinality(upto(i))
  <2>1. k \in 1..Cardinality(at)
    <3>1. upto(i) \subseteq at /\ upto(i) # {}
      OBVIOUS
    <3>2. k <= Cardinality(at) /\ k \in Nat /\ Cardinality(at) \in Nat
      BY <3>1, <1>1, FS_Subset, FS_CardinalityType
    <3>3. k # 0
      BY <3>1, <1>1, FS_EmptySet
    <3> QED
      BY <3>2, <3>3
  <2>2. Nth(at, k) \in at /\ Cardinality(upto(Nth(at, k))) = k
    BY <2>1, <1>3
  <2>3. k \in Nat
    BY <2>1, FS_CardinalityType
  <2>4. Nth(at, k) = i
    <3> DEFINE n == Nth(at, k)
    <3>1. n \in Nat /\ i \in Nat
      BY <2>2
    <3>2. Cardinality(upto(n)) = Cardinality(upto(i)) /\ Cardinality(upto(i)) \in Nat
      BY <2>2, <2>3
    <3> HIDE DEF upto, n
    <3>3. n \in at
      BY <2>2 DEF n
    <3>4. n <= i \/ i <= n
      BY <3>1
    <3>5. n = i
      BY <3>2, <3>3, <3>4, <1>4
    <3> QED
      BY <3>5 DEF n
  <2> QED
    BY <2>1, <2>4
<1> QED
  BY <1>3, <1>5, <1>6

\* Picked returns the elements at the given positions and no others, once each
\* when they differ.
LEMMA PickedProperties ==
    ASSUME NEW T, NEW s \in Seq(T), NEW at, at \subseteq DOMAIN s
    PROVE  /\ Picked(s, at) \in Seq(T)
           /\ ToSet(Picked(s, at)) = {s[i] : i \in at}
           /\ IsInjective(s) => IsInjective(Picked(s, at))
           /\ (\A i, j \in at : s[i] = s[j] => i = j) => IsInjective(Picked(s, at))
<1>1. at \subseteq Nat /\ IsFiniteSet(at) /\ Cardinality(at) \in Nat
  <2>1. DOMAIN s = 1..Len(s) /\ Len(s) \in Nat
    OBVIOUS
  <2>2. IsFiniteSet(1..Len(s))
    BY <2>1, FS_Interval
  <2> QED
    BY <2>1, <2>2, FS_Subset, FS_CardinalityType
<1> DEFINE n == Cardinality(at)
<1>2. /\ \A k \in 1..n : Nth(at, k) \in at
      /\ \A k, l \in 1..n : k < l => Nth(at, k) < Nth(at, l)
      /\ \A i \in at : \E k \in 1..n : Nth(at, k) = i
  BY <1>1, NthProperties
<1>3. n \in Nat
  BY <1>1
<1> HIDE DEF n
<1>4. Picked(s, at) = [k \in 1..n |-> s[Nth(at, k)]]
  BY DEF Picked, n
<1>5. Picked(s, at) \in Seq(T)
  <2>1. \A k \in 1..n : s[Nth(at, k)] \in T
    BY <1>2
  <2> QED
    BY <1>3, <1>4, <2>1
<1>6. ToSet(Picked(s, at)) = {s[i] : i \in at}
  BY <1>2, <1>4 DEF ToSet
<1>7. ASSUME NEW k \in 1..n, NEW l \in 1..n, Nth(at, k) = Nth(at, l) PROVE k = l
  <2>1. ~(k < l) /\ ~(l < k)
    BY <1>1, <1>2, <1>7
  <2> QED
    BY <1>3, <2>1
<1>8. ASSUME \A i, j \in at : s[i] = s[j] => i = j PROVE IsInjective(Picked(s, at))
  BY <1>2, <1>4, <1>7, <1>8 DEF IsInjective
<1>9. IsInjective(s) => \A i, j \in at : s[i] = s[j] => i = j
  BY DEF IsInjective
<1> QED
  BY <1>5, <1>6, <1>8, <1>9

\* Each element of Picked comes from a position of its own.
LEMMA PickedPositions ==
    ASSUME NEW T, NEW s \in Seq(T), NEW at, at \subseteq DOMAIN s
    PROVE  /\ \A k \in DOMAIN Picked(s, at) :
                 Nth(at, k) \in at /\ Picked(s, at)[k] = s[Nth(at, k)]
           /\ \A k, l \in DOMAIN Picked(s, at) : Nth(at, k) = Nth(at, l) => k = l
<1>1. at \subseteq Nat /\ IsFiniteSet(at) /\ Cardinality(at) \in Nat
  <2>1. DOMAIN s = 1..Len(s) /\ Len(s) \in Nat
    OBVIOUS
  <2>2. IsFiniteSet(1..Len(s))
    BY <2>1, FS_Interval
  <2> QED
    BY <2>1, <2>2, FS_Subset, FS_CardinalityType
<1> DEFINE n == Cardinality(at)
<1>2. /\ \A k \in 1..n : Nth(at, k) \in at
      /\ \A k, l \in 1..n : k < l => Nth(at, k) < Nth(at, l)
  BY <1>1, NthProperties
<1>3. n \in Nat
  BY <1>1
<1> HIDE DEF n
<1>4. DOMAIN Picked(s, at) = 1..n /\ \A k \in 1..n : Picked(s, at)[k] = s[Nth(at, k)]
  BY DEF Picked, n
<1>5. ASSUME NEW k \in 1..n, NEW l \in 1..n, Nth(at, k) = Nth(at, l) PROVE k = l
  <2>1. Nth(at, k) \in Nat /\ ~(k < l) /\ ~(l < k)
    BY <1>1, <1>2, <1>5
  <2> QED
    BY <1>3, <2>1
<1> QED
  BY <1>2, <1>4, <1>5

\* Two lists without repetitions and without a common element make one.
LEMMA ConcatOnce ==
    ASSUME NEW T, NEW s \in Seq(T), NEW t \in Seq(T)
    PROVE  /\ s \o t \in Seq(T)
           /\ ToSet(s \o t) = ToSet(s) \cup ToSet(t)
           /\ IsInjective(s) /\ IsInjective(t) /\ ToSet(s) \cap ToSet(t) = {}
                  => IsInjective(s \o t)
<1>1. /\ s \o t \in Seq(T) /\ Len(s) \in Nat /\ Len(t) \in Nat
      /\ DOMAIN s = 1..Len(s) /\ DOMAIN t = 1..Len(t)
      /\ DOMAIN (s \o t) = 1..(Len(s) + Len(t))
      /\ \A i \in 1..(Len(s) + Len(t)) :
            (s \o t)[i] = IF i <= Len(s) THEN s[i] ELSE t[i - Len(s)]
  OBVIOUS
<1>2. ToSet(s \o t) \subseteq ToSet(s) \cup ToSet(t)
  BY <1>1 DEF ToSet
<1>3. ToSet(s) \subseteq ToSet(s \o t)
  BY <1>1 DEF ToSet
<1>4. ToSet(t) \subseteq ToSet(s \o t)
  <2> SUFFICES ASSUME NEW i \in 1..Len(t) PROVE t[i] \in ToSet(s \o t)
    BY <1>1 DEF ToSet
  <2>1. Len(s) + i \in 1..(Len(s) + Len(t)) /\ (s \o t)[Len(s) + i] = t[i]
    BY <1>1
  <2> QED
    BY <1>1, <2>1 DEF ToSet
<1>5. ASSUME IsInjective(s), IsInjective(t), ToSet(s) \cap ToSet(t) = {}
      PROVE  IsInjective(s \o t)
  <2> SUFFICES ASSUME NEW i \in 1..(Len(s) + Len(t)), NEW j \in 1..(Len(s) + Len(t)),
                      (s \o t)[i] = (s \o t)[j]
               PROVE  i = j
    BY <1>1 DEF IsInjective
  <2>1. CASE i <= Len(s) /\ j <= Len(s)
    BY <1>1, <1>5, <2>1 DEF IsInjective
  <2>2. CASE ~(i <= Len(s)) /\ ~(j <= Len(s))
    <3>1. i - Len(s) \in DOMAIN t /\ j - Len(s) \in DOMAIN t
      BY <1>1, <2>2
    <3>2. t[i - Len(s)] = t[j - Len(s)]
      BY <1>1, <2>2
    <3>3. i - Len(s) = j - Len(s)
      BY <1>5, <3>1, <3>2 DEF IsInjective
    <3> QED
      BY <1>1, <3>3
  <2>3. ASSUME NEW k \in 1..(Len(s) + Len(t)), NEW l \in 1..(Len(s) + Len(t)),
               k <= Len(s), ~(l <= Len(s)), (s \o t)[k] = (s \o t)[l]
        PROVE  FALSE
    <3>1. k \in DOMAIN s /\ l - Len(s) \in DOMAIN t
      BY <1>1, <2>3
    <3>2. s[k] = t[l - Len(s)]
      BY <1>1, <2>3
    <3> QED
      BY <1>5, <3>1, <3>2 DEF ToSet
  <2> QED
    BY <2>1, <2>2, <2>3
<1> QED
  BY <1>1, <1>2, <1>3, <1>4, <1>5

\* An element appended to a list.
LEMMA AppendOnce ==
    ASSUME NEW T, NEW s \in Seq(T), NEW e \in T
    PROVE  /\ Append(s, e) \in Seq(T)
           /\ ToSet(Append(s, e)) = ToSet(s) \cup {e}
           /\ IsInjective(s) /\ e \notin ToSet(s) => IsInjective(Append(s, e))
<1>1. /\ Append(s, e) \in Seq(T) /\ Len(s) \in Nat
      /\ DOMAIN s = 1..Len(s)
      /\ DOMAIN Append(s, e) = 1..(Len(s) + 1)
      /\ \A i \in 1..Len(s) : Append(s, e)[i] = s[i]
      /\ Append(s, e)[Len(s) + 1] = e
  OBVIOUS
<1>2. 1..(Len(s) + 1) = 1..Len(s) \cup {Len(s) + 1} /\ Len(s) + 1 \notin 1..Len(s)
  BY <1>1
<1>3. ToSet(Append(s, e)) = ToSet(s) \cup {e}
  BY <1>1, <1>2 DEF ToSet
<1>4. IsInjective(s) /\ e \notin ToSet(s) => IsInjective(Append(s, e))
  BY <1>1, <1>2 DEF ToSet, IsInjective
<1> QED
  BY <1>1, <1>3, <1>4

\* A list up to one of its positions.
LEMMA PrefixOnce ==
    ASSUME NEW T, NEW s \in Seq(T), NEW n \in 0..Len(s)
    PROVE  /\ SubSeq(s, 1, n) \in Seq(T)
           /\ Len(SubSeq(s, 1, n)) = n
           /\ \A i \in 1..n : SubSeq(s, 1, n)[i] = s[i]
           /\ ToSet(SubSeq(s, 1, n)) = {s[i] : i \in 1..n}
           /\ ToSet(SubSeq(s, 1, n)) \subseteq ToSet(s)
           /\ IsInjective(s) => IsInjective(SubSeq(s, 1, n))
<1>1. /\ SubSeq(s, 1, n) \in Seq(T) /\ Len(s) \in Nat /\ DOMAIN s = 1..Len(s)
      /\ Len(SubSeq(s, 1, n)) = n /\ DOMAIN SubSeq(s, 1, n) = 1..n
      /\ \A i \in 1..n : SubSeq(s, 1, n)[i] = s[i] /\ i \in 1..Len(s)
  OBVIOUS
<1>2. /\ ToSet(SubSeq(s, 1, n)) = {s[i] : i \in 1..n}
      /\ ToSet(SubSeq(s, 1, n)) \subseteq ToSet(s)
  BY <1>1 DEF ToSet
<1>3. IsInjective(s) => IsInjective(SubSeq(s, 1, n))
  BY <1>1 DEF IsInjective
<1> QED
  BY <1>1, <1>2, <1>3

\* A list without the element at one of its positions.
LEMMA RemoveOnce ==
    ASSUME NEW T, NEW s \in Seq(T), NEW i \in DOMAIN s
    PROVE  /\ RemoveAt(s, i) \in Seq(T)
           /\ ToSet(RemoveAt(s, i)) \subseteq ToSet(s)
           /\ IsInjective(s) => /\ IsInjective(RemoveAt(s, i))
                                /\ ToSet(RemoveAt(s, i)) = ToSet(s) \ {s[i]}
<1> DEFINE r == RemoveAt(s, i)
<1>1. /\ Len(s) \in Nat /\ DOMAIN s = 1..Len(s) /\ i \in 1..Len(s)
  OBVIOUS
<1>2. /\ r \in Seq(T) /\ DOMAIN r = 1..(Len(s) - 1)
      /\ \A k \in 1..(Len(s) - 1) : r[k] = IF k < i THEN s[k] ELSE s[k + 1]
  <2> DEFINE p == SubSeq(s, 1, i - 1)
             q == SubSeq(s, i + 1, Len(s))
  <2>1. p \in Seq(T) /\ Len(p) = i - 1 /\ \A k \in 1..(i - 1) : p[k] = s[k]
    BY <1>1
  <2>2. /\ q \in Seq(T) /\ Len(q) = Len(s) - i
        /\ \A k \in 1..(Len(s) - i) : q[k] = s[i + k]
    BY <1>1
  <2> HIDE DEF p, q
  <2>3. /\ p \o q \in Seq(T) /\ DOMAIN (p \o q) = 1..(Len(s) - 1)
        /\ \A k \in 1..(Len(s) - 1) : (p \o q)[k] = IF k < i THEN p[k] ELSE q[k - (i - 1)]
    <3>1. /\ p \o q \in Seq(T) /\ DOMAIN (p \o q) = 1..(Len(p) + Len(q))
          /\ \A k \in 1..(Len(p) + Len(q)) :
                (p \o q)[k] = IF k <= Len(p) THEN p[k] ELSE q[k - Len(p)]
      BY <2>1, <2>2
    <3>2. Len(p) + Len(q) = Len(s) - 1 /\ \A k \in Nat : k < i <=> k <= Len(p)
      BY <1>1, <2>1, <2>2
    <3>3. \A k \in 1..(Len(s) - 1) : k \in Nat
      BY <1>1
    <3> QED
      BY <3>1, <3>2, <3>3, <2>1
  <2>4. \A k \in 1..(Len(s) - 1) : ~(k < i) => q[k - (i - 1)] = s[k + 1]
    <3> SUFFICES ASSUME NEW k \in 1..(Len(s) - 1), ~(k < i) PROVE q[k - (i - 1)] = s[k + 1]
      OBVIOUS
    <3>1. k - (i - 1) \in 1..(Len(s) - i) /\ i + (k - (i - 1)) = k + 1
      BY <1>1
    <3> QED
      BY <2>2, <3>1
  <2>5. r = p \o q
    BY DEF RemoveAt, p, q
  <2>6. \A k \in 1..(Len(s) - 1) : k < i => p[k] = s[k]
    BY <1>1, <2>1
  <2> QED
    BY <2>3, <2>4, <2>5, <2>6
<1> HIDE DEF r
<1>3. ToSet(r) \subseteq ToSet(s)
  <2> SUFFICES ASSUME NEW k \in 1..(Len(s) - 1) PROVE r[k] \in ToSet(s)
    BY <1>2 DEF ToSet
  <2>1. k \in DOMAIN s /\ k + 1 \in DOMAIN s
    BY <1>1
  <2> QED
    BY <1>2, <2>1 DEF ToSet
<1>4. ASSUME IsInjective(s) PROVE IsInjective(r) /\ ToSet(r) = ToSet(s) \ {s[i]}
  <2>1. IsInjective(r)
    <3> SUFFICES ASSUME NEW k \in 1..(Len(s) - 1), NEW l \in 1..(Len(s) - 1), r[k] = r[l]
                 PROVE  k = l
      BY <1>2 DEF IsInjective
    <3> DEFINE from(x) == IF x < i THEN x ELSE x + 1
    <3>1. r[k] = s[from(k)] /\ r[l] = s[from(l)]
      BY <1>2
    <3>2. from(k) \in DOMAIN s /\ from(l) \in DOMAIN s
      BY <1>1
    <3>3. from(k) = from(l)
      BY <1>4, <3>1, <3>2 DEF IsInjective
    <3> QED
      BY <1>1, <3>3
  <2>2. s[i] \notin ToSet(r)
    <3> SUFFICES ASSUME NEW k \in 1..(Len(s) - 1), r[k] = s[i] PROVE FALSE
      BY <1>2 DEF ToSet
    <3> DEFINE j == IF k < i THEN k ELSE k + 1
    <3>1. j \in DOMAIN s /\ j # i /\ r[k] = s[j]
      BY <1>1, <1>2
    <3> HIDE DEF j
    <3> QED
      BY <1>4, <3>1 DEF IsInjective
  <2>3. ASSUME NEW k \in 1..Len(s), k # i PROVE s[k] \in ToSet(r)
    <3>1. CASE k < i
      <4>1. k \in DOMAIN r /\ r[k] = s[k]
        BY <1>1, <1>2, <2>3, <3>1
      <4> QED
        BY <4>1 DEF ToSet
    <3>2. CASE k > i
      <4>1. k - 1 \in DOMAIN r /\ r[k - 1] = s[k]
        BY <1>1, <1>2, <2>3, <3>2
      <4> QED
        BY <4>1 DEF ToSet
    <3> QED
      BY <1>1, <2>3, <3>1, <3>2
  <2>4. ToSet(s) \ {s[i]} \subseteq ToSet(r)
    BY <1>1, <2>3 DEF ToSet
  <2> QED
    BY <1>3, <2>1, <2>2, <2>4
<1> QED
  BY <1>2, <1>3, <1>4 DEF r

\* An order of a finite set lists each of its elements once, ...
LEMMA OrderOnce ==
    ASSUME NEW S, IsFiniteSet(S), NEW o \in SetToSeqs(S)
    PROVE  o \in Seq(S) /\ IsInjective(o) /\ ToSet(o) = S
<1> DEFINE n == Cardinality(S)
<1>1. n \in Nat /\ IsFiniteSet(1..n) /\ Cardinality(1..n) = n
  BY FS_CardinalityType, FS_Interval
<1>2. o \in [1..n -> S] /\ \A i, j \in 1..n : i # j => o[i] # o[j]
  BY DEF SetToSeqs
<1> HIDE DEF n
<1>3. o \in Seq(S) /\ DOMAIN o = 1..n /\ IsInjective(o)
  BY <1>1, <1>2 DEF IsInjective
<1>4. o \in Injection(1..n, S)
  BY <1>2, <1>3 DEF Injection
<1>5. o \in Surjection(1..n, S)
  BY <1>1, <1>4, FS_Injection DEF n
<1> QED
  BY <1>2, <1>3, <1>5 DEF Surjection, ToSet

\* ... and SetToSeq is one of the orders.
LEMMA SomeOrder ==
    ASSUME NEW S, IsFiniteSet(S)
    PROVE  SetToSeq(S) \in SetToSeqs(S)
<1> DEFINE n == Cardinality(S)
<1>1. ExistsBijection(1..n, S)
  BY FS_CardinalityType
<1>2. \E f \in [1..n -> S] : IsInjective(f)
  BY <1>1 DEF ExistsBijection, Bijection, Injection, IsInjective
<1>3. SetToSeq(S) \in [1..n -> S] /\ IsInjective(SetToSeq(S))
  BY <1>2 DEF SetToSeq
<1> QED
  BY <1>3 DEF SetToSeqs, IsInjective

-----------------------------------------------------------------------------
(* Induction, and totals.                                                  *)

\* Induction: a set that holds 0, and with every number the next one, holds
\* all natural numbers.
LEMMA InductionOverNat ==
    ASSUME NEW S, 0 \in S, \A n \in Nat : n \in S => n + 1 \in S
    PROVE  Nat \subseteq S
<1> SUFFICES ASSUME Nat \ S # {} PROVE FALSE
  OBVIOUS
<1>1. PICK m \in Nat \ S : \A n \in Nat \ S : m <= n
  BY MinProperties
<1>2. m - 1 \in Nat /\ m - 1 \in S
  BY <1>1
<1> QED
  BY <1>1, <1>2

\* N steps on X, and what they make of x one after another.
Steps(G, N, X) == G \in [1..N -> [X -> X]]

Iterated(f, G, N, X, x) ==
    f \in [0..N -> X] /\ f[0] = x /\ \A n \in 1..N : f[n] = G[n][f[n - 1]]

\* Steps can be taken one after another: the recursion over them is a function.
LEMMA Iterates ==
    ASSUME NEW X, NEW x \in X, NEW N \in Nat, NEW G, Steps(G, N, X)
    PROVE  \E f : Iterated(f, G, N, X, x)
<1> USE DEF Steps
<1> DEFINE Good(n) == \E f \in [0..n -> X] : f[0] = x /\ \A k \in 1..n : f[k] = G[k][f[k - 1]]
           S == {n \in Nat : n <= N => Good(n)}
<1>1. 0 \in S
  <2> DEFINE f == [k \in 0..0 |-> x]
  <2>1. f \in [0..0 -> X] /\ f[0] = x /\ \A k \in 1..0 : f[k] = G[k][f[k - 1]]
    OBVIOUS
  <2> QED
    BY <2>1
<1>2. ASSUME NEW n \in Nat, n \in S PROVE n + 1 \in S
  <2> SUFFICES ASSUME n + 1 <= N PROVE Good(n + 1)
    OBVIOUS
  <2>1. PICK f \in [0..n -> X] : f[0] = x /\ \A k \in 1..n : f[k] = G[k][f[k - 1]]
    BY <1>2
  <2> DEFINE g == [k \in 0..(n + 1) |-> IF k = n + 1 THEN G[n + 1][f[n]] ELSE f[k]]
  <2>2. f[n] \in X /\ G[n + 1] \in [X -> X] /\ G[n + 1][f[n]] \in X
    BY <2>1
  <2>3. g \in [0..(n + 1) -> X]
    BY <2>1, <2>2
  <2>4. g[0] = x
    BY <2>1
  <2>5. ASSUME NEW k \in 1..(n + 1) PROVE g[k] = G[k][g[k - 1]]
    <3>1. CASE k = n + 1
      BY <2>1, <3>1
    <3>2. CASE k # n + 1
      <4>1. k \in 1..n /\ k - 1 \in 0..n /\ k - 1 # n + 1
        BY <3>2
      <4> QED
        BY <2>1, <4>1
    <3> QED
      BY <3>1, <3>2
  <2> HIDE DEF g
  <2> QED
    BY <2>3, <2>4, <2>5
<1>3. N \in S
  <2> HIDE DEF S
  <2> QED
    BY <1>1, <1>2, InductionOverNat
<1> QED
  BY <1>3 DEF Iterated

\* The partial sums behind Total.
Sums(f, v) == /\ f \in [0..Len(v) -> Int]
              /\ f[0] = 0
              /\ \A n \in 1..Len(v) : f[n] = f[n - 1] + v[n]

\* Total is the last of the partial sums.
LEMMA TotalDef ==
    ASSUME NEW v \in Seq(Int)
    PROVE  \E f : Sums(f, v) /\ Total(v) = f[Len(v)]
<1> DEFINE G == [n \in 1..Len(v) |-> [a \in Int |-> a + v[n]]]
           R(f) == f = [n \in 0..Len(v) |-> IF n = 0 THEN 0 ELSE f[n - 1] + v[n]]
<1>1. Len(v) \in Nat /\ Steps(G, Len(v), Int) /\ 0 \in Int
  BY DEF Steps
<1>2. PICK f : Iterated(f, G, Len(v), Int, 0)
  <2> HIDE DEF G
  <2> QED
    BY <1>1, Iterates
<1>3. /\ f \in [0..Len(v) -> Int] /\ f[0] = 0
      /\ \A n \in 1..Len(v) : f[n] = f[n - 1] + v[n]
  <2>1. ASSUME NEW n \in 1..Len(v) PROVE f[n - 1] \in Int
    <3>1. n - 1 \in 0..Len(v)
      BY <1>1
    <3> QED
      BY <1>2, <3>1 DEF Iterated
  <2> QED
    BY <1>2, <2>1 DEF Iterated
<1>4. R(f)
  BY <1>1, <1>3
<1> DEFINE h == CHOOSE g : R(g)
<1>5. R(h)
  <2> HIDE DEF R
  <2> QED
    BY <1>4
<1>6. Total(v) = h[Len(v)]
  BY DEF Total
<1> HIDE DEF h
<1>7. h[0] = 0 /\ \A n \in 1..Len(v) : h[n] = h[n - 1] + v[n]
  <2>1. Len(v) \in Nat
    OBVIOUS
  <2>2. \A n \in 0..Len(v) : h[n] = IF n = 0 THEN 0 ELSE h[n - 1] + v[n]
    BY <1>5
  <2> QED
    BY <2>1, <2>2
<1> DEFINE S == {n \in Nat : n <= Len(v) => h[n] = f[n]}
<1>8. 0 \in S
  BY <1>3, <1>7
<1>9. ASSUME NEW n \in Nat, n \in S PROVE n + 1 \in S
  BY <1>1, <1>3, <1>7, <1>9
<1>10. Len(v) \in S
  <2> HIDE DEF S
  <2> QED
    BY <1>1, <1>8, <1>9, InductionOverNat
<1>11. Sums(f, v)
  BY <1>3 DEF Sums
<1> QED
  BY <1>1, <1>6, <1>10, <1>11

\* A total is a number, nothing adds up to 0, and a number more is added.
LEMMA TotalProperties ==
    /\ Total(<<>>) = 0
    /\ \A v \in Seq(Int) : Total(v) \in Int
    /\ \A v \in Seq(Int), x \in Int : Total(Append(v, x)) = Total(v) + x
<1>1. Total(<<>>) = 0
  <2>1. <<>> \in Seq(Int) /\ Len(<<>>) = 0
    OBVIOUS
  <2> QED
    BY <2>1, TotalDef DEF Sums
<1>2. ASSUME NEW v \in Seq(Int) PROVE Total(v) \in Int
  <2>1. PICK f : Sums(f, v) /\ Total(v) = f[Len(v)]
    BY TotalDef
  <2> QED
    BY <2>1 DEF Sums
<1>3. ASSUME NEW v \in Seq(Int), NEW x \in Int PROVE Total(Append(v, x)) = Total(v) + x
  <2> DEFINE w == Append(v, x)
  <2>1. /\ w \in Seq(Int) /\ Len(w) = Len(v) + 1 /\ w[Len(v) + 1] = x /\ Len(v) \in Nat
        /\ \A n \in 1..Len(v) : v[n] = w[n]
    OBVIOUS
  <2> HIDE DEF w
  <2>2. PICK f : Sums(f, v) /\ Total(v) = f[Len(v)]
    BY TotalDef
  <2>3. PICK g : Sums(g, w) /\ Total(w) = g[Len(w)]
    BY <2>1, TotalDef
  <2>4. f[Len(v)] = g[Len(v)]
    <3> DEFINE S == {n \in Nat : n <= Len(v) => f[n] = g[n]}
    <3>1. 0 \in S
      BY <2>2, <2>3 DEF Sums
    <3>2. ASSUME NEW n \in Nat, n \in S PROVE n + 1 \in S
      BY <2>1, <2>2, <2>3, <3>2 DEF Sums
    <3>3. Len(v) \in S
      <4> HIDE DEF S
      <4> QED
        BY <2>1, <3>1, <3>2, InductionOverNat
    <3> QED
      BY <2>1, <3>3
  <2>5. g[Len(v) + 1] = g[Len(v)] + x
    <3>1. Len(v) + 1 \in 1..Len(w) /\ (Len(v) + 1) - 1 = Len(v)
      BY <2>1
    <3> QED
      BY <2>1, <2>3, <3>1 DEF Sums
  <2>6. Total(w) = Total(v) + x
    BY <2>1, <2>2, <2>3, <2>4, <2>5
  <2> QED
    BY <2>6 DEF w
<1> QED
  BY <1>1, <1>2, <1>3

\* One number of a sequence is replaced.
LEMMA TotalUpdate ==
    ASSUME NEW v \in Seq(Int), NEW i \in 1..Len(v), NEW x \in Int
    PROVE  Total([v EXCEPT ![i] = x]) = Total(v) - v[i] + x
<1> DEFINE w == [v EXCEPT ![i] = x]
<1>1. /\ w \in Seq(Int) /\ Len(w) = Len(v) /\ Len(v) \in Nat /\ w[i] = x
      /\ \A n \in 1..Len(v) : v[n] \in Int /\ (n # i => w[n] = v[n])
  OBVIOUS
<1> HIDE DEF w
<1>2. PICK f : Sums(f, v) /\ Total(v) = f[Len(v)]
  BY TotalDef
<1>3. PICK g : Sums(g, w) /\ Total(w) = g[Len(w)]
  BY <1>1, TotalDef
<1> DEFINE S == {n \in Nat : n <= Len(v) => g[n] = IF n < i THEN f[n] ELSE f[n] - v[i] + x}
<1>4. 0 \in S
  BY <1>1, <1>2, <1>3 DEF Sums
<1>5. ASSUME NEW n \in Nat, n \in S PROVE n + 1 \in S
  <2> SUFFICES ASSUME n + 1 <= Len(v)
               PROVE  g[n + 1] = IF n + 1 < i THEN f[n + 1] ELSE f[n + 1] - v[i] + x
    OBVIOUS
  <2>1. n + 1 \in 1..Len(v) /\ n \in 0..Len(v) /\ (n + 1) - 1 = n
    BY <1>1
  <2>2. f[n + 1] = f[n] + v[n + 1] /\ g[n + 1] = g[n] + w[n + 1] /\ f[n] \in Int /\ g[n] \in Int
    BY <1>1, <1>2, <1>3, <2>1 DEF Sums
  <2>3. g[n] = IF n < i THEN f[n] ELSE f[n] - v[i] + x
    BY <1>1, <1>5, <2>1
  <2>4. v[n + 1] \in Int /\ v[i] \in Int
    BY <1>1, <2>1
  <2>5. CASE n + 1 = i
    BY <1>1, <2>2, <2>3, <2>4, <2>5, SMTT(30)
  <2>6. CASE n + 1 # i
    <3>1. w[n + 1] = v[n + 1]
      BY <1>1, <2>1, <2>6
    <3> QED
      BY <2>2, <2>3, <2>4, <2>6, <3>1
  <2> QED
    BY <2>5, <2>6
<1>6. Len(v) \in S
  <2> HIDE DEF S
  <2> QED
    BY <1>1, <1>4, <1>5, InductionOverNat
<1>7. Total(w) = Total(v) - v[i] + x
  BY <1>1, <1>2, <1>3, <1>6
<1> QED
  BY <1>7 DEF w

\* What is left when one element of a sequence is removed.
LEMMA RemoveAtFacts ==
    ASSUME NEW T, NEW s \in Seq(T), NEW i \in 1..Len(s)
    PROVE  /\ RemoveAt(s, i) \in Seq(T)
           /\ Len(RemoveAt(s, i)) = Len(s) - 1
           /\ \A n \in 1..(Len(s) - 1) : RemoveAt(s, i)[n] = IF n < i THEN s[n] ELSE s[n + 1]
<1> DEFINE a == SubSeq(s, 1, i - 1)
           b == SubSeq(s, i + 1, Len(s))
<1>1. a \in Seq(T) /\ Len(a) = i - 1 /\ \A n \in 1..(i - 1) : a[n] = s[n]
  OBVIOUS
<1>2. b \in Seq(T) /\ Len(b) = Len(s) - i /\ \A n \in 1..(Len(s) - i) : b[n] = s[n + i]
  OBVIOUS
<1>3. RemoveAt(s, i) = a \o b
  BY DEF RemoveAt
<1> HIDE DEF a, b
<1>4. /\ a \o b \in Seq(T) /\ Len(a \o b) = Len(a) + Len(b)
      /\ \A n \in 1..(Len(a) + Len(b)) : (a \o b)[n] = IF n <= Len(a) THEN a[n] ELSE b[n - Len(a)]
  <2>1. a \in Seq(T) /\ b \in Seq(T)
    BY <1>1, <1>2
  <2> QED
    BY <2>1
<1>5. Len(a) + Len(b) = Len(s) - 1
  BY <1>1, <1>2
<1>6. ASSUME NEW n \in 1..(Len(s) - 1) PROVE (a \o b)[n] = IF n < i THEN s[n] ELSE s[n + 1]
  <2>1. CASE n < i
    BY <1>1, <1>4, <1>5, <2>1
  <2>2. CASE ~(n < i)
    <3>1. n - (i - 1) \in 1..(Len(s) - i) /\ (n - (i - 1)) + i = n + 1 /\ ~(n <= Len(a))
      BY <1>1, <2>2
    <3>2. (a \o b)[n] = b[n - (i - 1)]
      BY <1>1, <1>4, <1>5, <3>1
    <3> QED
      BY <1>2, <2>2, <3>1, <3>2
  <2> QED
    BY <2>1, <2>2
<1> QED
  BY <1>3, <1>4, <1>5, <1>6

\* One number of a sequence is removed.
LEMMA TotalRemove ==
    ASSUME NEW v \in Seq(Int), NEW i \in 1..Len(v)
    PROVE  Total(RemoveAt(v, i)) = Total(v) - v[i]
<1> DEFINE w == RemoveAt(v, i)
<1>1. /\ w \in Seq(Int) /\ Len(w) = Len(v) - 1 /\ Len(v) \in Nat /\ Len(w) \in Nat
      /\ \A n \in 1..Len(v) : v[n] \in Int
      /\ \A n \in 1..Len(w) : w[n] = IF n < i THEN v[n] ELSE v[n + 1]
  BY RemoveAtFacts
<1> HIDE DEF w
<1>2. PICK f : Sums(f, v) /\ Total(v) = f[Len(v)]
  BY TotalDef
<1>3. PICK g : Sums(g, w) /\ Total(w) = g[Len(w)]
  BY <1>1, TotalDef
<1> DEFINE S == {n \in Nat : n <= Len(w) => g[n] = IF n < i THEN f[n] ELSE f[n + 1] - v[i]}
<1>4. 0 \in S
  BY <1>1, <1>2, <1>3 DEF Sums
<1>5. ASSUME NEW n \in Nat, n \in S PROVE n + 1 \in S
  <2> SUFFICES ASSUME n + 1 <= Len(w)
               PROVE  g[n + 1] = IF n + 1 < i THEN f[n + 1] ELSE f[n + 2] - v[i]
    OBVIOUS
  <2>1. /\ n + 1 \in 1..Len(w) /\ n + 1 \in 1..Len(v) /\ n + 2 \in 1..Len(v)
        /\ (n + 1) - 1 = n /\ (n + 2) - 1 = n + 1 /\ (n + 1) + 1 = n + 2
        /\ n \in 0..Len(v) /\ n \in 0..Len(w) /\ n + 1 \in 0..Len(v)
    BY <1>1
  <2>2. /\ f[n + 1] = f[n] + v[n + 1] /\ f[n + 2] = f[n + 1] + v[n + 2]
        /\ g[n + 1] = g[n] + w[n + 1] /\ f[n] \in Int /\ g[n] \in Int /\ f[n + 1] \in Int
    BY <1>1, <1>2, <1>3, <2>1 DEF Sums
  <2>3. g[n] = IF n < i THEN f[n] ELSE f[n + 1] - v[i]
    BY <1>1, <1>5, <2>1
  <2>4. v[n + 1] \in Int /\ v[n + 2] \in Int /\ v[i] \in Int
    BY <1>1, <2>1
  <2>5. w[n + 1] = IF n + 1 < i THEN v[n + 1] ELSE v[n + 2]
    BY <1>1, <2>1
  <2>6. CASE n + 1 = i
    BY <2>2, <2>3, <2>4, <2>5, <2>6, SMTT(30)
  <2>7. CASE n + 1 < i
    BY <2>2, <2>3, <2>4, <2>5, <2>7
  <2>8. CASE n + 1 > i
    BY <2>2, <2>3, <2>4, <2>5, <2>8
  <2> QED
    BY <2>6, <2>7, <2>8
<1>6. Len(w) \in S
  <2> HIDE DEF S
  <2> QED
    BY <1>1, <1>4, <1>5, InductionOverNat
<1>7. Total(w) = Total(v) - v[i]
  <2>1. f[Len(v)] = f[Len(w)] + v[Len(v)] /\ f[Len(w)] \in Int /\ v[i] \in Int
    <3>1. Len(v) \in 1..Len(v) /\ Len(v) - 1 = Len(w) /\ Len(w) \in 0..Len(v)
      BY <1>1
    <3> QED
      BY <1>1, <1>2, <3>1 DEF Sums
  <2>2. CASE Len(w) < i
    BY <1>1, <1>2, <1>3, <1>6, <2>1, <2>2
  <2>3. CASE ~(Len(w) < i)
    BY <1>1, <1>2, <1>3, <1>6, <2>3
  <2> QED
    BY <2>2, <2>3
<1> QED
  BY <1>7 DEF w

\* An order of the places of a sequence.
Reorders(p, n) ==
    /\ p \in [1..n -> 1..n]
    /\ \A i, j \in 1..n : p[i] = p[j] => i = j
    /\ \A k \in 1..n : \E i \in 1..n : p[i] = k

\* The total does not depend on the order.
LEMMA TotalOrder ==
    ASSUME NEW v \in Seq(Int), NEW p, Reorders(p, Len(v))
    PROVE  Total([i \in 1..Len(v) |-> v[p[i]]]) = Total(v)
<1> DEFINE Same(u, q) == Total([i \in 1..Len(u) |-> u[q[i]]]) = Total(u)
           S == {n \in Nat : \A u \in Seq(Int) : \A q :
                               Len(u) = n /\ Reorders(q, n) => Same(u, q)}
<1>1. 0 \in S
  <2> SUFFICES ASSUME NEW u \in Seq(Int), NEW q, Len(u) = 0 PROVE Same(u, q)
    OBVIOUS
  <2>1. u = <<>> /\ [i \in 1..Len(u) |-> u[q[i]]] = <<>>
    OBVIOUS
  <2> QED
    BY <2>1
<1>2. ASSUME NEW n \in Nat, n \in S PROVE n + 1 \in S
  <2> SUFFICES ASSUME NEW u \in Seq(Int), NEW q, Len(u) = n + 1, Reorders(q, n + 1)
               PROVE  Same(u, q)
    OBVIOUS
  <2>1. PICK k \in 1..(n + 1) : q[k] = n + 1
    <3>1. n + 1 \in 1..(n + 1)
      OBVIOUS
    <3> QED
      BY <3>1 DEF Reorders
  <2> DEFINE w == [i \in 1..Len(u) |-> u[q[i]]]
             x == SubSeq(u, 1, n)
             r == [i \in 1..n |-> IF i < k THEN q[i] ELSE q[i + 1]]
  <2>2. /\ w \in Seq(Int) /\ Len(w) = n + 1
        /\ \A i \in 1..(n + 1) : w[i] = u[q[i]] /\ q[i] \in 1..(n + 1)
    <3>1. \A i \in 1..(n + 1) : q[i] \in 1..(n + 1)
      BY DEF Reorders
    <3>2. \A j \in 1..(n + 1) : u[j] \in Int
      OBVIOUS
    <3> QED
      BY <3>1, <3>2
  <2>3. x \in Seq(Int) /\ Len(x) = n /\ \A i \in 1..n : x[i] = u[i]
    OBVIOUS
  <2>4. u[n + 1] \in Int /\ u = Append(x, u[n + 1])
    OBVIOUS
  <2>5. \A i \in 1..n : i \in 1..(n + 1) /\ i + 1 \in 1..(n + 1)
    OBVIOUS
  <2>6. Reorders(r, n)
    <3>0. ASSUME NEW j \in 1..(n + 1), j # k PROVE q[j] \in 1..n
      <4>1. q[j] \in 1..(n + 1) /\ q[j] # n + 1
        BY <2>1, <3>0 DEF Reorders
      <4> QED
        BY <4>1
    <3>1. \A i \in 1..n : i # k => q[i] \in 1..n
      BY <2>5, <3>0
    <3>2. \A i \in 1..n : i + 1 # k => q[i + 1] \in 1..n
      BY <2>5, <3>0
    <3>3. \A i \in 1..n : r[i] = (IF i < k THEN q[i] ELSE q[i + 1]) /\ r[i] \in 1..n
      BY <3>1, <3>2
    <3>4. r \in [1..n -> 1..n]
      BY <3>3
    <3>5. ASSUME NEW i \in 1..n, NEW j \in 1..n, r[i] = r[j] PROVE i = j
      <4> HIDE DEF r
      <4>1. q[i] = q[j] => i = j
        BY <2>5 DEF Reorders
      <4>2. q[i + 1] = q[j + 1] => i = j
        BY <2>5 DEF Reorders
      <4>3. q[i] = q[j + 1] => i = j + 1
        BY <2>5 DEF Reorders
      <4>4. q[i + 1] = q[j] => i + 1 = j
        BY <2>5 DEF Reorders
      <4> QED
        BY <3>3, <3>5, <4>1, <4>2, <4>3, <4>4, SMTT(30)
    <3>6. ASSUME NEW m \in 1..n PROVE \E i \in 1..n : r[i] = m
      <4>1. PICK i \in 1..(n + 1) : q[i] = m
        BY <2>5 DEF Reorders
      <4>2. i # k
        BY <2>1, <4>1
      <4> HIDE DEF r
      <4>3. CASE i < k
        <5>1. i \in 1..n /\ r[i] = m
          BY <3>3, <4>1, <4>3
        <5> QED
          BY <5>1
      <4>4. CASE i > k
        <5>1. i - 1 \in 1..n /\ ~(i - 1 < k) /\ (i - 1) + 1 = i
          BY <4>4
        <5>2. r[i - 1] = m
          BY <3>3, <4>1, <5>1
        <5> QED
          BY <5>1, <5>2
      <4> QED
        BY <4>2, <4>3, <4>4
    <3> HIDE DEF r
    <3> QED
      BY <3>4, <3>5, <3>6 DEF Reorders
  <2>7. Total([i \in 1..Len(x) |-> x[r[i]]]) = Total(x)
    <3> HIDE DEF r, x
    <3> QED
      BY <1>2, <2>3, <2>6
  <2>8. RemoveAt(w, k) = [i \in 1..Len(x) |-> x[r[i]]]
    <3>1. /\ RemoveAt(w, k) \in Seq(Int) /\ Len(RemoveAt(w, k)) = n
          /\ \A i \in 1..n : RemoveAt(w, k)[i] = IF i < k THEN w[i] ELSE w[i + 1]
      <4> HIDE DEF w
      <4>1. k \in 1..Len(w) /\ Len(w) - 1 = n
        BY <2>2
      <4> QED
        BY <2>2, <4>1, RemoveAtFacts
    <3>2. ASSUME NEW i \in 1..n PROVE RemoveAt(w, k)[i] = x[r[i]]
      <4>1. r[i] = (IF i < k THEN q[i] ELSE q[i + 1]) /\ r[i] \in 1..n
        BY <2>6 DEF Reorders
      <4> HIDE DEF r, w, x
      <4>2. x[r[i]] = u[r[i]]
        BY <2>3, <4>1
      <4>3. w[i] = u[q[i]] /\ w[i + 1] = u[q[i + 1]]
        BY <2>2, <2>5
      <4> QED
        BY <3>1, <4>1, <4>2, <4>3
    <3> HIDE DEF r, w, x
    <3>3. DOMAIN RemoveAt(w, k) = 1..n
      BY <3>1
    <3> QED
      BY <2>3, <3>1, <3>2, <3>3
  <2>9. Total(RemoveAt(w, k)) = Total(w) - w[k] /\ w[k] = u[n + 1]
    <3> HIDE DEF w
    <3>1. k \in 1..Len(w)
      BY <2>2
    <3> QED
      BY <2>1, <2>2, <3>1, TotalRemove
  <2>10. Total(u) = Total(x) + u[n + 1]
    <3> HIDE DEF x
    <3> QED
      BY <2>3, <2>4, TotalProperties
  <2>11. Total(w) \in Int /\ Total(x) \in Int
    <3> HIDE DEF w, x
    <3> QED
      BY <2>2, <2>3, TotalProperties
  <2>12. Total(w) = Total(u)
    <3> HIDE DEF w, x, r
    <3> QED
      BY <2>4, <2>7, <2>8, <2>9, <2>10, <2>11
  <2> QED
    BY <2>12
<1>3. Len(v) \in S
  <2>1. Len(v) \in Nat
    OBVIOUS
  <2> HIDE DEF S
  <2> QED
    BY <1>1, <1>2, <2>1, InductionOverNat
<1> QED
  BY <1>3

-----------------------------------------------------------------------------
\* A sequence with another behind it: its type, its length and its elements.
LEMMA ConcatParts ==
    ASSUME NEW T, NEW s \in Seq(T), NEW t \in Seq(T)
    PROVE  /\ s \o t \in Seq(T) /\ Len(s \o t) = Len(s) + Len(t)
           /\ \A i \in 1..(Len(s) + Len(t)) :
                (s \o t)[i] = IF i <= Len(s) THEN s[i] ELSE t[i - Len(s)]
  OBVIOUS

\* The elements of the parts up to one are those before it and its own.
LEMMA UnionWith ==
    ASSUME NEW s, NEW J, NEW k, NEW K, K = J \cup {k}
    PROVE  UNION {ToSet(s[i]) : i \in K} = (UNION {ToSet(s[i]) : i \in J}) \cup ToSet(s[k])
<1> DEFINE A == UNION {ToSet(s[i]) : i \in K}
           C == UNION {ToSet(s[i]) : i \in J}
<1>1. \A x : x \in A <=> \E i \in K : x \in ToSet(s[i])
  OBVIOUS
<1>2. \A x : x \in C <=> \E i \in J : x \in ToSet(s[i])
  OBVIOUS
<1> HIDE DEF A, C
<1>3. \A x : x \in A <=> x \in C \cup ToSet(s[k])
  BY <1>1, <1>2
<1>4. A = C \cup ToSet(s[k])
  BY <1>3
<1> QED
  BY <1>4 DEF A, C

\* What FlattenSeq computes, step by step.
LEMMA FlattenSteps ==
    ASSUME NEW T, NEW s \in Seq(Seq(T)), Len(s) >= 1
    PROVE  \E h : /\ h[1] = s[1]
                  /\ \A k \in 2..Len(s) : h[k] = h[k - 1] \o s[k]
                  /\ FlattenSeq(s) = h[Len(s)]
<1> DEFINE n == Len(s)
           X == Seq(T)
           G == [k \in 1..(n - 1) |-> [x \in X |-> x \o s[k + 1]]]
           R(f) == f = [i \in 1..Len(s) |-> IF i = 1 THEN s[i] ELSE f[i - 1] \o s[i]]
<1>1. n \in Nat /\ n - 1 \in Nat /\ s[1] \in X /\ \A k \in 1..n : s[k] \in X
  OBVIOUS
<1>2. Steps(G, n - 1, X)
  <2>1. ASSUME NEW k \in 1..(n - 1), NEW x \in X PROVE x \o s[k + 1] \in X
    <3>1. k + 1 \in 1..n
      BY <1>1
    <3>2. s[k + 1] \in Seq(T)
      BY <1>1, <3>1
    <3> QED
      BY <3>2
  <2> HIDE DEF X
  <2> QED
    BY <2>1 DEF Steps
<1>3. PICK f : Iterated(f, G, n - 1, X, s[1])
  <2> HIDE DEF G, X, n
  <2> QED
    BY <1>1, <1>2, Iterates
<1> DEFINE g == [i \in 1..n |-> f[i - 1]]
<1>4. R(g)
  <2>1. f \in [0..(n - 1) -> X] /\ f[0] = s[1] /\ \A k \in 1..(n - 1) : f[k] = G[k][f[k - 1]]
    BY <1>3 DEF Iterated
  <2>2. ASSUME NEW i \in 1..n, i # 1
        PROVE  f[i - 1] = f[(i - 1) - 1] \o s[i]
    <3>1. i - 1 \in 1..(n - 1) /\ (i - 1) - 1 \in 0..(n - 1) /\ (i - 1) + 1 = i
      BY <1>1, <2>2
    <3>2. f[(i - 1) - 1] \in X
      BY <2>1, <3>1
    <3> DEFINE k == i - 1
    <3>3. f[k] = G[k][f[k - 1]] /\ k \in 1..(n - 1) /\ f[k - 1] \in X /\ k + 1 = i
      BY <2>1, <3>1, <3>2
    <3> HIDE DEF X, n, k
    <3>4. f[k] = f[k - 1] \o s[k + 1]
      BY <3>3
    <3> QED
      BY <3>3, <3>4 DEF k
  <2>3. \A i \in 1..n : i # 1 => i - 1 \in 1..n
    BY <1>1
  <2>4. 1 - 1 = 0
    OBVIOUS
  <2> HIDE DEF n, X, G
  <2>5. \A i \in 1..n : g[i] = IF i = 1 THEN s[i] ELSE g[i - 1] \o s[i]
    BY <2>1, <2>2, <2>3, <2>4
  <2>6. g = [i \in 1..n |-> g[i]]
    OBVIOUS
  <2> HIDE DEF g
  <2>7. g = [i \in 1..n |-> IF i = 1 THEN s[i] ELSE g[i - 1] \o s[i]]
    BY <2>5, <2>6
  <2> QED
    BY <2>7 DEF n
<1> HIDE DEF g
<1> DEFINE h == CHOOSE e : R(e)
<1>5. R(h)
  <2> HIDE DEF R
  <2> QED
    BY <1>4
<1>6. FlattenSeq(s) = h[Len(s)]
  BY <1>1 DEF FlattenSeq
<1> HIDE DEF h
<1>7. \A i \in 1..Len(s) : h[i] = IF i = 1 THEN s[i] ELSE h[i - 1] \o s[i]
  BY <1>5
<1>8. 1 \in 1..Len(s) /\ \A k \in 2..Len(s) : k \in 1..Len(s) /\ k # 1
  BY <1>1
<1> QED
  BY <1>6, <1>7, <1>8

\* A flattened sequence has the elements of its parts.
LEMMA FlattenProperties ==
    ASSUME NEW T, NEW s \in Seq(Seq(T))
    PROVE  /\ FlattenSeq(s) \in Seq(T)
           /\ ToSet(FlattenSeq(s)) = UNION {ToSet(s[i]) : i \in DOMAIN s}
<1>1. CASE Len(s) = 0
  <2>1. s = <<>> /\ FlattenSeq(s) = s /\ DOMAIN s = {}
    BY <1>1 DEF FlattenSeq
  <2>2. ToSet(s) = {} /\ UNION {ToSet(s[i]) : i \in DOMAIN s} = {}
    BY <2>1, Zenon DEF ToSet
  <2>3. s \in Seq(T)
    BY <2>1
  <2> QED
    BY <2>1, <2>2, <2>3
<1>2. CASE Len(s) # 0
  <2> DEFINE n == Len(s)
  <2>1. n \in Nat /\ n >= 1 /\ DOMAIN s = 1..n /\ \A k \in 1..n : s[k] \in Seq(T)
    BY <1>2
  <2>2. PICK h : /\ h[1] = s[1]
                 /\ \A k \in 2..n : h[k] = h[k - 1] \o s[k]
                 /\ FlattenSeq(s) = h[n]
    BY <2>1, FlattenSteps
  <2> DEFINE S == {m \in Nat : m + 1 <= n =>
                      /\ h[m + 1] \in Seq(T)
                      /\ ToSet(h[m + 1]) = UNION {ToSet(s[i]) : i \in 1..(m + 1)}}
  <2> HIDE DEF n
  <2>3. 0 \in S
    <3>1. 0 + 1 = 1 /\ 1 \in 1..n /\ 1..1 = {1}
      BY <2>1
    <3>2. h[1] \in Seq(T) /\ ToSet(h[1]) = UNION {ToSet(s[i]) : i \in 1..1}
      BY <2>1, <2>2, <3>1
    <3> QED
      BY <3>1, <3>2
  <2>4. ASSUME NEW m \in Nat, m \in S PROVE m + 1 \in S
    <3> SUFFICES ASSUME (m + 1) + 1 <= n
                 PROVE  /\ h[(m + 1) + 1] \in Seq(T)
                        /\ ToSet(h[(m + 1) + 1]) = UNION {ToSet(s[i]) : i \in 1..((m + 1) + 1)}
      OBVIOUS
    <3> DEFINE k == (m + 1) + 1
    <3>1. /\ k \in 2..n /\ k \in 1..n /\ k - 1 = m + 1 /\ m + 1 <= n
          /\ 1..k = 1..(m + 1) \cup {k}
      BY <2>1
    <3>2. /\ h[m + 1] \in Seq(T)
          /\ ToSet(h[m + 1]) = UNION {ToSet(s[i]) : i \in 1..(m + 1)}
      BY <2>4, <3>1
    <3>3. h[k] = h[m + 1] \o s[k]
      BY <2>2, <3>1
    <3> HIDE DEF k
    <3>4. h[k] \in Seq(T) /\ ToSet(h[k]) = ToSet(h[m + 1]) \cup ToSet(s[k])
      BY <2>1, <3>1, <3>2, <3>3, ConcatOnce
    <3>5. UNION {ToSet(s[i]) : i \in 1..k}
            = (UNION {ToSet(s[i]) : i \in 1..(m + 1)}) \cup ToSet(s[k])
      <4>1. 1..k = 1..(m + 1) \cup {k}
        BY <3>1
      <4> QED
        BY <4>1, <3>1, UnionWith
    <3> QED
      BY <3>2, <3>4, <3>5 DEF k
  <2>5. n - 1 \in S /\ (n - 1) + 1 = n
    <3>1. n - 1 \in Nat /\ (n - 1) + 1 = n
      BY <2>1
    <3> HIDE DEF S
    <3>2. n - 1 \in S
      BY <2>3, <2>4, <3>1, InductionOverNat
    <3> QED
      BY <3>1, <3>2
  <2>6. h[n] \in Seq(T) /\ ToSet(h[n]) = UNION {ToSet(s[i]) : i \in 1..n}
    BY <2>1, <2>5
  <2> HIDE DEF S
  <2> QED
    BY <2>1, <2>2, <2>6
<1> QED
  BY <1>1, <1>2

\* Parts of one element each give these elements.
LEMMA FlattenOnes ==
    ASSUME NEW T, NEW t \in Seq(T), NEW s, DOMAIN s = 1..Len(t), s = [i \in 1..Len(t) |-> s[i]],
           \A i \in 1..Len(t) : s[i] = <<t[i]>>
    PROVE  FlattenSeq(s) = t
<1> DEFINE n == Len(t)
<1>1. n \in Nat /\ \A i \in 1..n : t[i] \in T /\ <<t[i]>> \in Seq(T)
  OBVIOUS
<1>2. s \in Seq(Seq(T)) /\ Len(s) = n
  <2>1. s \in [1..n -> Seq(T)]
    BY <1>1
  <2> QED
    BY <1>1, <2>1
<1>3. CASE n = 0
  <2>1. s = <<>> /\ t = <<>>
    BY <1>2, <1>3
  <2> QED
    BY <2>1 DEF FlattenSeq
<1>4. CASE n # 0
  <2>1. n >= 1
    BY <1>1, <1>4
  <2>2. PICK h : /\ h[1] = s[1]
                 /\ \A k \in 2..n : h[k] = h[k - 1] \o s[k]
                 /\ FlattenSeq(s) = h[n]
    <3>1. \E h : /\ h[1] = s[1]
                 /\ \A k \in 2..Len(s) : h[k] = h[k - 1] \o s[k]
                 /\ FlattenSeq(s) = h[Len(s)]
      <4>1. Len(s) >= 1
        BY <1>2, <2>1
      <4> QED
        BY <1>2, <4>1, FlattenSteps
    <3> QED
      BY <1>2, <3>1
  <2> DEFINE S == {m \in Nat : m + 1 <= n =>
                      /\ h[m + 1] \in Seq(T) /\ Len(h[m + 1]) = m + 1
                      /\ \A i \in 1..(m + 1) : h[m + 1][i] = t[i]}
  <2>3. 0 \in S
    <3>1. h[1] = <<t[1]>> /\ t[1] \in T
      BY <1>1, <2>1, <2>2
    <3>2. h[1] \in Seq(T) /\ Len(h[1]) = 1 /\ \A i \in 1..1 : h[1][i] = t[i]
      BY <3>1
    <3> QED
      BY <3>2
  <2>4. ASSUME NEW m \in Nat, m \in S PROVE m + 1 \in S
    <3> SUFFICES ASSUME (m + 1) + 1 <= n
                 PROVE  /\ h[(m + 1) + 1] \in Seq(T) /\ Len(h[(m + 1) + 1]) = (m + 1) + 1
                        /\ \A i \in 1..((m + 1) + 1) : h[(m + 1) + 1][i] = t[i]
      OBVIOUS
    <3> DEFINE k == (m + 1) + 1
               p == h[m + 1]
    <3>1. k \in 2..n /\ k \in 1..n /\ k - 1 = m + 1 /\ m + 1 <= n
      BY <1>1
    <3>2. p \in Seq(T) /\ Len(p) = m + 1 /\ \A i \in 1..(m + 1) : p[i] = t[i]
      BY <2>4, <3>1
    <3>3. h[k] = p \o <<t[k]>> /\ t[k] \in T
      BY <1>1, <2>2, <3>1
    <3> HIDE DEF p
    <3> DEFINE q == <<t[k]>>
    <3>6. q \in Seq(T) /\ Len(q) = 1 /\ q[1] = t[k] /\ h[k] = p \o q
      BY <3>3
    <3> HIDE DEF q
    <3>4. /\ h[k] \in Seq(T) /\ Len(h[k]) = m + 2 /\ h[k][m + 2] = t[k]
          /\ \A i \in 1..(m + 1) : h[k][i] = p[i]
      <4> HIDE DEF k
      <4>1. /\ p \o q \in Seq(T) /\ Len(p \o q) = Len(p) + Len(q)
            /\ \A i \in 1..(Len(p) + Len(q)) :
                 (p \o q)[i] = IF i <= Len(p) THEN p[i] ELSE q[i - Len(p)]
        BY <3>2, <3>6, ConcatParts
      <4>2. m + 2 \in 1..(m + 2) /\ ~(m + 2 <= m + 1) /\ (m + 2) - (m + 1) = 1
            /\ (m + 1) + 1 = m + 2
        OBVIOUS
      <4>3. \A i \in 1..(m + 1) : i \in 1..(m + 2) /\ i <= m + 1
        OBVIOUS
      <4>4. (p \o q)[m + 2] = q[1]
        <5> DEFINE j == m + 2
        <5>1. j \in 1..(Len(p) + Len(q)) /\ ~(j <= Len(p)) /\ j - Len(p) = 1
          BY <3>2, <3>6, <4>2
        <5> HIDE DEF j
        <5>2. (p \o q)[j] = q[j - Len(p)]
          BY <4>1, <5>1
        <5> QED
          BY <5>1, <5>2 DEF j
      <4>5. \A i \in 1..(m + 1) : (p \o q)[i] = p[i]
        BY <3>2, <3>6, <4>1, <4>2, <4>3
      <4> QED
        BY <3>2, <3>6, <4>1, <4>2, <4>4, <4>5
    <3>5. k = m + 2 /\ \A i \in 1..k : i \in 1..(m + 1) \/ i = m + 2
      OBVIOUS
    <3> QED
      BY <3>2, <3>4, <3>5
  <2>5. n - 1 \in S /\ (n - 1) + 1 = n /\ n - 1 \in Nat
    <3>1. n - 1 \in Nat
      BY <1>1, <2>1
    <3> HIDE DEF S
    <3> QED
      BY <1>1, <2>3, <2>4, <3>1, InductionOverNat
  <2>6. h[n] \in Seq(T) /\ Len(h[n]) = n /\ \A i \in 1..n : h[n][i] = t[i]
    BY <1>1, <2>5
  <2> HIDE DEF S
  <2>7. h[n] = t
    BY <2>6
  <2> QED
    BY <2>2, <2>7
<1> QED
  BY <1>3, <1>4


\* All positions of a sequence give the sequence.
LEMMA PickedAll ==
    ASSUME NEW T, NEW s \in Seq(T)
    PROVE  Picked(s, DOMAIN s) = s
<1> DEFINE n == Len(s)
<1>1. n \in Nat /\ DOMAIN s = 1..n
  OBVIOUS
<1>2. Cardinality(1..n) = n
  BY <1>1, FS_Interval
<1>3. ASSUME NEW i \in 1..n PROVE Cardinality({j \in 1..n : j <= i}) = i
  <2>1. {j \in 1..n : j <= i} = 1..i /\ i \in Nat /\ ~(1 > i)
    BY <1>1
  <2>2. Cardinality(1..i) = i
    BY <2>1, FS_Interval
  <2> QED
    BY <2>1, <2>2
<1> HIDE DEF n
<1>4. ASSUME NEW k \in 1..n PROVE Nth(1..n, k) = k
  <2>1. \A i \in 1..n : Cardinality({j \in 1..n : j <= i}) = k <=> i = k
    BY <1>3
  <2>2. Nth(1..n, k) = CHOOSE i \in 1..n : i = k
    BY <2>1 DEF Nth
  <2> QED
    BY <2>2
<1>5. Picked(s, 1..n) = [k \in 1..n |-> s[k]]
  BY <1>2, <1>4 DEF Picked
<1> QED
  BY <1>1, <1>5

\* A function on 1..1 is the tuple of its one value.
LEMMA OneTuple == ASSUME NEW f, DOMAIN f = 1..1, f = [j \in 1..1 |-> f[j]] PROVE f = <<f[1]>>
<1>1. \A j \in 1..1 : j = 1
  OBVIOUS
<1>2. <<f[1]>> = [j \in 1..1 |-> f[1]]
  OBVIOUS
<1> QED
  BY <1>1, <1>2

\* The image of a finite set of positions is finite.
LEMMA FiniteImage ==
    ASSUME NEW n \in Nat, NEW T, NEW f \in [1..n -> T], \A t \in T : \E i \in 1..n : f[i] = t
    PROVE  /\ IsFiniteSet(T)
           /\ (\A i, j \in 1..n : f[i] = f[j] => i = j) => Cardinality(T) = n
<1>1. f \in Surjection(1..n, T)
  BY DEF Surjection
<1>2. IsFiniteSet(1..n) /\ Cardinality(1..n) = n
  BY FS_Interval
<1>3. IsFiniteSet(T) /\ (Cardinality(T) = n <=> f \in Injection(1..n, T))
  BY <1>1, <1>2, FS_Surjection
<1>4. (\A i, j \in 1..n : f[i] = f[j] => i = j) => f \in Injection(1..n, T)
  BY DEF Injection, IsInjective
<1> QED
  BY <1>3, <1>4

=============================================================================
