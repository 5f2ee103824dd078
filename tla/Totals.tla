------------------------------- MODULE Totals -------------------------------
(***************************************************************************)
(* The sum of a sequence of numbers, added up from its first element, in a *)
(* form without recursive operators, about which the proofs of the         *)
(* transactions can reason.                                                *)
(***************************************************************************)
EXTENDS Integers, Sequences

Total(v) ==
    LET upTo[n \in 0 .. Len(v)] == IF n = 0 THEN 0 ELSE upTo[n - 1] + v[n]
    IN  upTo[Len(v)]

\* What inputs or outputs hold.
Sats(s) == [i \in DOMAIN s |-> s[i].sats]
=============================================================================
