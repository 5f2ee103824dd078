----------------------------- MODULE Subsequence -----------------------------
(***************************************************************************)
(* The elements of a sequence at some of its positions, in their order.    *)
(* It is what SelectSeq returns for the positions that pass its test, in a *)
(* form without recursion, about which the proofs of the chats, of the     *)
(* mailbox, of the forum and of the envelope can reason.                   *)
(***************************************************************************)
EXTENDS Naturals, Sequences, FiniteSets

\* The k-th of the positions at.
Nth(at, k) == CHOOSE i \in at : Cardinality({j \in at : j <= i}) = k

Picked(s, at) == [k \in 1..Cardinality(at) |-> s[Nth(at, k)]]
=============================================================================
