----------------------------- MODULE MCPaidSend -----------------------------
(* Small instances of the paid send for TLC.                               *)
EXTENDS PaidSend, TLC

\* Genuine and Stamped envelopes may be exchanged with one another.
Symmetry == Permutations(Genuine \cap Stamped) \cup Permutations(Items)
=============================================================================
