------------------------------ MODULE MCForum ------------------------------
(* Instances of Forum for TLC. *)
EXTENDS Forum, TLC

CONSTANTS post, root

\* Our post replies to root, a post of another user, which our offering is for.
MCParent == [j \in Posts |-> IF j = post THEN root ELSE NoPost]
MCTarget == [j \in OfferJobs |-> root]

\* Coins are interchangeable.
Symmetry == Permutations(Coins)
=============================================================================
