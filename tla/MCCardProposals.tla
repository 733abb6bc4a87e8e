-------------------------- MODULE MCCardProposals --------------------------
(* Finite instances of CardProposals: requests are interchangeable.        *)
EXTENDS CardProposals, TLC

Symmetry == Permutations(Request)
=============================================================================
