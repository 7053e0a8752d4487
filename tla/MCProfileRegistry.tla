-------------------------- MODULE MCProfileRegistry --------------------------
(***************************************************************************)
(* Two identities, three indices, one fee that is allowed and one that is  *)
(* not, and two heights for an end besides the height no end can have;     *)
(* and a resolver that counts two launches, over lineages of four coins.   *)
(***************************************************************************)
EXTENDS ResolveReference, TLC

MCFees == {0, 2}
MCHeights == {0, 1, 2}

MCSymmetry == Permutations(Dids)
=============================================================================
