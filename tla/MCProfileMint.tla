---------------------------- MODULE MCProfileMint ----------------------------
(***************************************************************************)
(* Funding coins are interchangeable.                                      *)
(***************************************************************************)
EXTENDS ProfileMint, TLC

MCSymmetry == Permutations(Coins)
=============================================================================
