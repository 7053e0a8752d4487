------------------------------ MODULE MCSession ------------------------------
(***************************************************************************)
(* Two attempts through the gate and one beside it.                        *)
(***************************************************************************)
EXTENDS CustodyReference, TLC

CONSTANTS g1, g2, s1, tip

MCGateAttempts == {g1, g2}
MCAttempts == {g1, g2, s1}

MCSymmetry == Permutations(MCGateAttempts)
=============================================================================
