---------------------------- MODULE MCReservation ----------------------------
(***************************************************************************)
(* Two XCH coins and a CAT coin; a transfer either XCH coin can pay, one   *)
(* that needs both, and a CAT transfer with an XCH fee.  The rules of      *)
(* selection are also compared with their reference, on coins of their own.*)
(***************************************************************************)
EXTENDS SelectionReference, TLC

CONSTANTS x1, x2, k1

MCCoins == {x1, x2, k1}
MCCatCoins == {k1}
MCAmount == [c \in MCCoins |-> 1]

Pay(n)  == [kind |-> "transfer", amount |-> n, fee |-> 0]
SendCat == [kind |-> "cat", amount |-> 1, fee |-> 1]
Mint    == [kind |-> "funding", amount |-> 1, fee |-> 0]

MCRequests == {Pay(1), Pay(2), SendCat, Mint}

MCSymmetry == Permutations(Builders) \cup Permutations({x1, x2})
=============================================================================
