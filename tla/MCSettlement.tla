---------------------------- MODULE MCSettlement ----------------------------
(* A transfer T with two inputs, its fee-bumped copy U, the second payment *)
(* N made if T is dead, and a spend X of one input by another device; a    *)
(* DID mint D and a distributor L, each beside a rival for its input.      *)
EXTENDS RecordReference

MCBundles == {"T", "U", "N", "X", "D", "Y", "L", "Z"}
MCCoins == {"c1", "c2", "c3", "c4", "c5", "c6", "pay", "pay2", "did", "launcher"}

MCSpends ==
  [b \in MCBundles |->
     CASE b \in {"T", "U"} -> {"c1", "c2"} [] b = "N" -> {"c3"} [] b = "X" -> {"c1"}
       [] b \in {"D", "Y"} -> {"c4"} [] b = "L" -> {"c5", "c6"} [] OTHER -> {"c5"}]

MCMakes ==
  [b \in MCBundles |->
     CASE b \in {"T", "U"} -> {"pay"} [] b = "N" -> {"pay2"} [] b = "D" -> {"did"}
       [] b = "L" -> {"launcher"} [] OTHER -> {}]

MCWatched ==
  [b \in {"T", "U", "N", "D", "L"} |->
     CASE b \in {"T", "U"} -> "pay" [] b = "N" -> "pay2" [] b = "D" -> "did"
       [] OTHER -> "launcher"]

MCFunding == [b \in {"L"} |-> "c5"]
MCReplaces == [b \in {"T", "U", "N", "D", "L"} |-> IF b = "U" THEN "T" ELSE "none"]
MCResends == [b \in {"T", "U", "N", "D", "L"} |-> IF b = "N" THEN "T" ELSE "none"]

Families3 == {{"T", "U", "X"}, {"T", "N", "X"}, {"D", "Y"}, {"L", "Z"}}
(* Bound: one status call at a time; calls about two bundles only read.    *)
OneCallAtATime ==
  \A a, b \in Pushed : watch[a].stage # "idle" /\ watch[b].stage # "idle" => a = b

FamiliesOfMints == {{"D"}, {"L"}}
=============================================================================
