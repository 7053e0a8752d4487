----------------------------- MODULE MCSpendGate -----------------------------
(***************************************************************************)
(* A hot wallet, or a vault, with one op class.  The spends presented to   *)
(* the gate are what the summary makes of bundles of a small purse.        *)
(***************************************************************************)
EXTENDS BundleReference, TLC

CONSTANT tip

MCClasses == {tip}
MCLimits == [c \in MCClasses |-> [enabled |-> TRUE, perTx |-> 2]]

MCPurse ==
  {OnChain("x3", "me", 3, "XCH"), OnChain("x4", "me", 4, "XCH"),
   OnChain("x5", "me", 5, "XCH"), OnChain("k2", "me", 2, "DIG"),
   OnChain("k3", "me", 3, "DIG")}

Five == CHOOSE c \in MCPurse : c.amount = 5
Cat  == CHOOSE c \in MCPurse : c.amount = 2 /\ c.asset = "DIG"

Asked(amount, fee) == [to |-> "payee", amount |-> amount, fee |-> fee]

(* A payment the wallet makes to itself, so that only the fee leaves.      *)
Consolidation(fee) ==
  {[Spending(Five, <<Output("me", 5 - fee, "XCH")>>) EXCEPT !.fee = fee]}

(* A payment to the puzzle hash of a wrapped coin that is spent beside it. *)
Burial == {Spending(Five, <<Output("wrapped for me", 3, "XCH"), Output("me", 2, "XCH")>>),
           Spending(Cat, <<Output("me", 2, "DIG")>>)}

With(bundle, class) == [bundle |-> bundle, class |-> class]

(* Nothing but a reshuffle, a fee in an undeclared class, payments that    *)
(* the policy may approve and one above the limit of a transaction, a CAT  *)
(* payment, and value sent to a wrapped puzzle hash.                       *)
MCPresented ==
  {With(Consolidation(0), tip), With(Consolidation(1), Undeclared),
   With(TransferBundle({Five}, Asked(1, 0)), tip),
   With(TransferBundle({Five}, [Asked(1, 1) EXCEPT !.to = "hot wallet"]), tip),
   With(CatBundle({Cat}, {Five}, Asked(1, 1)), tip),
   With(Burial, tip)}

MCSpends ==
  {Derived(p.bundle, p.class) : p \in {q \in MCPresented : Accountable(q.bundle)}}

MCSymmetry == Permutations(Callers)
=============================================================================
