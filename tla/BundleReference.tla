--------------------------- MODULE BundleReference ---------------------------
(***************************************************************************)
(* What the bundles of SpendBundles and IncentiveBundles, and the summary  *)
(* of SpendSummary, must come to, over every request of a range.  A plan   *)
(* is a bundle with what was asked for: who is to get what, the fee the    *)
(* farmer is to get, and the coins that were named to it.                  *)
(***************************************************************************)
EXTENDS SpendGate, IncentiveBundles, SpendSummary

CONSTANT Presented   \* the bundles the gate is asked about, with their classes

(* Coins have an id and a value; an id is a path of at least one step.     *)
WellFormed(bundle) ==
  /\ IsFiniteSet(bundle)
  /\ \A s \in bundle :
       /\ s.coin.amount \in Nat
       /\ Len(s.coin.id) \in Nat \ {0}
       /\ s.coin.id = [i \in 1 .. Len(s.coin.id) |-> s.coin.id[i]]
       /\ IsFiniteSet(ToSet(s.creates))
       /\ \A o \in ToSet(s.creates) : o.amount \in Nat

(* No bare coin in the bundle is somebody else's.                          *)
IsTheWallets(bundle) ==
  \A c \in Spent(bundle) : PuzzleHash(c) \in Addresses => c.owner = "me"

(* The gate rules on what the summary makes of the wallet's own bundles,   *)
(* of those it can account for.                                            *)
Derivable == {p \in Presented : Accountable(p.bundle)}

ASSUME PresentedAssumption ==
  /\ IsFiniteSet(Presented)
  /\ \A p \in Presented : WellFormed(p.bundle) /\ IsTheWallets(p.bundle)
  /\ Spends = {Derived(p.bundle, p.class) : p \in Derivable}

Own(asset) == {c \in Purse : c.asset = asset}

Planned(what, bundle, gets, fee, named) ==
  [what |-> what, bundle |-> bundle, gets |-> gets, fee |-> fee, named |-> named]

Gets(owner, amount, asset) == {Output(owner, amount, asset)}

Transferred(policy) ==
  UNION {{Planned("transfer", p.bundle, Gets(p.to, p.amount, p.asset), p.fee, {}) :
            p \in Transfers(policy, r) \cup CatTransfers(policy, r)} : r \in Requests}

DidMints ==
  UNION {{Planned("did mint", DidMintBundle(c, fee), Gets("did", 1, "XCH"),
                  ChangeAndFee(c, fee).fee, {c}) : c \in Funding(fee)} : fee \in Fees}

StoreLaunches ==
  UNION {{Planned("store launch", StoreLaunchBundle(c, fee),
                  Gets("did", 1, "XCH") \cup Gets("store", 1, "XCH"), fee, {Did, c}) :
            c \in Funding(fee)} : fee \in Fees}

Edits == {Planned("edit", EditBundle, Gets("store", 1, "XCH"), 0, {Store})}
Melted == {Planned("melt", MeltBundle, {}, 2, {Did, Store})}

DistributorLaunches ==
  {Planned("distributor", LaunchBundle(x[1], x[2], x[3]),
           Gets("distributor", 1, "XCH") \cup Gets("manager", 1, "XCH")
             \cup Gets("me", x[2].amount, "DIG"), x[3], {x[1], x[2]}) :
     x \in {y \in Own("XCH") \X Own("DIG") \X Fees \X Terms :
             Launchable(y[1], y[2], y[3], y[4])}}

Refills ==
  {Planned("refill", RefillBundle(x[1], x[2], x[4]), Gets("reserve", Reserve + x[2], "DIG"),
           0, {Distributor, ReserveCoin, RewardSlot, x[1]}) :
     x \in {y \in Own("DIG") \X Amounts \X {0, 1} \X SUBSET Own("DIG") :
             Refillable(y[1], y[2], y[3], y[4])}}

Clawbacks ==
  {Planned("clawback", ClawbackBundle(x[1], x[2]),
           Gets("reserve", Reserve - Share(x[2]), "DIG"), 0,
           {Distributor, ReserveCoin, Commitment, RewardSlot, x[1]}) :
     x \in {y \in Own("XCH") \X Claims : Recoverable(y[1], y[2])}}

Gated ==
  DidMints \cup StoreLaunches \cup Edits \cup Melted \cup DistributorLaunches
    \cup Refills \cup Clawbacks

(* The whitelist a plan's bundle is held against.                          *)
Passes(p, bundle) ==
  LET own == CHOOSE c \in p.named : c.owner = "me"
  IN  CASE p.what = "did mint"     -> MintGate(bundle)
        [] p.what = "store launch" -> LaunchGate(bundle)
        [] p.what = "edit"         -> EditGate(bundle)
        [] p.what = "melt"         -> MeltGate(bundle)
        [] p.what = "refill"       -> RefillGate(bundle, own) /\ RefillSigned(bundle)
        [] p.what = "clawback"     -> ClawbackGate(bundle, own) /\ ClawbackSigned(bundle)
        [] p.what = "distributor"  ->
             \E f, c \in p.named : /\ f.asset = "XCH" /\ c.asset = "DIG"
                                   /\ DistributorLaunchGate(bundle, f, c)
                                   /\ Discharged(bundle)

(* The refusals of the other signing loops are unreachable: whatever       *)
(* passes the gate is signed in full.                                      *)
IsSigned(p, bundle) == p.what # "distributor" => SignedInFull(bundle)

(***************************************************************************)
(* Exactness                                                               *)
(***************************************************************************)
Outputs(coins) == {Output(c.owner, c.amount, c.asset) : c \in coins}

Exact(p) ==
  /\ Lands(p.bundle)
  /\ Donated(p.bundle) = p.fee
  /\ p.gets \subseteq Outputs(Left(p.bundle))
  /\ p.what = "transfer" =>
       \A asset \in {"XCH", "DIG"} :
         Loss(p.bundle, asset) = ValueOf(p.gets, {asset})
                                   + IF asset = "XCH" THEN p.fee ELSE 0

(* A part of a transfer that lands without the rest pays what was asked,   *)
(* and the farmer no more than was offered.                                *)
NoPartDonates(p) ==
  \A part \in (SUBSET p.bundle) \ {{}} : Lands(part) =>
    p.gets \subseteq Outputs(Left(part)) /\ Donated(part) <= p.fee

TransfersAreExact == \A p \in Transferred("Hot") : Exact(p) /\ NoPartDonates(p)

NoTransferLeavesAVault == Transferred("Vault") = {}

GatedAreExact == \A p \in Gated : Exact(p)

(***************************************************************************)
(* Whitelists                                                              *)
(***************************************************************************)
(* Spends that no plan contains.                                           *)
Strays ==
  {Spending(c, <<Output("stranger", c.amount, c.asset)>>) : c \in Purse}
    \cup {Spending(OnChain("other did", "did", 1, "XCH"), <<>>),
          Spending(OnChain("dust", "stranger", 1, "XCH"), <<>>)}

(* A bundle with a spend more, less or exchanged, or with a signature that *)
(* is somebody else's or bound to nothing.                                 *)
Tampered(bundle) ==
  {bundle \cup {s} : s \in Strays}
    \cup {bundle \ {s} : s \in bundle}
    \cup {(bundle \ {x[1]}) \cup {x[2]} : x \in bundle \X Strays}
    \cup {(bundle \ {s}) \cup {[s EXCEPT !.keys = {"stranger"}]} : s \in bundle}
    \cup {(bundle \ {s}) \cup {[s EXCEPT !.domain = "AGG_SIG_UNSAFE"]} : s \in bundle}
    \cup {(bundle \ {s}) \cup {[s EXCEPT !.quoted = FALSE]} : s \in bundle}

Mine(coins) == {c \in coins : "me" \in KeyOf(c.owner)}

Singular(coins) == {c \in coins : c.owner \in Singletons}

(* What a plan puts at stake: how many coins of the wallet, and which of   *)
(* its singletons.                                                         *)
StakesNoMore(p, bundle) ==
  /\ Cardinality(Mine(Roots(bundle))) <= Cardinality(Mine(Roots(p.bundle)))
  /\ Singular(Roots(bundle)) \subseteq Singular(Roots(p.bundle))
  /\ \A s \in bundle : s.keys \subseteq UNION {t.keys : t \in p.bundle}
  /\ \A s \in bundle : s.domain = "AGG_SIG_ME" \/ s.keys = {}
  /\ p.what = "distributor" => \A s \in bundle : OwnCoin(s.coin) => s.quoted

GatesHold ==
  \A p \in Gated :
    /\ Passes(p, p.bundle) /\ IsSigned(p, p.bundle)
    /\ \A b \in Tampered(p.bundle) :
         Passes(p, b) => StakesNoMore(p, b) /\ IsSigned(p, b)

(***************************************************************************)
(* The summary                                                             *)
(***************************************************************************)
(* Any one or two coins of the wallet, and anything the first may make.    *)
Payments(n, asset) ==
  {Output(x[1], x[2], asset) : x \in {"me", "payee", "wrapped for me"} \X (1 .. n)}

CraftedOf(c) ==
  LET outs == Payments(c.amount, c.asset)
      made == {<<>>} \cup {<<o>> : o \in outs} \cup {<<x[1], x[2]>> : x \in outs \X outs}
  IN  UNION {{{Spending(c, m)} \cup {Spending(d, <<Output("me", d.amount, d.asset)>>) : d \in D} :
                D \in {E \in SUBSET (Purse \ {c}) : Cardinality(E) <= 1}} : m \in made}

Crafted == {b \in UNION {CraftedOf(c) : c \in Purse} : Accountable(b)}

Shows(bundle) ==
  /\ NativeTotal(bundle) >= Loss(bundle, "XCH")
  /\ Loss(bundle, "DIG") > 0 => MovesOtherAssets(bundle)
  /\ Singular(Roots(bundle)) # {} /\ Singular(Left(bundle)) = {} => Melts(bundle) # {}

(* The lines of a transfer are the request; without an XCH coin in the     *)
(* bundle a CAT transfer's own change is a line too.                       *)
IsTheRequest(p) ==
  /\ p.gets \subseteq Outputs(Recipients(p.bundle))
  /\ Outputs(Recipients(p.bundle)) # p.gets => "me" \notin P2Destinations(p.bundle)
  /\ NativeTotal(p.bundle) = p.fee + ValueOf(Of(Left(p.bundle), "payee"), {"XCH"})

TransfersAreShown == \A p \in Transferred("Hot") : IsTheRequest(p)

LossesAreShown == \A b \in Crafted \cup {MeltBundle} : Shows(b)

(***************************************************************************)
(* Properties of the gate and of what it is asked about                    *)
(***************************************************************************)
(* Every bundle that is built lands, pays exactly what was asked and gives *)
(* the farmer exactly the fee; no two of its coins are one coin; no part   *)
(* of a transfer that could land alone gives value away; and no transfer   *)
(* is built out of a vault (build_transfer_spends, "change is computed     *)
(* exactly").                                                              *)
BundlesAreExact ==
  custody \in Custodies => TransfersAreExact /\ NoTransferLeavesAVault /\ GatedAreExact

(* Each builder's own bundle passes the whitelist it is held against, and  *)
(* no bundle that differs in a spend or in a signature passes it and takes *)
(* more coins of the wallet, another singleton, or somebody else's key.    *)
GatesTakeOnlyTheRequest == custody \in Custodies => GatesHold

(* The summary never shows less than the wallet loses, whatever is made of *)
(* its coins, and of a transfer it shows the request.                      *)
SummaryHidesNothing == custody \in Custodies => TransfersAreShown /\ LossesAreShown

(* The most that a bundle the gate knows as s can cost the wallet.         *)
WorstLoss(s) ==
  Max({0} \cup {Loss(p.bundle, "XCH") : p \in {q \in Derivable : Derived(q.bundle, q.class) = s}})

(* What the wallet really loses by the bundles the gate approved unattended*)
(* in the last Period seconds is within the cap, whatever they claimed.    *)
CapBoundsTheLoss ==
  MapThenSumSet(LAMBDA a : WorstLoss(a.spend), LastPeriod(Unattended, clock)) <= Cap
=============================================================================
