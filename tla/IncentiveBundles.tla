--------------------------- MODULE IncentiveBundles ---------------------------
(***************************************************************************)
(* The bundles that concern a reward distributor: launching one, paying    *)
(* CAT tokens into an epoch of it (a refill), and taking a commitment back *)
(* before its epoch starts (a clawback).  What the distributor's own       *)
(* puzzles make of a spend is the reward library's; it is modelled by the  *)
(* coins it spends and makes.                                              *)
(***************************************************************************)
EXTENDS SpendBundles

CONSTANTS
  Reserve,     \* CAT base units the distributor's reserve holds
  ShareBps,    \* withdrawal_share_bps of the distributor's constants
  ChainNow     \* the peak's timestamp, as observed

ASSUME DistributorAssumption == Reserve \in Nat /\ ShareBps \in Nat /\ ChainNow \in Nat

(* The coins of a distributor that exists: its singleton, its reserve, and *)
(* the slots that record what an epoch was promised and by whom.           *)
Distributor == OnChain("distributor", "distributor", 1, "XCH")
ReserveCoin == OnChain("reserve", "reserve", Reserve, "DIG")
RewardSlot  == OnChain("reward slot", "slot", 0, "XCH")
Commitment  == OnChain("commitment slot", "slot", 0, "XCH")

(***************************************************************************)
(* Launch                                                                  *)
(***************************************************************************)
(* The length of an epoch and the start of the first.                      *)
Terms == [epoch : {0, 1}, starts : ChainNow .. ChainNow + 1]

(* required_xch: the offered mojo, the manager singleton's and the fee.    *)
LaunchCost(fee) == 2 + fee

(* What the mint refuses, and the reward library a start that is past.     *)
Launchable(funding, cat, fee, terms) ==
  /\ OwnCoin(funding)
  /\ cat.owner = "me" /\ cat.asset = "DIG"
  /\ terms.epoch # 0
  /\ LaunchCost(fee) <= funding.amount
  /\ ChainNow < terms.starts

(* manager_launcher_coin and offered_xch_settlement_coin: their ids are    *)
(* known before the bundle is built.                                       *)
ManagerLauncher(funding) == Made(funding, Output("launcher", 1, "XCH"))
OfferedXch(funding)      == Made(funding, Output("settlement", 1, "XCH"))

(* spend_reward_cat_into_settlement: the whole coin is offered.            *)
CatIntoSettlement(cat) == Spending(cat, <<Output("settlement", cat.amount, "DIG")>>)

(* Mutant: the offered CAT stays in the reserve.                           *)
LaunchIntoTheReserve(funding, cat, fee) ==
  LET offered  == Made(cat, Output("settlement", cat.amount, "DIG"))
      security == Made(OfferedXch(funding), Output("security", 1, "XCH"))
      change   == funding.amount - LaunchCost(fee)
  IN  {[Spending(funding, <<Output("launcher", 1, "XCH"), Output("settlement", 1, "XCH")>>
                            \o Change(change, "XCH")) EXCEPT !.fee = fee],
       Spending(ManagerLauncher(funding), <<Output("manager", 1, "XCH")>>),
       CatIntoSettlement(cat),
       Spending(OfferedXch(funding), <<Output("security", 1, "XCH")>>),
       Spending(security, <<Output("distributor", 1, "XCH")>>),
       Spending(offered, <<Output("reserve", cat.amount, "DIG")>>)}

(* build_and_sign_reward_distributor_launch: the manager is launched, and  *)
(* a mojo and a CAT coin are offered to the launch, which makes the        *)
(* distributor of the mojo, by way of a coin under a key of its own, and   *)
(* an empty reserve; the CAT comes back whole.                             *)
LaunchBundle(funding, cat, fee) ==
  LET offered  == Made(cat, Output("settlement", cat.amount, "DIG"))
      security == Made(OfferedXch(funding), Output("security", 1, "XCH"))
      change   == funding.amount - LaunchCost(fee)
  IN  {[Spending(funding, <<Output("launcher", 1, "XCH"), Output("settlement", 1, "XCH")>>
                            \o Change(change, "XCH")) EXCEPT !.fee = fee],
       Spending(ManagerLauncher(funding), <<Output("manager", 1, "XCH")>>),
       CatIntoSettlement(cat),
       Spending(OfferedXch(funding), <<Output("security", 1, "XCH")>>),
       Spending(security, <<Output("distributor", 1, "XCH")>>),
       Spending(offered, <<Output("reserve", 0, "DIG"), Output("me", cat.amount, "DIG")>>)}

(***************************************************************************)
(* Refill                                                                  *)
(***************************************************************************)
(* A CAT spend that a request's distributor carries already staged.        *)
Staged(cats) == {Spending(c, <<Output("stranger", c.amount, "DIG")>>) : c \in cats}

(* Mutant: what is staged is not looked at.                                *)
RefillableWithMore(cat, rewards, epoch, staged) ==
  /\ cat.owner = "me" /\ cat.asset = "DIG"
  /\ epoch # 0
  /\ rewards # 0
  /\ rewards <= cat.amount

(* What begin_reward_distributor_refill refuses.                           *)
Refillable(cat, rewards, epoch, staged) ==
  /\ cat.owner = "me" /\ cat.asset = "DIG"
  /\ epoch # 0
  /\ rewards # 0
  /\ rewards <= cat.amount
  /\ staged = {}

(* Mutant: the whole funding coin goes into the reserve.                   *)
RefillOfTheWholeCoin(cat, rewards, staged) ==
  {Spending(Distributor, <<Output("distributor", 1, "XCH"), Output("slot", 0, "XCH")>>),
   Spending(ReserveCoin, <<Output("reserve", Reserve + cat.amount, "DIG")>>),
   Spending(RewardSlot, <<>>),
   Spending(cat, <<>>)} \cup Staged(staged)

(* The rewards join the reserve, the rest of the coin comes back, and      *)
(* finish_spend appends what is staged.                                    *)
RefillBundle(cat, rewards, staged) ==
  {Spending(Distributor, <<Output("distributor", 1, "XCH"), Output("slot", 0, "XCH")>>),
   Spending(ReserveCoin, <<Output("reserve", Reserve + rewards, "DIG")>>),
   Spending(RewardSlot, <<>>),
   Spending(cat, Change(cat.amount - rewards, "DIG"))} \cup Staged(staged)

(***************************************************************************)
(* Clawback                                                                *)
(***************************************************************************)
(* promised: what the commitment slot says was committed, by whom and for  *)
(* which epoch; slot: what the reward slot of slotEpoch still holds, a     *)
(* part of the reserve.                                                    *)
Claims == [promised : Amounts, slot : {a \in Amounts : a <= Reserve},
           authority : {"me", "stranger"},
           epoch : ChainNow - 1 .. ChainNow + 1, slotEpoch : ChainNow .. ChainNow + 1,
           staged : SUBSET {c \in Purse : c.amount = 2}]

(* required_share, computed without overflow and rounded down.             *)
Share(claim) == (claim.promised * ShareBps) \div 10000

(* The reward library refuses once the chain's clock has reached the epoch.*)
EpochHasStarted(claim) == claim.epoch <= ChainNow

(* What begin_reward_distributor_clawback refuses.                         *)
Recoverable(coin, claim) ==
  /\ OwnCoin(coin)
  /\ claim.authority = "me"
  /\ claim.slotEpoch = claim.epoch
  /\ claim.slot >= Share(claim)
  /\ claim.staged = {}
  /\ ~EpochHasStarted(claim)

(* The share leaves the reserve for the wallet; the coin that authorizes   *)
(* the spend is made again.                                                *)
ClawbackBundle(coin, claim) ==
  {Spending(Distributor, <<Output("distributor", 1, "XCH"), Output("slot", 0, "XCH")>>),
   Spending(ReserveCoin, <<Output("reserve", Reserve - Share(claim), "DIG")>>
                           \o Change(Share(claim), "DIG")),
   Spending(Commitment, <<>>),
   Spending(RewardSlot, <<>>),
   Spending(coin, <<Output("me", coin.amount, "XCH")>>)} \cup Staged(claim.staged)

(***************************************************************************)
(* Whitelists                                                              *)
(***************************************************************************)
(* require_quote_form_wallet_spends: a signature of the wallet is over     *)
(* conditions, not over a puzzle that makes some.                          *)
Quoted(bundle) == \A s \in bundle : OwnCoin(s.coin) => s.quoted

(* Mutant: the delegated puzzles are not looked at.                        *)
LaunchGateOfAnyPuzzle(bundle, funding, cat) ==
  SignedBy(bundle, {"me", "security"}) /\ Roots(bundle) = {funding, cat}

(* gate_reward_distributor_launch: exactly the two coins the mint named;   *)
(* the launch's own ephemeral key signs beside the wallet's.               *)
DistributorLaunchGate(bundle, funding, cat) ==
  /\ SignedBy(bundle, {"me", "security"})
  /\ Quoted(bundle)
  /\ Roots(bundle) = {funding, cat}

(* The signing loop of a launch finds a key for every requirement, and     *)
(* verify_aggregate_discharges sees the security coin's among them.        *)
Discharged(bundle) ==
  /\ \A s \in bundle : s.keys \subseteq {"me", "security"}
  /\ \E s \in bundle : "security" \in s.keys

(* Mutant: the named coins, and whatever else.                             *)
RefillGateOfMore(bundle, cat) ==
  {Distributor, ReserveCoin, RewardSlot, cat} \subseteq Roots(bundle)

(* gate_reward_distributor_refill_roots: exactly four coins.               *)
RefillGate(bundle, cat) == Roots(bundle) = {Distributor, ReserveCoin, RewardSlot, cat}

(* The signing loop of a refill is its signature gate.                     *)
RefillSigned(bundle) == SignsForItself(bundle)

(* gate_reward_distributor_clawback_roots: exactly five.                   *)
ClawbackGate(bundle, coin) ==
  Roots(bundle) = {Distributor, ReserveCoin, Commitment, RewardSlot, coin}

ClawbackSigned(bundle) == SignsForItself(bundle)
=============================================================================
