----------------------------- MODULE SpendBundles -----------------------------
(***************************************************************************)
(* The bundles dig-account builds, and the whitelists it holds its own     *)
(* bundles against before it signs them.                                   *)
(*                                                                         *)
(* A coin is known by its id: the name of a coin of the chain, or the id   *)
(* of its parent with the output that made it.  Two outputs of one spend   *)
(* that pay one owner the same amount are therefore one coin id, which no  *)
(* block admits.  A coin's owner is its inner puzzle and its asset says    *)
(* whether the puzzle is wrapped as a CAT: only an "XCH" coin of a wallet  *)
(* is a bare p2 coin.  A bundle is a set of spends.                        *)
(***************************************************************************)
EXTENDS Integers, Sequences, SequencesExt, FiniteSets, FiniteSetsExt

CONSTANTS
  Purse,       \* the wallet's own XCH and CAT coins on the chain
  Amounts,     \* what a request may ask for
  Fees,        \* the fees a request may offer
  MostInputs,  \* MAX_TRANSFER_INPUT_COINS
  MaxFee,      \* MAX_MINT_FEE_MOJOS
  Largest      \* u64::MAX

ASSUME NumbersAssumption ==
  /\ Amounts \subseteq Nat /\ Fees \subseteq Nat
  /\ MostInputs \in Nat \ {0} /\ MaxFee \in Nat /\ Largest \in Nat

Selection == INSTANCE CoinSelection WITH MaxInputs <- MostInputs, MaxAmount <- Largest

(***************************************************************************)
(* Coins, spends and what a block makes of them                            *)
(***************************************************************************)
OnChain(name, owner, amount, asset) ==
  [id |-> <<name>>, owner |-> owner, amount |-> amount, asset |-> asset]

Output(owner, amount, asset) == [owner |-> owner, amount |-> amount, asset |-> asset]

(* The purse holds coins of the chain, each worth something.               *)
ASSUME PurseAssumption ==
  /\ IsFiniteSet(Purse)
  /\ \A c \in Purse : /\ c = OnChain(c.id[1], "me", c.amount, c.asset)
                      /\ c.amount \in Nat \ {0} /\ c.asset \in {"XCH", "DIG"}
  /\ \A c, d \in Purse : c.id = d.id => c = d

Made(coin, o) ==
  [id |-> Append(coin.id, o), owner |-> o.owner, amount |-> o.amount, asset |-> o.asset]

Singletons == {"did", "store", "distributor"}

(* The key a coin's spend must be signed with, if any.                     *)
KeyOf(owner) ==
  CASE owner \in {"me", "did", "store"} -> {"me"}
    [] owner \in {"payee", "stranger", "security", "hot wallet"} -> {owner}
    [] OTHER                            -> {}

(* says, needs: announcements made and asserted; domain: what the          *)
(* signature is bound to; quoted: the delegated puzzle is its conditions.  *)
Spending(coin, creates) ==
  [coin |-> coin, creates |-> creates, fee |-> 0, says |-> {}, needs |-> {},
   keys |-> KeyOf(coin.owner), domain |-> "AGG_SIG_ME", quoted |-> TRUE]

Spent(bundle)   == {s.coin : s \in bundle}
Created(bundle) == UNION {{Made(s.coin, o) : o \in ToSet(s.creates)} : s \in bundle}
Left(bundle)    == Created(bundle) \ Spent(bundle)

(* Coins that existed before the bundle: their parent is not spent in it.  *)
Roots(bundle) ==
  {c \in Spent(bundle) : \A d \in Spent(bundle) : Front(c.id) # d.id}

ValueOf(coins, assets) ==
  MapThenSumSet(LAMBDA c : c.amount, {c \in coins : c.asset \in assets})

Of(coins, owner) == {c \in coins : c.owner = owner}

Reserved(bundle) == MapThenSumSet(LAMBDA s : s.fee, bundle)

(* What the farmer gets, reserved or not.                                  *)
Donated(bundle) == ValueOf(Spent(bundle), {"XCH"}) - ValueOf(Created(bundle), {"XCH"})

(* What the wallet had and has no more.                                    *)
Loss(bundle, asset) ==
  ValueOf(Of(Roots(bundle), "me"), {asset}) - ValueOf(Of(Left(bundle), "me"), {asset})

(* What a block asks of a bundle: every coin exists, no two of the coins   *)
(* made are one coin, every assertion is answered, a singleton makes no    *)
(* more than one odd coin, and no value comes from nowhere.                *)
Lands(bundle) ==
  /\ \A c \in Roots(bundle) : Len(c.id) = 1
  /\ Spent(bundle) \ Roots(bundle) \subseteq Created(bundle)
  /\ \A s \in bundle : Cardinality(ToSet(s.creates)) = Len(s.creates)
  /\ \A s \in bundle : s.coin.owner \in Singletons =>
       Cardinality({o \in ToSet(s.creates) : o.asset = "XCH" /\ o.amount % 2 = 1}) <= 1
  /\ \A s \in bundle : \A n \in s.needs :
       \E t \in bundle : n.of = t.coin.id /\ n.said \in t.says
  /\ Donated(bundle) >= Reserved(bundle)
  /\ ValueOf(Spent(bundle), {"DIG"}) = ValueOf(Created(bundle), {"DIG"})

(***************************************************************************)
(* Transfers                                                               *)
(***************************************************************************)
Listing(asset) ==
  [c \in {d \in Purse : d.asset = asset} |->
     [amount |-> c.amount, own |-> TRUE, confirmed |-> TRUE, spent |-> FALSE]]

Selected(answers) == {a.coins : a \in {b \in answers : b.verdict = "Chosen"}}

(* A change output of zero is left out.                                    *)
Change(amount, asset) ==
  IF amount > 0 THEN <<Output("me", amount, asset)>> ELSE <<>>

(* Whom a request may pay: somebody whose address was decoded, or a puzzle *)
(* hash the wallet itself derived.                                         *)
Payees == {"payee", "me"}

Requests == [to : Payees, amount : Amounts, fee : Fees]

(* required_total, refused when it does not fit in a u64.                  *)
RequiredTotal(r) == r.amount + r.fee

(* Mutant: a transfer to the wallet itself is built.                       *)
PayableToAnyone(policy, r) == policy # "Vault" /\ r.amount > 0

(* What build_transfer and build_cat_transfer refuse before they select.   *)
Payable(policy, r) == policy # "Vault" /\ r.amount > 0 /\ r.to # "me"

(* The lead is the last coin selected, and the largest is the first.       *)
Lead(coins) == CHOOSE c \in coins : \A d \in coins : c.amount <= d.amount

(* Mutant: the fee is left to the change.                                  *)
TransferKeepsTheFee(coins, r) ==
  LET lead   == Lead(coins)
      change == ValueOf(coins, {"XCH"}) - r.amount
  IN  {[Spending(lead, <<Output(r.to, r.amount, "XCH")>> \o Change(change, "XCH"))
          EXCEPT !.fee = r.fee]}
        \cup {Spending(c, <<>>) : c \in coins \ {lead}}

(* Mutant: the secondaries are not bound to the lead.                      *)
TransferUnbound(coins, r) ==
  LET lead   == Lead(coins)
      change == ValueOf(coins, {"XCH"}) - RequiredTotal(r)
  IN  {[Spending(lead, <<Output(r.to, r.amount, "XCH")>> \o Change(change, "XCH"))
          EXCEPT !.fee = r.fee]}
        \cup {Spending(c, <<>>) : c \in coins \ {lead}}

(* build_transfer_spends: the lead makes the payment and the change; the   *)
(* others bring value and cannot land without it.                          *)
TransferBundle(coins, r) ==
  LET lead   == Lead(coins)
      others == coins \ {lead}
      change == ValueOf(coins, {"XCH"}) - RequiredTotal(r)
  IN  {[Spending(lead, <<Output(r.to, r.amount, "XCH")>> \o Change(change, "XCH"))
          EXCEPT !.fee = r.fee,
                 !.says = IF others = {} THEN {} ELSE {"input binding"}]}
        \cup {[Spending(c, <<>>) EXCEPT
                 !.needs = {[of |-> lead.id, said |-> "input binding"]}] : c \in others}

(* build_dig_transfer_spends: a CAT ring whose lead makes the payment and  *)
(* the change, and an XCH coin that pays the fee and cannot land without   *)
(* the lead.  The selector answers with one fee coin at most.              *)
CatBundle(cats, fees, r) ==
  LET lead   == Lead(cats)
      change == ValueOf(cats, {"DIG"}) - r.amount
      rest   == ValueOf(fees, {"XCH"}) - r.fee
  IN  {[Spending(lead, <<Output(r.to, r.amount, "DIG")>> \o Change(change, "DIG"))
          EXCEPT !.says = IF fees = {} THEN {} ELSE {"fee binding"}]}
        \cup {Spending(c, <<>>) : c \in cats \ {lead}}
        \cup {[Spending(c, Change(rest, "XCH")) EXCEPT
                 !.fee = r.fee,
                 !.needs = {[of |-> lead.id, said |-> "fee binding"]}] : c \in fees}

(* A plan: the bundle, with what was asked for.                            *)
TransferPlan(coins, r) ==
  [bundle |-> TransferBundle(coins, r), to |-> r.to, amount |-> r.amount, asset |-> "XCH",
   fee |-> r.fee]

CatTransferPlan(cats, fees, r) ==
  [bundle |-> CatBundle(cats, fees, r), to |-> r.to, amount |-> r.amount, asset |-> "DIG",
   fee |-> r.fee]

Transfers(policy, r) ==
  {TransferPlan(coins, r) :
     coins \in IF Payable(policy, r) /\ RequiredTotal(r) <= Largest
               THEN Selected(Selection!TransferSelect(Listing("XCH"), {}, RequiredTotal(r)))
               ELSE {}}

CatTransfers(policy, r) ==
  IF Payable(policy, r)
  THEN {CatTransferPlan(cats, fees, r) :
          cats \in Selected(Selection!CatSelect(Listing("DIG"), {}, r.amount)),
          fees \in Selected(Selection!FeeSelect(Listing("XCH"), {}, r.fee))}
  ELSE {}

(***************************************************************************)
(* Mints                                                                   *)
(***************************************************************************)
(* The profile's two singletons, as the chain holds them.                  *)
Did   == OnChain("did", "did", 1, "XCH")
Store == OnChain("store", "store", 1, "XCH")

(* check_fee_ceiling.                                                      *)
FeeIsAllowed(fee) == fee <= MaxFee

(* One coin that covers the singleton's mojo and the fee.                  *)
Funding(fee) ==
  IF FeeIsAllowed(fee)
  THEN UNION Selected(Selection!FundingSelect(Listing("XCH"), {}, 1 + fee))
  ELSE {}

(* Mutant: a change of one mojo is an output like any other.               *)
ChangeIsNeverFolded(source, fee) == [change |-> source.amount - 1 - fee, fee |-> fee]

(* split_change_and_fee: a change of one mojo would be the funding coin    *)
(* once more, so it goes to the farmer.                                    *)
ChangeAndFee(source, fee) ==
  LET change == source.amount - 1 - fee
  IN  IF change = 1 THEN [change |-> 0, fee |-> fee + 1]
                    ELSE [change |-> change, fee |-> fee]

(* build_mint_spends: the source is split into a funding coin of one mojo  *)
(* and the change, and the funding coin makes the launcher, and that the   *)
(* DID, in the same bundle.                                                *)
DidMintBundle(source, fee) ==
  LET split    == ChangeAndFee(source, fee)
      funding  == Made(source, Output("me", 1, "XCH"))
      launcher == Made(funding, Output("launcher", 1, "XCH"))
  IN  {[Spending(source, <<Output("me", 1, "XCH")>> \o Change(split.change, "XCH"))
          EXCEPT !.fee = split.fee],
       Spending(funding, <<Output("launcher", 1, "XCH")>>),
       Spending(launcher, <<Output("did", 1, "XCH")>>)}

(* spend_funding_coin: the funding coin keeps one mojo less than it spent. *)
FundingSpend(funding, fee) ==
  [Spending(funding, Change(funding.amount - 1 - fee, "XCH")) EXCEPT !.fee = fee]

(* Mutant: the launcher is made by the DID coin itself.                    *)
StoreLaunchDirect(funding, fee) ==
  LET launcher == Made(Did, Output("launcher", 1, "XCH"))
  IN  {Spending(Did, <<Output("did", 1, "XCH"), Output("launcher", 1, "XCH")>>),
       Spending(launcher, <<Output("store", 1, "XCH")>>), FundingSpend(funding, fee)}

(* build_and_sign_store_launch: the DID coin makes itself again and an     *)
(* intermediate coin of zero, that the launcher, and that the store; the   *)
(* launcher's mojo is the one the funding coin leaves over.                *)
StoreLaunchBundle(funding, fee) ==
  LET between  == Made(Did, Output("intermediate", 0, "XCH"))
      launcher == Made(between, Output("launcher", 1, "XCH"))
  IN  {Spending(Did, <<Output("did", 1, "XCH"), Output("intermediate", 0, "XCH")>>),
       Spending(between, <<Output("launcher", 1, "XCH")>>),
       Spending(launcher, <<Output("store", 1, "XCH")>>),
       FundingSpend(funding, fee)}

(***************************************************************************)
(* Edits and melts                                                         *)
(***************************************************************************)
(* build_and_sign_update: the store's tip makes the store again.           *)
EditBundle == {Spending(Store, <<Output("store", 1, "XCH")>>)}

(* plan_melt: both singletons end, and make nothing.                       *)
MeltBundle == {Spending(Did, <<>>), Spending(Store, <<>>)}

(***************************************************************************)
(* Whitelists                                                              *)
(***************************************************************************)
(* Only these keys sign, and only messages bound to a coin.                *)
SignedBy(bundle, keys) ==
  \A s \in bundle : /\ s.keys \subseteq keys
                    /\ s.keys # {} => s.domain = "AGG_SIG_ME"

SignsForItself(bundle) == SignedBy(bundle, {"me"})

(* sign_mint_spends and its like sign every requirement with the wallet's  *)
(* key, without looking again at whose it is.                              *)
SignedInFull(bundle) == \A s \in bundle : s.keys \subseteq {"me"}

(* A coin at the wallet's own puzzle hash.                                 *)
OwnCoin(c) == c.owner = "me" /\ c.asset = "XCH"

(* Mutant: any number of the wallet's coins may be spent.                  *)
MintGateOfMany(bundle) ==
  SignsForItself(bundle) /\ \A c \in Roots(bundle) : OwnCoin(c)

(* gate: the bundle spends exactly one coin that already exists, and it is *)
(* this wallet's.                                                          *)
MintGate(bundle) ==
  /\ SignsForItself(bundle)
  /\ \E c \in Roots(bundle) : Roots(bundle) = {c} /\ OwnCoin(c)

(* gate_store_launch: exactly two, the DID coin the mint recorded and a    *)
(* coin of this wallet.                                                    *)
LaunchGate(bundle) ==
  /\ SignsForItself(bundle)
  /\ \E c \in Roots(bundle) : Roots(bundle) = {Did, c} /\ c # Did /\ OwnCoin(c)

(* gate_edit: one spend, of the store's tip.                               *)
EditGate(bundle) ==
  SignsForItself(bundle) /\ Spent(bundle) = {Store} /\ Cardinality(bundle) = 1

(* Mutant: the two singletons, and whatever else.                          *)
MeltGateOfMore(bundle) ==
  SignsForItself(bundle) /\ {Did, Store} \subseteq Spent(bundle)

(* gate_profile_melt: two spends, of the two singletons.                   *)
MeltGate(bundle) ==
  SignsForItself(bundle) /\ Spent(bundle) = {Did, Store} /\ Cardinality(bundle) = 2
=============================================================================
