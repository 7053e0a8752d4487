---------------------------- MODULE CoinSelection ----------------------------
(***************************************************************************)
(* The three rules by which dig-account chooses the coins a spend uses:    *)
(*                                                                         *)
(*   TransferSelect   select_input_coins   XCH transfers                   *)
(*   CatSelect        select_cat_coins     the CAT side of a CAT transfer  *)
(*   FeeSelect        select_fee_coins     the XCH side of a CAT transfer  *)
(*   FundingSelect    select_funding_coin  DID mints and store launches    *)
(*                                                                         *)
(* Each reads one listing of the chain and is given the coins it must not  *)
(* choose, the ones other in-flight spends hold.  A listing is a function  *)
(* from coins to records; a record says what a coin is worth, whether it   *)
(* is locked by the wallet's own puzzle (a hint-indexing source also lists *)
(* coins that merely mention the wallet), whether it is confirmed and      *)
(* whether it is spent.                                                    *)
(*                                                                         *)
(* A rule sorts by (amount, coin id).  The order among equal amounts is of *)
(* no interest here, so a rule is the SET of answers it can give: a tie is *)
(* a choice.                                                               *)
(***************************************************************************)
EXTENDS Naturals, FiniteSets, FiniteSetsExt

CONSTANTS
  MaxInputs,   \* MAX_TRANSFER_INPUT_COINS, and MAX_CAT_TRANSFER_INPUT_COINS
  MaxAmount    \* u64::MAX: the largest total the code can represent

ASSUME SelectionAssumption == MaxInputs \in Nat \ {0} /\ MaxAmount \in Nat

(* What a coin record of the chain source can say.                         *)
CoinRecord(Amounts) ==
  [amount : Amounts, own : BOOLEAN, confirmed : BOOLEAN, spent : BOOLEAN]

Chosen(S)    == [verdict |-> "Chosen", coins |-> S]
Refused(why) == [verdict |-> why, coins |-> {}]

Total(listing, S) == MapThenSumSet(LAMBDA c : listing[c].amount, S)

(* Mutant: a coin that only mentions the wallet counts as the wallet's.    *)
SpendableOfAnyone(listing) ==
  {c \in DOMAIN listing : listing[c].confirmed /\ ~listing[c].spent}

(* Coins a rule may count: own, confirmed, unspent.                        *)
Spendable(listing) ==
  {c \in DOMAIN listing :
     listing[c].own /\ listing[c].confirmed /\ ~listing[c].spent}

(* Own and unspent, but the source cannot say it is confirmed.             *)
Unjudgeable(listing) ==
  {c \in DOMAIN listing :
     listing[c].own /\ ~listing[c].confirmed /\ ~listing[c].spent}

Covering(listing, S, required) == {c \in S : listing[c].amount >= required}

(* The smallest coins of S that cover the requirement on their own.        *)
SmallestCovering(listing, S, required) ==
  {c \in Covering(listing, S, required) :
     \A d \in Covering(listing, S, required) :
        listing[c].amount <= listing[d].amount}

(* Mutant: smallest first.                                                 *)
SmallestFirst(listing, S, required) ==
  {P \in SUBSET S :
     /\ Total(listing, P) >= required
     /\ \A c \in P, d \in S \ P : listing[c].amount <= listing[d].amount
     /\ \E last \in P :
          /\ \A c \in P : listing[last].amount >= listing[c].amount
          /\ Total(listing, P \ {last}) < required}

(* The prefixes of S, largest coin first, that stop as soon as they cover  *)
(* the requirement.                                                        *)
LargestFirst(listing, S, required) ==
  {P \in SUBSET S :
     /\ Total(listing, P) >= required
     /\ \A c \in P, d \in S \ P : listing[c].amount >= listing[d].amount
     /\ \E last \in P :
          /\ \A c \in P : listing[last].amount <= listing[c].amount
          /\ Total(listing, P \ {last}) < required}

(* One coin if one is enough, else largest first, up to the input cap.     *)
FewestInputs(listing, free, required) ==
  IF Covering(listing, free, required) # {}
  THEN {Chosen({c}) : c \in SmallestCovering(listing, free, required)}
  ELSE {IF Cardinality(P) > MaxInputs THEN Refused("TooManyInputCoins")
                                      ELSE Chosen(P) :
          P \in LargestFirst(listing, free, required)}

(* Mutant: the balance is judged after the reserved coins are set aside.   *)
SelectManyOfFree(listing, reserved, required, shortfall) ==
  LET free == Spendable(listing) \ reserved
  IN  IF Total(listing, free) > MaxAmount THEN {Refused("BalanceUnjudgeable")}
      ELSE IF Total(listing, free) < required THEN {Refused(shortfall)}
      ELSE FewestInputs(listing, free, required)

(* The part TransferSelect and CatSelect share.  What the wallet HAS is    *)
(* judged before the reserved coins are set aside, so a shortfall is never *)
(* reported of coins that are only busy.                                   *)
SelectMany(listing, reserved, required, shortfall) ==
  LET owned == Spendable(listing)
      free  == owned \ reserved
  IN  IF Total(listing, owned) > MaxAmount
      THEN {Refused("BalanceUnjudgeable")}
      ELSE IF Total(listing, owned) < required THEN {Refused(shortfall)}
      ELSE IF Total(listing, free) < required THEN {Refused("CoinsReserved")}
      ELSE FewestInputs(listing, free, required)

TransferSelect(listing, reserved, required) ==
  SelectMany(listing, reserved, required,
             IF Unjudgeable(listing) # {} THEN "SpendabilityUnknown"
                                          ELSE "InsufficientFunds")

CatSelect(listing, reserved, required) ==
  SelectMany(listing, reserved, required, "InsufficientFunds")

(* One coin that covers the requirement, or the reason there is none.      *)
SelectOne(listing, reserved, required) ==
  LET owned == Spendable(listing)
      free  == owned \ reserved
  IN  IF Covering(listing, free, required) # {}
      THEN {Chosen({c}) : c \in SmallestCovering(listing, free, required)}
      ELSE IF Covering(listing, owned, required) # {}
           THEN {Refused("CoinsReserved")}
           ELSE {Refused("InsufficientFunds")}

FeeSelect(listing, reserved, fee) ==
  IF fee = 0 THEN {Chosen({})}
  ELSE IF Total(listing, Spendable(listing)) > MaxAmount
       THEN {Refused("BalanceUnjudgeable")}
       ELSE SelectOne(listing, reserved, fee)

FundingSelect(listing, reserved, required) ==
  SelectOne(listing, reserved, required)
=============================================================================
