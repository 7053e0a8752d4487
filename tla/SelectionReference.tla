-------------------------- MODULE SelectionReference --------------------------
(***************************************************************************)
(* CoinSelection against a reference definition of what it promises, over  *)
(* every listing of a few coins, every set of reserved coins and every     *)
(* requirement in a range.  These are facts about operators, not about a   *)
(* behaviour.                                                              *)
(***************************************************************************)
EXTENDS Reservation

CONSTANTS
  SampleCoins,    \* the coins of the listings
  SampleAmounts,  \* what a usable coin may be worth
  SampleMax       \* the largest requirement

ASSUME SamplesAssumption ==
  IsFiniteSet(SampleCoins) /\ SampleAmounts \in SUBSET Nat /\ SampleMax \in Nat

(* A coin the wallet can use, or one of the three kinds it must not.       *)
Records ==
  {[amount |-> a, own |-> TRUE, confirmed |-> TRUE, spent |-> FALSE] :
     a \in SampleAmounts}
    \cup {[amount |-> 4, own |-> FALSE, confirmed |-> TRUE, spent |-> FALSE],
          [amount |-> 4, own |-> TRUE, confirmed |-> FALSE, spent |-> FALSE],
          [amount |-> 4, own |-> TRUE, confirmed |-> TRUE, spent |-> TRUE]}

(* A transfer or a mint of nothing is refused before a coin is selected.   *)
Questions ==
  [rule : {"transfer", "cat", "funding"}, required : 1 .. SampleMax]
    \cup [rule : {"fee"}, required : 0 .. SampleMax]

Answers(listing, reserved, q) ==
  CASE q.rule = "transfer" -> TransferSelect(listing, reserved, q.required)
    [] q.rule = "cat"      -> CatSelect(listing, reserved, q.required)
    [] q.rule = "fee"      -> FeeSelect(listing, reserved, q.required)
    [] q.rule = "funding"  -> FundingSelect(listing, reserved, q.required)

(* Holds(listing, reserved, question, answer) of whatever is asked.        *)
OfEveryAnswer(Holds(_, _, _, _)) ==
  \A listing \in [SampleCoins -> Records], reserved \in SUBSET SampleCoins :
    \A q \in Questions : \A a \in Answers(listing, reserved, q) :
      Holds(listing, reserved, q, a)

(***************************************************************************)
(* The reference                                                           *)
(***************************************************************************)
Many(q) == q.rule \in {"transfer", "cat"}

(* What the wallet really has: its own coins, in a block, not spent.       *)
Usable(listing) ==
  {c \in SampleCoins : /\ listing[c].own /\ listing[c].confirmed
                       /\ ~listing[c].spent}

(* The sets of coins of S that would answer the question.                  *)
Solutions(listing, S, q) ==
  {P \in SUBSET S : /\ Total(listing, P) >= q.required
                    /\ Cardinality(P) <= IF Many(q) THEN MaxInputs ELSE 1}

(* A selection is made of coins the wallet can spend and nobody holds, it  *)
(* covers what was asked for, and no smaller number of free coins would    *)
(* (the doc of select_input_coins: the fewest inputs); and there is a      *)
(* refusal only when no permitted set of free coins exists: the greedy     *)
(* largest-first rule misses no solution under the input cap.              *)
SelectionsAreOptimal ==
  OfEveryAnswer(LAMBDA listing, reserved, q, a :
    LET solutions == Solutions(listing, Usable(listing) \ reserved, q)
    IN  CASE a.verdict = "Chosen" ->
               /\ a.coins \in solutions
               /\ \A P \in solutions : Cardinality(a.coins) <= Cardinality(P)
          [] a.verdict = "BalanceUnjudgeable" -> TRUE
          [] OTHER -> solutions = {})

(* "You cannot afford this" is never said of coins that are merely busy,   *)
(* and "busy" is never said to a wallet that cannot afford it: reservation *)
(* narrows the selection and not the balance (reservation.rs, property 3). *)
ShortfallsAreHonest ==
  OfEveryAnswer(LAMBDA listing, reserved, q, a :
    LET affordable == \E P \in SUBSET Usable(listing) :
                         /\ Total(listing, P) >= q.required
                         /\ Many(q) \/ Cardinality(P) <= 1
    IN  /\ a.verdict \in {"InsufficientFunds", "SpendabilityUnknown"} => ~affordable
        /\ a.verdict = "CoinsReserved" => affordable)

(* The two rules of selection are about every sample listing, whatever the *)
(* store holds.  Properties of transfer.rs select_input_coins and          *)
(* cat_transfer.rs select_fee_coins: no permitted set of free coins is     *)
(* missed, no chosen one is larger than it need be, and a wallet is told   *)
(* "insufficient" or "reserved" and never the wrong one.                   *)
SelectionIsOptimal == clock <= MaxClock => SelectionsAreOptimal /\ ShortfallsAreHonest
=============================================================================
