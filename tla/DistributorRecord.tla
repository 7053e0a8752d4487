--------------------------- MODULE DistributorRecord ---------------------------
(***************************************************************************)
(* RewardDistributorMinter::resume: a record that the host kept of a       *)
(* distributor mint is bytes, and becomes a pending mint again only when   *)
(* the chain proves that this account's own coin produced it.              *)
(*                                                                         *)
(* A coin's id commits to its parent and its puzzle hash, so here a coin   *)
(* IS the sequence of puzzle hashes from its first ancestor down to it.    *)
(***************************************************************************)
EXTENDS Integers, Sequences, SequencesExt

CONSTANT MinConfirmationDepth   \* MIN_CONFIRMATION_DEPTH

Parent(coin)     == Front(coin)
PuzzleHash(coin) == Last(coin)

Wallet == "wallet"   \* the puzzle hash of this profile's wallet key
OurDig == "dig"      \* dig_curried_puzzle_hash of it

(* What a launch makes of its funding coin.                                *)
ManagerLauncher(funding)     == Append(funding, "manager launcher")
OfferedXch(funding)          == Append(funding, "settlement")
SecurityCoin(funding)        == Append(OfferedXch(funding), "security")
DistributorLauncher(funding) == Append(SecurityCoin(funding), "launcher")

Zero == <<>>

(* A height that a record of a coin does not state.                        *)
NoHeight == -1

(* A source's answer about a coin, by its id: a record, of whichever coin, *)
(* or that there is none, or a failure.                                    *)
Found(coin, created, ended) ==
  [answer |-> "found", coin |-> coin, confirmed |-> created, spent |-> ended]
Absent  == [answer |-> "absent"]
Failure == [answer |-> "failure"]

(* MintError::ChainUnreachable, RecordRejection, or the pending mint.      *)
Outcome(verdict, about) == [verdict |-> verdict, about |-> about]

Malformed(field)  == Outcome("Malformed", field)
NotYours(proof)   == Outcome("NotYours", proof)
ChainUnreachable  == Outcome("ChainUnreachable", "")
Unproven          == Outcome("Unproven", "")
LaunchDead        == Outcome("LaunchDead", "")
Resumed           == Outcome("Resumed", "")

(* parse_consistent_record: the field of the record that is no good, if    *)
(* any; nothing is read from the chain.                                    *)
InconsistentField(record) ==
  IF record.distributor = Zero THEN "distributor_launcher_id"
  ELSE IF record.manager = Zero THEN "manager_launcher_id"
  ELSE IF record.funding = Zero THEN "funding_coin_id"
  ELSE IF record.reward = Zero THEN "reward_cat_coin_id"
  ELSE IF record.funding = record.reward THEN "reward_cat_coin_id"
  ELSE IF record.distributor = record.manager THEN "manager_launcher_id"
  ELSE IF record.pushed = 0 THEN "pushed_at_height"
  ELSE IF ~record.parses THEN "generation"
  ELSE "none"

(* Mutant: the answer is taken for one about the coin that was asked for.  *)
ReadAnyCoin(source, coin) == source.coins[coin]

(* read_coin: an answer about another coin proves nothing.                 *)
ReadCoin(source, coin) ==
  LET read == source.coins[coin]
  IN  IF read.answer = "found" /\ read.coin # coin THEN Failure ELSE read

(* prove_coin_is_ours.                                                     *)
IsAt(read, puzzleHash) == read.answer = "found" /\ PuzzleHash(read.coin) = puzzleHash

(* Mutant: whatever height a spend is reported at is counted from.         *)
AnySpendHeight(funding) == funding.spent # NoHeight

(* unusable_spend_height: a spend in no block, or before the block of the  *)
(* coin itself, is evidence of nothing.                                    *)
SpendHeightIsUsable(funding) == funding.confirmed > 0 /\ funding.spent >= funding.confirmed

BurialDepth(height, top) == (IF top > height THEN top - height ELSE 0) + 1

(* launcher_absent: dead only when another spend took the funding coin, as *)
(* deep as a confirmation must be.                                         *)
LauncherAbsent(source, funding) ==
  IF funding.spent = NoHeight THEN Unproven
  ELSE IF ~SpendHeightIsUsable(funding) THEN Unproven
  ELSE IF source.peak = NoHeight THEN ChainUnreachable
  ELSE IF BurialDepth(funding.spent, source.peak) < MinConfirmationDepth THEN Unproven
  ELSE LaunchDead

(* Mutant: that both coins are the account's is taken for proof.           *)
OwnersOnly(source, record, funding) == Resumed

(* prove_launchers_descend_from_the_funding_coin.                          *)
ProveLaunchers(source, record, funding) ==
  LET launcher == ReadCoin(source, record.distributor)
      security == ReadCoin(source, Parent(launcher.coin))
  IN  IF record.manager # ManagerLauncher(record.funding) THEN NotYours("manager")
      ELSE IF launcher.answer = "failure" THEN ChainUnreachable
      ELSE IF launcher.answer = "absent" THEN LauncherAbsent(source, funding)
      ELSE IF launcher.confirmed = NoHeight THEN Unproven
      ELSE IF security.answer = "failure" THEN ChainUnreachable
      ELSE IF security.answer = "absent" THEN NotYours("distributor")
      ELSE IF Parent(security.coin) # OfferedXch(record.funding) THEN NotYours("distributor")
      ELSE Resumed

Resume(source, record) ==
  LET funding == ReadCoin(source, record.funding)
      reward  == ReadCoin(source, record.reward)
  IN  IF InconsistentField(record) # "none" THEN Malformed(InconsistentField(record))
      ELSE IF funding.answer = "failure" THEN ChainUnreachable
      ELSE IF ~IsAt(funding, Wallet) THEN NotYours("funding coin")
      ELSE IF reward.answer = "failure" THEN ChainUnreachable
      ELSE IF ~IsAt(reward, OurDig) THEN NotYours("reward coin")
      ELSE ProveLaunchers(source, record, funding)
=============================================================================
