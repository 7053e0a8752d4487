---------------------------- MODULE RecordReference ----------------------------
(***************************************************************************)
(* What resuming a record must come to, over every fate of the account's   *)
(* own launch, every record made of the coins in sight, and every source   *)
(* that errs in one answer.                                                *)
(***************************************************************************)
EXTENDS Settlement, DistributorRecord

(* Two XCH coins of ours and a DIG coin; a stranger's coins of both kinds. *)
Ours      == <<"first", Wallet>>
OursToo   == <<"second", Wallet>>
OurReward == <<"third", OurDig>>
Theirs    == <<"fourth", "stranger">>
TheirDig  == <<"fifth", "stranger's dig">>

Lineage(f) ==
  {f, ManagerLauncher(f), OfferedXch(f), SecurityCoin(f), DistributorLauncher(f)}

(* Coins that a source may answer with when it is asked about another.     *)
Decoys == {<<"sixth", Wallet>>, <<"seventh", OurDig>>, DistributorLauncher(Theirs)}

(* What can be asked for: all these and the parent of any of them.         *)
InSight ==
  (UNION {Lineage(f) : f \in {Ours, OursToo, Theirs}}) \cup {OurReward, TheirDig} \cup Decoys

AskedFor == {Zero} \cup InSight \cup {Parent(c) : c \in InSight}

(* The launch from Ours waits, is in a mempool, is in a block, or has lost *)
(* its coin to another spend; the stranger's was included long ago.        *)
Born == 1
Peak == MinConfirmationDepth + 2
Included == 2

Fates ==
  [launch : {"waits", "seen"}, spent : {NoHeight}]
    \cup [launch : {"included"}, spent : {Included}]
    \cup [launch : {"dead"}, spent : Born .. Peak]

TrueAnswer(fate, c) ==
  IF c = Ours THEN Found(c, Born, fate.spent)
  ELSE IF c \in {OursToo, OurReward, TheirDig} THEN Found(c, Born, NoHeight)
  ELSE IF c \in Lineage(Theirs) THEN Found(c, Included, NoHeight)
  ELSE IF c \in Lineage(Ours) /\ fate.launch = "included" THEN Found(c, Included, NoHeight)
  ELSE IF c = DistributorLauncher(Ours) /\ fate.launch = "seen" THEN Found(c, NoHeight, NoHeight)
  ELSE Absent

Honest(fate) == [coins |-> [c \in AskedFor |-> TrueAnswer(fate, c)], peak |-> Peak]

(* What resume asks about when it is given the record of our launch.       *)
Asked == {Ours, OurReward, DistributorLauncher(Ours), SecurityCoin(Ours)}

(* No answer, or an answer about some other coin.                          *)
Mute(fate) ==
  {[Honest(fate) EXCEPT !.coins[c] = a] : c \in Asked,
     a \in {Failure} \cup {Found(d, Included, NoHeight) : d \in Decoys}}
    \cup {[Honest(fate) EXCEPT !.peak = NoHeight]}

(* A record lost; a height left out, filled with zeros, or made up.        *)
Lossy(fate) == {[Honest(fate) EXCEPT !.coins[c] = Absent] : c \in Asked}

Heights(fate) ==
  {[Honest(fate) EXCEPT !.coins[c] = Found(c, h[1], h[2])] :
     c \in {Ours, DistributorLauncher(Ours)}, h \in {NoHeight, 0, 1, Peak} \X {NoHeight, 0, 1, Peak}}

(***************************************************************************)
(* The reference                                                           *)
(***************************************************************************)
OwnRecord ==
  [distributor |-> DistributorLauncher(Ours), manager |-> ManagerLauncher(Ours),
   funding |-> Ours, reward |-> OurReward, parses |-> TRUE, pushed |-> 1]

(* Any of its fields may be another's, or none's.                          *)
Records ==
  [distributor : {Zero} \cup {DistributorLauncher(f) : f \in {Ours, OursToo, Theirs}}
                   \cup {Ours, ManagerLauncher(Ours)},
   manager     : {Zero} \cup {ManagerLauncher(f) : f \in {Ours, OursToo, Theirs}},
   funding     : {Zero, Ours, OursToo, Theirs, OurReward},
   reward      : {Zero, OurReward, TheirDig, Ours},
   parses      : BOOLEAN,
   pushed      : 0 .. 1]

(* Whatever a source answers, no record is resumed but of a distributor    *)
(* that a coin of this account's own produced.                             *)
OnlyOursResumes ==
  \A fate \in Fates : \A source \in {Honest(fate)} \cup Mute(fate) \cup Lossy(fate) \cup Heights(fate) :
    \A record \in Records :
      Resume(source, record) = Resumed =>
        /\ PuzzleHash(record.funding) = Wallet /\ PuzzleHash(record.reward) = OurDig
        /\ record.manager = ManagerLauncher(record.funding)
        /\ record.distributor = DistributorLauncher(record.funding)

(* The account's own record comes back from an honest source once its      *)
(* launch is in a block; it is dead only when another spend of its coin is *)
(* buried, and a question until then.                                      *)
TrueOutcome(fate) ==
  CASE fate.launch = "included" -> Resumed
    [] fate.launch = "dead" /\ BurialDepth(fate.spent, Peak) >= MinConfirmationDepth -> LaunchDead
    [] OTHER -> Unproven

OwnRecordIsHeard == \A fate \in Fates : Resume(Honest(fate), OwnRecord) = TrueOutcome(fate)

(* A failed read, or an answer to another question, is never a verdict on  *)
(* the record; nor is a spend at a height that no chain gave it.           *)
SilenceIsNoVerdict ==
  \A fate \in Fates :
    /\ \A source \in Mute(fate) :
         Resume(source, OwnRecord) \in {TrueOutcome(fate), ChainUnreachable}
    /\ \A source \in Heights(fate) :
         LET funding == source.coins[Ours]
         IN  Resume(source, OwnRecord) = LaunchDead => 1 <= funding.confirmed
                                                         /\ funding.confirmed <= funding.spent

(* Nothing is called dead that the source has on the chain.                *)
TheDeadAreAbsent ==
  \A fate \in Fates : \A record \in Records :
    Resume(Honest(fate), record) = LaunchDead =>
      TrueAnswer(fate, record.distributor) = Absent

(* RewardDistributorMinter::resume, after a restart: a record comes back   *)
(* as a pending mint only if a coin of this account's own produced the     *)
(* distributor it names; the account's own record comes back once its      *)
(* launch is in a block; and a launch is called dead on a spend that is    *)
(* buried, never on a failed read or on a height no chain gave.            *)
RecordsAreProven ==
  peak >= 0 => OnlyOursResumes /\ OwnRecordIsHeard /\ SilenceIsNoVerdict /\ TheDeadAreAbsent
=============================================================================
