----------------------------- MODULE Settlement -----------------------------
(***************************************************************************)
(* What the wallet concludes about a bundle it pushed: transfer_status,    *)
(* ProfileMinter::mint_status, PendingRewardDistributor::status and        *)
(* RewardDistributorMinter::resume, each read of the chain a step of its   *)
(* own, and the host that acts on the answer: a dead transfer is sent      *)
(* again from other coins, a slow one is replaced over the same coins.     *)
(***************************************************************************)
EXTENDS Chain

CONSTANTS
  Transfers, DidMints, Distributors,  \* the bundles somebody watches, by kind
  Watched,    \* Watched[b]: the coin whose existence is the success of b
  Funding,    \* Funding[b]: the XCH coin that funds the distributor b
  Replaces,   \* Replaces[b]: the transfer that b is a dearer copy of, or NoBundle
  Resends,    \* Resends[b]: the transfer whose death b answers, or NoBundle
  NoBundle,
  Families,   \* sets of bundles that share no coin, run one at a time
  MinDepth    \* MIN_CONFIRMATION_DEPTH

Pushed == Transfers \cup DidMints \cup Distributors

ASSUME SettlementAssumption ==
  /\ Pushed \subseteq Bundles
  /\ Watched \in [Pushed -> Coins]
  /\ \A b \in Distributors : Funding[b] \in Spends[b]
  /\ Replaces \in [Pushed -> Pushed \cup {NoBundle}]
  /\ Resends \in [Pushed -> Pushed \cup {NoBundle}]
  /\ NoBundle \notin Bundles
  /\ Families \subseteq SUBSET Bundles
  /\ MinDepth \in Nat

ASSUME KindsAreDistinct == Transfers \cap (DidMints \cup Distributors) = {}

(* The id of a payment coin commits to the lead input: whoever makes it    *)
(* spends the same coins.                                                  *)
ASSUME PaymentNamesItsInputs ==
  \A b \in Pushed :
    /\ b \in Makers(Watched[b])
    /\ Spends[b] # {}
    /\ \A x \in Makers(Watched[b]) : Spends[x] = Spends[b]

(* A confirmation lies deeper than the deepest fork seen from the node     *)
(* furthest behind.                                                        *)
ASSUME DepthOutlastsForks == Reach + Lag + 1 < MinDepth

(* The transfers in play settle one debt: two of them spend a common coin, *)
(* or one is the second payment for the other.                             *)
Answering(b, a) == Resends[b] \in Transfers /\ Watched[Resends[b]] = Watched[a]

ASSUME OneDebt ==
  \A F \in Families : \A a, b \in Transfers \cap F :
    \/ a = b
    \/ Spends[a] \cap Spends[b] # {}
    \/ Answering(a, b) \/ Answering(b, a)

VARIABLES
  family,    \* the bundles in play
  reread,    \* reread[b]: inputs of the replacement b found spendable again
  pending,   \* pending[b]: pushed_at_height, 0 while there is no record of b
  sent,      \* the bundles ever pushed
  watch,     \* watch[b]: how far a status call about b has read
  confirmed, failed   \* the verdicts the host was ever given

vars == <<chainVars, family, reread, pending, sent, watch, confirmed, failed>>
host == <<family, reread, pending, sent, confirmed, failed>>

(* peak and left are locals of a status call, spent of a resume.           *)
Stages == {"idle", "output", "inputs", "again", "launcher", "burial"}
Watch == [stage : Stages, peak : Nat, left : SUBSET Coins, spent : Nat]
Resting == [stage |-> "idle", peak |-> 0, left |-> {}, spent |-> 0]

(***************************************************************************)
(* Building and pushing                                                    *)
(***************************************************************************)
(* build_transfer_replacing reads every input of the pending transfer      *)
(* again, one by one; one that is not spendable ends the call.             *)
RereadInput(b) ==
  /\ b \in family \cap Pushed
  /\ pending[b] = 0
  /\ Replaces[b] # NoBundle /\ pending[Replaces[b]] # 0
  /\ \E c \in Spends[b] : \E r \in Answers(c) :
       reread' = [reread EXCEPT ![b] =
                    IF r.exists /\ r.confirmed # 0 /\ r.spent = 0 THEN @ \cup {c} ELSE {}]
  /\ UNCHANGED <<chainVars, family, pending, sent, watch, confirmed, failed>>

(* Mutant: the naive retry, built again while the first may still land.    *)
MayBuildAgain(b) == Replaces[b] # NoBundle => reread[b] = Spends[b]

(* A bundle is built: a replacement over inputs just read again, a second  *)
(* payment only for a transfer known dead.                                 *)
MayBuild(b) ==
  /\ Replaces[b] # NoBundle => reread[b] = Spends[b]
  /\ Resends[b] # NoBundle => Resends[b] \in failed

(* pushed_now anchors the record to a peak read BEFORE the push.           *)
PushedNow(b) ==
  /\ b \in family \cap Pushed
  /\ pending[b] = 0
  /\ MayBuild(b)
  /\ \E v \in Views : pending' = [pending EXCEPT ![b] = v.peak]
  /\ UNCHANGED <<chainVars, family, reread, sent, watch, confirmed, failed>>

(* The push itself, and any later broadcast of the same bundle.            *)
Push(b) ==
  /\ b \in family
  /\ b \in Pushed => pending[b] # 0
  /\ Accept(b)
  /\ sent' = sent \cup {b}
  /\ UNCHANGED <<family, reread, pending, confirmed, failed, watch>>

(***************************************************************************)
(* Asking where it stands                                                  *)
(***************************************************************************)
(* Mutant: a record of any depth settles.                                  *)
SettlesAtOnce(b, r, pk) == r.confirmed # 0 /\ r.confirmed >= pending[b]

(* ConfirmedTransfer::from_confirmed, and MintedDid::from_confirmed and    *)
(* the evidence check of a distributor, which count the same way: the      *)
(* record has a height, not genesis, not before the push, and is buried.   *)
Settles(b, r, pk) ==
  /\ r.confirmed # 0
  /\ r.confirmed >= pending[b]
  /\ Burial(r.confirmed, pk) >= MinDepth

(* A record the distributor's evidence check refuses for good.             *)
Contradicts(b, r) == r.confirmed # 0 /\ r.confirmed < pending[b]

Rest(b) == watch' = [watch EXCEPT ![b] = Resting]

(* Mutant: the height a coin must be below, computed with no saturation.   *)
ReadPeakBelow(b) ==
  /\ b \in Pushed
  /\ pending[b] # 0 /\ watch[b].stage = "idle"
  /\ \E v \in Views :
       watch' = [watch EXCEPT ![b] = [Resting EXCEPT !.stage = "output",
                                                     !.peak = v.peak - MinDepth]]
  /\ UNCHANGED <<chainVars, host>>

(* A mint's record is made of the answer to its push, a transfer's before. *)
HasRecord(b) == pending[b] # 0 /\ (b \in Transfers \/ b \in sent)

ReadPeak(b) ==
  /\ b \in Pushed
  /\ HasRecord(b)
  /\ watch[b].stage = "idle"
  /\ \E v \in Views :
       watch' = [watch EXCEPT ![b] = [Resting EXCEPT !.stage = "output", !.peak = v.peak]]
  /\ UNCHANGED <<chainVars, host>>

(* The payment coin, the DID coin, the launcher.  Only an absent one makes *)
(* the inputs evidence.                                                    *)
ReadOutput(b) ==
  /\ b \in Pushed
  /\ watch[b].stage = "output"
  /\ \E r \in Answers(Watched[b]) :
       \/ /\ r.exists
          /\ confirmed' = IF Settles(b, r, watch[b].peak) THEN confirmed \cup {b} ELSE confirmed
          /\ failed' = IF b \in Distributors /\ Contradicts(b, r)
                       THEN failed \cup {b} ELSE failed
          /\ Rest(b)
       \/ /\ ~r.exists
          /\ watch' = [watch EXCEPT ![b].stage = "inputs", ![b].left = Spends[b]]
          /\ UNCHANGED <<confirmed, failed>>
  /\ UNCHANGED <<chainVars, family, reread, pending, sent>>

(* Mutant: a spend that is reported is believed, however shallow.          *)
BuriedShallow(b, r) == r.spent # 0

(* The input's spend is as deep as a confirmation would have to be.        *)
Buried(b, r) == r.spent # 0 /\ Burial(r.spent, watch[b].peak) >= MinDepth

(* proof_of_death takes the inputs one by one and skips one whose spend is *)
(* not buried; the first that is sends it back to the payment coin.        *)
ReadInput(b) ==
  /\ b \in Transfers
  /\ watch[b].stage = "inputs"
  /\ \E c \in watch[b].left : \E r \in Answers(c) :
       watch' = [watch EXCEPT ![b] =
                   IF Buried(b, r) THEN [watch[b] EXCEPT !.stage = "again", !.left = {}]
                   ELSE IF watch[b].left = {c} THEN Resting
                   ELSE [watch[b] EXCEPT !.left = @ \ {c}]]
  /\ UNCHANGED <<chainVars, host>>

(* Dead only if the payment coin is still absent.                          *)
ReadOutputAgain(b) ==
  /\ b \in Transfers
  /\ watch[b].stage = "again"
  /\ \E r \in Answers(Watched[b]) :
       failed' = IF r.exists THEN failed ELSE failed \cup {b}
  /\ Rest(b)
  /\ UNCHANGED <<chainVars, family, reread, pending, sent, confirmed>>

(* mint_status: one input, spent at any depth, is a different spend.       *)
ReadFunding(b) ==
  /\ b \in DidMints
  /\ watch[b].stage = "inputs"
  /\ \E c \in watch[b].left : \E r \in Answers(c) :
       failed' = IF r.spent # 0 THEN failed \cup {b} ELSE failed
  /\ Rest(b)
  /\ UNCHANGED <<chainVars, family, reread, pending, sent, confirmed>>

(* PendingRewardDistributor::status: either input, spent at any depth.     *)
ReadDistributorInput(b) ==
  /\ b \in Distributors
  /\ watch[b].stage = "inputs"
  /\ \E c \in watch[b].left : \E r \in Answers(c) :
       /\ failed' = IF r.spent # 0 THEN failed \cup {b} ELSE failed
       /\ watch' = [watch EXCEPT ![b] =
                      IF r.spent # 0 \/ watch[b].left = {c} THEN Resting
                      ELSE [watch[b] EXCEPT !.left = @ \ {c}]]
  /\ UNCHANGED <<chainVars, family, reread, pending, sent, confirmed>>

(***************************************************************************)
(* Resuming the record of a distributor after a restart                    *)
(***************************************************************************)
(* The funding coin is read first; its record says whether it was spent.   *)
ResumeFunding(b) ==
  /\ b \in Distributors
  /\ HasRecord(b)
  /\ watch[b].stage = "idle"
  /\ \E r \in Answers(Funding[b]) :
       watch' = [watch EXCEPT ![b] = [Resting EXCEPT !.stage = "launcher", !.spent = r.spent]]
  /\ UNCHANGED <<chainVars, host>>

(* A launcher in a block resumes the record, one in a mempool proves       *)
(* nothing yet; an absent one sends the call on if the funding is spent.   *)
ResumeLauncher(b) ==
  /\ b \in Distributors
  /\ watch[b].stage = "launcher"
  /\ \E r \in Answers(Watched[b]) :
       watch' = [watch EXCEPT ![b] = IF r.exists \/ watch[b].spent = 0 THEN Resting
                                     ELSE [@ EXCEPT !.stage = "burial"]]
  /\ UNCHANGED <<chainVars, host>>

(* LaunchDead once that spend is buried under a peak read last.            *)
ResumeBurial(b) ==
  /\ b \in Distributors
  /\ watch[b].stage = "burial"
  /\ \E v \in Views :
       failed' = IF Burial(watch[b].spent, v.peak) >= MinDepth THEN failed \cup {b} ELSE failed
  /\ Rest(b)
  /\ UNCHANGED <<chainVars, family, reread, pending, sent, confirmed>>

(* Any read may fail: the state is unknown, and no verdict is given.       *)
Unreachable(b) ==
  /\ b \in Pushed
  /\ watch[b].stage # "idle"
  /\ Rest(b)
  /\ UNCHANGED <<chainVars, host>>

Init ==
  /\ ChainInit
  /\ family \in Families
  /\ reread = [b \in Pushed |-> {}]
  /\ pending = [b \in Pushed |-> 0]
  /\ sent = {}
  /\ watch = [b \in Pushed |-> Resting]
  /\ confirmed = {}
  /\ failed = {}

Environment == ChainStep /\ UNCHANGED <<host, watch>>

StatusStep(b) ==
  \/ ReadPeak(b) \/ ReadOutput(b) \/ ReadInput(b) \/ ReadOutputAgain(b)
  \/ ReadFunding(b) \/ ReadDistributorInput(b)
  \/ ResumeFunding(b) \/ ResumeLauncher(b) \/ ResumeBurial(b)

Next ==
  \/ Environment
  \/ \E b \in Bundles :
       \/ RereadInput(b) \/ PushedNow(b) \/ Push(b)
       \/ StatusStep(b) \/ Unreachable(b)

Spec == Init /\ [][Next]_vars

(***************************************************************************)
(* Properties                                                              *)
(***************************************************************************)
(* Every variable of the wallet and the chain keeps its type.              *)
TypeOK ==
  /\ ChainTypeOK
  /\ family \subseteq Bundles
  /\ reread \in [Pushed -> SUBSET Coins]
  /\ pending \in [Pushed -> Nat]
  /\ sent \subseteq Bundles
  /\ watch \in [Pushed -> Watch]
  /\ confirmed \subseteq Pushed
  /\ failed \subseteq Pushed

(* A verdict that a bundle can NEVER confirm stays true: neither it nor a  *)
(* replacement that makes the same coin is ever on the chain afterwards    *)
(* (TransferStatus::Failed, MintStatus::Failed,                            *)
(* RewardDistributorStatus::Failed).                                       *)
FailedIsDead ==
  \A b \in failed : \A x \in Makers(Watched[b]) : landed[x] = 0

(* The same of transfers alone, where Failed tells the caller to send the  *)
(* money again.                                                            *)
FailedTransferIsDead ==
  \A b \in failed \cap Transfers : \A x \in Makers(Watched[b]) : landed[x] = 0

(* What was reported settled is on the chain, through every later fork     *)
(* (ConfirmedTransfer, MintedDid, ConfirmedRewardDistributor).             *)
ConfirmedIsFinal ==
  \A b \in confirmed : \E x \in Makers(Watched[b]) : landed[x] # 0

(* A host that sends again only on Failed, and speeds up only through      *)
(* build_transfer_replacing, pays its recipient once.                      *)
PaidOnce ==
  \A a, b \in Transfers \cap family : landed[a] # 0 /\ landed[b] # 0 => a = b
=============================================================================
