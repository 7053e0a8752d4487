------------------------------ MODULE ProfileMint ------------------------------
(***************************************************************************)
(* The profile mint at one index: a DID bundle, then a store bundle        *)
(* launched from the DID's coin, each journalled in the registry before it *)
(* is pushed.  begin_profile_mint and advance_profile_mint are sequences   *)
(* of chain reads, a reservation, a journal write and a push; the chain    *)
(* moves between any two of them.  The registry is borrowed by the call,   *)
(* so the host saves it only between calls.                                *)
(*                                                                         *)
(* A DID is named by the funding coin it is minted from, which determines  *)
(* its launcher id; a store by the DID whose coin it is launched from.     *)
(* Every coin covers any bundle and change is left out.  The chain source  *)
(* is honest.  Blocks that carry nothing of this wallet and bury nothing   *)
(* of it are not counted.                                                  *)
(***************************************************************************)
EXTENDS Naturals, FiniteSets

CONSTANTS
  Coins,         \* the funding coins of the index's wallet key
  Depth,         \* MIN_CONFIRMATION_DEPTH
  MaxPeak,       \* bound: the highest block
  MaxReorgs,     \* bound: how often the chain reorganises
  CrashUnsaved,  \* the process may end with a journal write not yet saved
  Abandons,      \* the host may abandon a mint
  Lossy,         \* a bundle whose push was not answered may have been lost
  Empty          \* no mint, no profile, no evidence

(* A mint in progress: its stage, its DID, the least height at which the   *)
(* DID's confirmation is believed, and the same for its store.             *)
Mint ==
  [stage : {"DidPushed", "DidConfirmedStoreNotLaunched", "StorePushed"},
   did : Coins, floor : 1 .. MaxPeak, storeFloor : 0 .. MaxPeak]

ASSUME MintAssumption ==
  /\ IsFiniteSet(Coins)
  /\ Depth \in Nat \ {0}
  /\ MaxPeak \in Nat \ {0}
  /\ MaxReorgs \in Nat
  /\ {CrashUnsaved, Abandons, Lossy} \subseteq BOOLEAN
  /\ Empty \notin Coins \cup Mint

Did(d) == [kind |-> "did", did |-> d, fund |-> d]

Store(d, c) == [kind |-> "store", did |-> d, fund |-> c]

Payment(c) == [kind |-> "payment", did |-> c, fund |-> c]

Bundles ==
  {Did(c) : c \in Coins} \cup {Payment(c) : c \in Coins}
    \cup {Store(d, c) : d, c \in Coins}

VARIABLES
  journal,   \* the mint in progress at the index
  entry,     \* the DID of the profile recorded at the index
  file,      \* the journal and the entry the host last saved
  call,      \* the minter call that is running
  evidence,  \* the DID of the confirmed profile the host holds evidence of
  held,      \* the reserved coins
  mempool,   \* bundles a block may carry
  landed,    \* the height of the block that carries a bundle, 0 if none
  peak,      \* the height of the chain
  top,       \* the highest the chain has been
  reorgs     \* how often it has reorganised

host == <<journal, entry, file, call, evidence>>

chain == <<mempool, landed, peak, top, reorgs>>

vars == <<host, held, chain>>

(***************************************************************************)
(* The chain                                                               *)
(***************************************************************************)
(* Two bundles spend a coin in common.                                     *)
Rivals(x, y) ==
  \/ x.fund = y.fund
  \/ x.kind = "store" /\ y.kind = "store" /\ x.did = y.did

Landed == {b \in Bundles : landed[b] > 0}

Stores(d) == {Store(d, c) : c \in Coins}

Unspent == {c \in Coins : \A b \in Landed : b.fund # c}

Valid(b) ==
  /\ \A x \in Landed : ~Rivals(b, x)
  /\ b.kind = "store" => Did(b.did) \in Landed

(* A node takes the bundle, or holds it already.                           *)
Admits(b) == Valid(b) /\ \A x \in mempool : x = b \/ ~Rivals(b, x)

Grow ==
  /\ peak < MaxPeak
  /\ peak' = peak + 1
  /\ top' = IF peak + 1 > top THEN peak + 1 ELSE top
  /\ UNCHANGED <<host, held, reorgs>>

Include(b) ==
  /\ b \in mempool
  /\ Valid(b)
  /\ Grow
  /\ landed' = [landed EXCEPT ![b] = peak + 1]
  /\ mempool' = {x \in mempool : ~Rivals(x, b)}

Bury ==
  /\ \E b \in Landed : peak + 1 < landed[b] + Depth
  /\ Grow
  /\ UNCHANGED <<mempool, landed>>

(* No block that was ever Depth deep is undone.                            *)
Reorg(p) ==
  /\ reorgs < MaxReorgs
  /\ reorgs' = reorgs + 1
  /\ p \in 1 .. peak - 1
  /\ p + Depth > top
  /\ peak' = p
  /\ landed' = [b \in Bundles |-> IF landed[b] > p THEN 0 ELSE landed[b]]
  /\ mempool' = mempool \cup {b \in Landed : landed[b] > p}
  /\ UNCHANGED <<host, held, top>>

(* The wallet pays someone with a coin nothing has reserved.               *)
Pay(c) ==
  /\ c \in Unspent \ held
  /\ Admits(Payment(c))
  /\ mempool' = mempool \cup {Payment(c)}
  /\ UNCHANGED <<host, held, landed, peak, top, reorgs>>

Lapse(c) ==
  /\ c \in held
  /\ held' = held \ {c}
  /\ UNCHANGED <<host, chain>>

(***************************************************************************)
(* What the chain proves                                                   *)
(***************************************************************************)
(* Mutant: one block short of the burial.                                  *)
EvidenceShallow(b, floor) ==
  landed[b] > 0 /\ landed[b] >= floor /\ peak + 2 >= landed[b] + Depth

(* from_confirmed: a block carries the coin, not before floor, and buried. *)
Evidence(b, floor) ==
  landed[b] > 0 /\ landed[b] >= floor /\ peak + 1 >= landed[b] + Depth

DidProven == Evidence(Did(journal.did), journal.floor)

StoreProven == \E b \in Stores(journal.did) : Evidence(b, journal.storeFloor)

(* profile_mint_status, for an index with a mint in progress.              *)
Status ==
  CASE ~DidProven /\ journal.stage = "DidPushed" -> "DidPending"
    [] ~DidProven /\ journal.stage # "DidPushed" -> "ChainUnreachable"
    [] DidProven /\ journal.stage # "StorePushed" -> "DidConfirmedStoreNotLaunched"
    [] DidProven /\ journal.stage = "StorePushed" ->
         IF StoreProven THEN "Confirmed" ELSE "StorePending"

(***************************************************************************)
(* The minter                                                              *)
(***************************************************************************)
Idle == [at |-> "idle", did |-> Empty, fund |-> Empty, floor |-> 0]

Calling(at, did, fund, floor) == [at |-> at, did |-> did, fund |-> fund, floor |-> floor]

(* The bundle the running call has signed.                                 *)
Signed == IF call.at = "pushingDid" THEN Did(call.did) ELSE Store(call.did, call.fund)

Pushing == call.at \in {"pushingDid", "pushingStore"}

(* begin_profile_mint: a funding coin is selected and reserved.            *)
Begin(c) ==
  /\ call.at = "idle"
  /\ c \in Unspent \ held
  /\ call' = Calling("didHeld", c, c, 0)
  /\ held' = held \cup {c}
  /\ UNCHANGED <<journal, entry, file, evidence, chain>>

(* Mutant: the peak before the push is not recorded.                       *)
JournalDidUnread ==
  /\ call.at = "didHeld"
  /\ journal = Empty
  /\ entry = Empty
  /\ journal' = [stage |-> "DidPushed", did |-> call.did, floor |-> 0, storeFloor |-> 0]
  /\ call' = [call EXCEPT !.at = "pushingDid"]
  /\ UNCHANGED <<entry, file, evidence, held, chain>>

(* The peak is read, the bundle signed, and the index reserved with        *)
(* begin_seeded_mint.                                                      *)
JournalDid ==
  /\ call.at = "didHeld"
  /\ journal = Empty
  /\ entry = Empty
  /\ journal' = [stage |-> "DidPushed", did |-> call.did, floor |-> peak, storeFloor |-> 0]
  /\ call' = [call EXCEPT !.at = "pushingDid"]
  /\ UNCHANGED <<entry, file, evidence, held, chain>>

(* advance_profile_mint or profile_mint_status reads both halves           *)
(* confirmed: the host holds the evidence.                                 *)
Confirm ==
  /\ call.at = "idle"
  /\ journal # Empty
  /\ Status = "Confirmed"
  /\ evidence' = journal.did
  /\ UNCHANGED <<journal, entry, file, call, held, chain>>

(* advance_profile_mint reads the DID confirmed and goes on to the store.  *)
Advance ==
  /\ call.at = "idle"
  /\ journal # Empty
  /\ Status = "DidConfirmedStoreNotLaunched"
  /\ call' = Calling("launching", journal.did, Empty, landed[Did(journal.did)])
  /\ UNCHANGED <<journal, entry, file, evidence, held, chain>>

(* launch_store: the DID's tip is the coin the mint recorded, and a        *)
(* funding coin is reserved.                                               *)
HoldFunding(c) ==
  /\ call.at = "launching"
  /\ Did(call.did) \in Landed
  /\ Stores(call.did) \cap Landed = {}
  /\ c \in Unspent \ held
  /\ call' = [call EXCEPT !.at = "storeHeld", !.fund = c]
  /\ held' = held \cup {c}
  /\ UNCHANGED <<journal, entry, file, evidence, chain>>

(* Mutant: the stage is recorded once the push has been answered.          *)
JournalStoreLate ==
  /\ call.at = "storeHeld"
  /\ call' = [call EXCEPT !.at = "pushingStore"]
  /\ UNCHANGED <<journal, entry, file, evidence, held, chain>>

(* The peak is read, the bundle signed, and the stage recorded with        *)
(* advance_mint.                                                           *)
JournalStore ==
  /\ call.at = "storeHeld"
  /\ journal' = [stage |-> "StorePushed", did |-> call.did,
                 floor |-> call.floor, storeFloor |-> peak]
  /\ call' = [call EXCEPT !.at = "pushingStore"]
  /\ UNCHANGED <<entry, file, evidence, held, chain>>

(* An unreadable chain, a locked account, a tip that is not the recorded   *)
(* coin, a refusal of the journal: nothing was pushed, the guard releases. *)
Abort ==
  /\ call.at \in {"didHeld", "launching", "storeHeld"}
  /\ call' = Idle
  /\ held' = held \ {call.fund}
  /\ UNCHANGED <<journal, entry, file, evidence, chain>>

(* Accepted or AlreadyInMempool: the hold is committed.                    *)
Accepted ==
  /\ Pushing
  /\ Admits(Signed)
  /\ mempool' = mempool \cup {Signed}
  /\ call' = Idle
  /\ UNCHANGED <<journal, entry, file, evidence, held, landed, peak, top, reorgs>>

(* Mutant: a push that was not answered releases the index.                *)
UnansweredForgets(arrived) ==
  /\ Pushing
  /\ IF arrived
     THEN Admits(Signed) /\ mempool' = mempool \cup {Signed}
     ELSE Lossy /\ UNCHANGED mempool
  /\ journal' = IF call.at = "pushingDid" THEN Empty ELSE journal
  /\ call' = Idle
  /\ UNCHANGED <<entry, file, evidence, held, landed, peak, top, reorgs>>

(* The chain did not answer: the bundle may have arrived, and the hold and *)
(* the journal stand.                                                      *)
Unanswered(arrived) ==
  /\ Pushing
  /\ IF arrived
     THEN Admits(Signed) /\ mempool' = mempool \cup {Signed}
     ELSE Lossy /\ UNCHANGED mempool
  /\ call' = Idle
  /\ UNCHANGED <<journal, entry, file, evidence, held, landed, peak, top, reorgs>>

(* Mutant: a rejected store is left journalled as pushed.                  *)
RejectedStays ==
  /\ Pushing
  /\ journal' = IF call.at = "pushingDid" THEN Empty ELSE journal
  /\ held' = held \ {call.fund}
  /\ call' = Idle
  /\ UNCHANGED <<entry, file, evidence, chain>>

(* Mutant: a rejected store releases the index.                            *)
RejectedReleases ==
  /\ Pushing
  /\ journal' = Empty
  /\ held' = held \ {call.fund}
  /\ call' = Idle
  /\ UNCHANGED <<entry, file, evidence, chain>>

(* A definitive no: the index is released, or the stage rewound, and so    *)
(* are the coins.                                                          *)
Rejected ==
  /\ Pushing
  /\ journal' =
       IF call.at = "pushingDid" THEN Empty
       ELSE [stage |-> "DidConfirmedStoreNotLaunched", did |-> call.did,
             floor |-> call.floor, storeFloor |-> 0]
  /\ held' = held \ {call.fund}
  /\ call' = Idle
  /\ UNCHANGED <<entry, file, evidence, chain>>

(***************************************************************************)
(* The host                                                                *)
(***************************************************************************)
(* Mutant: the handoff leaves the mint in progress.                        *)
RecordMintedKeeps ==
  /\ call.at = "idle"
  /\ evidence # Empty
  /\ entry = Empty
  /\ entry' = evidence
  /\ UNCHANGED <<journal, file, call, evidence, held, chain>>

(* record_minted, with the evidence of both halves.                        *)
RecordMinted ==
  /\ call.at = "idle"
  /\ evidence # Empty
  /\ entry = Empty
  /\ entry' = evidence
  /\ journal' = Empty
  /\ UNCHANGED <<file, call, evidence, held, chain>>

AbandonMint ==
  /\ Abandons
  /\ call.at = "idle"
  /\ journal # Empty
  /\ journal' = Empty
  /\ UNCHANGED <<entry, file, call, evidence, held, chain>>

Save ==
  /\ call.at = "idle"
  /\ file' = [journal |-> journal, entry |-> entry]
  /\ UNCHANGED <<journal, entry, call, evidence, held, chain>>

(* The process ends, at any point of a call, and starts again: the         *)
(* registry is the last save, and reservations and evidence are gone.      *)
Restart ==
  /\ CrashUnsaved \/ (journal = file.journal /\ entry = file.entry)
  /\ journal' = file.journal
  /\ entry' = file.entry
  /\ call' = Idle
  /\ evidence' = Empty
  /\ held' = {}
  /\ UNCHANGED <<file, chain>>

Init ==
  /\ journal = Empty
  /\ entry = Empty
  /\ file = [journal |-> Empty, entry |-> Empty]
  /\ call = Idle
  /\ evidence = Empty
  /\ held = {}
  /\ mempool = {}
  /\ landed = [b \in Bundles |-> 0]
  /\ peak = 1
  /\ top = 1
  /\ reorgs = 0

Minter ==
  \/ \E c \in Coins : Begin(c) \/ HoldFunding(c)
  \/ JournalDid \/ Confirm \/ Advance \/ JournalStore \/ Abort
  \/ Accepted \/ (\E arrived \in BOOLEAN : Unanswered(arrived)) \/ Rejected

Host == RecordMinted \/ AbandonMint \/ Save \/ Restart

Chain ==
  \/ \E b \in Bundles : Include(b)
  \/ Bury
  \/ \E p \in 1 .. MaxPeak : Reorg(p)
  \/ \E c \in Coins : Pay(c) \/ Lapse(c)

Next == Minter \/ Host \/ Chain

Spec == Init /\ [][Next]_vars

(* The host keeps calling advance and records what is confirmed; a call    *)
(* ends, and a push is answered; blocks keep coming, and the network does  *)
(* not fail for ever a call that keeps being able to succeed.              *)
FairSpec ==
  /\ Spec
  /\ WF_vars(Bury)
  /\ SF_vars(\E b \in Bundles : Include(b))
  /\ SF_vars(Advance \/ Confirm)
  /\ SF_vars(\E c \in Coins : HoldFunding(c))
  /\ SF_vars(JournalStore)
  /\ SF_vars(Accepted)
  /\ SF_vars(RecordMinted)
  /\ WF_vars(Abort \/ Accepted \/ Rejected)
  /\ WF_vars(\E c \in Coins : Lapse(c))

(***************************************************************************)
(* Properties                                                              *)
(***************************************************************************)
TypeOK ==
  /\ journal \in Mint \cup {Empty}
  /\ entry \in Coins \cup {Empty}
  /\ file \in [journal : Mint \cup {Empty}, entry : Coins \cup {Empty}]
  /\ call \in [at : {"idle", "didHeld", "pushingDid", "launching", "storeHeld", "pushingStore"},
               did : Coins \cup {Empty}, fund : Coins \cup {Empty}, floor : 0 .. MaxPeak]
  /\ evidence \in Coins \cup {Empty}
  /\ held \subseteq Coins
  /\ mempool \subseteq Bundles
  /\ landed \in [Bundles -> 0 .. MaxPeak]
  /\ peak \in 1 .. MaxPeak
  /\ top \in peak .. MaxPeak
  /\ reorgs \in 0 .. MaxReorgs

Named(d) ==
  \/ journal # Empty /\ journal.did = d
  \/ entry = d

(* A profile in the registry is on chain, both halves of it, whatever the  *)
(* chain, the host and the process do after its confirmation was read: the *)
(* depth asked of the evidence is the depth a reorganisation cannot reach. *)
RecordedIsOnChain ==
  \A d \in {entry, file.entry, evidence} \ {Empty} :
    Did(d) \in Landed /\ Stores(d) \cap Landed # {}

(* No store is broadcast for a DID that a reorganisation could take away.  *)
LaunchesFromABuriedDid ==
  \A b \in mempool \cup Landed :
    b.kind = "store" => Did(b.did) \in Landed /\ landed[Did(b.did)] + Depth <= top + 1

(* "never a DID nothing names": every DID that may land or has landed is   *)
(* the one the registry names.  There is one mint and one profile at the   *)
(* index, never both, so the index never pays for a second identity.       *)
EveryDidIsNamed ==
  \A b \in mempool \cup Landed : b.kind = "did" => Named(b.did)

(* "The DID EXISTS on chain and the store has not been launched": when no  *)
(* call is running and the status says so, no store of that DID is in a    *)
(* mempool or a block, so resuming from it cannot launch a second one.     *)
NotLaunchedIsTrue ==
  call.at = "idle" /\ journal # Empty /\ Status = "DidConfirmedStoreNotLaunched"
    => Stores(journal.did) \cap (mempool \cup Landed) = {}

(* "Each half is pushed AT MOST ONCE": the index pays for one DID.         *)
OneIdentity ==
  Cardinality({b \in mempool \cup Landed : b.kind = "did"}) <= 1

Penniless == Unspent = {}

Minting(d) == journal # Empty /\ journal.did = d

(* A DID that is paid for, buried and journalled becomes a profile, unless *)
(* the host abandons it or every funding coin is spent on something else.  *)
PaidDidBecomesAProfile ==
  \A d \in Coins :
    Minting(d) /\ DidProven ~> (entry = d \/ ~Minting(d) \/ []Penniless)

(***************************************************************************)
(* A mint is a use of the registry: every step is a mutator of it, a save, *)
(* a restart, or nothing the registry sees.                                *)
(***************************************************************************)
AsEntries(d) ==
  [ix \in {0} |-> IF d = Empty THEN Empty
                  ELSE [did |-> d, launchedFrom |-> d, shown |-> TRUE, ended |-> 0]]

AsActive(d) == IF d = Empty THEN Empty ELSE 0

AsJournal(j) ==
  [ix \in {0} |-> IF j = Empty THEN Empty ELSE [stage |-> j.stage, fee |-> 0]]

Registry == INSTANCE ProfileRegistry WITH
  Dids <- Coins, MaxIx <- 0, MaxFee <- 0, Fees <- {0}, Heights <- {},
  entries <- AsEntries(entry),
  active <- AsActive(entry),
  journal <- AsJournal(journal),
  panicked <- FALSE,
  file <- [entries |-> AsEntries(file.entry), active |-> AsActive(file.entry),
           journal |-> AsJournal(file.journal)]

(* What is no mint and no profile here is none in the registry.            *)
ASSUME MarkerAssumption == Empty \notin Registry!Entry \cup Registry!Mint \cup Nat

ImplementsRegistry == Registry!Spec
=============================================================================
