--------------------------- MODULE ProfileRegistry ---------------------------
(***************************************************************************)
(* The offline registry of an account's profiles: which are confirmed,     *)
(* which are being minted, which one is active, and the file it is kept    *)
(* in.  Every mutator re-checks the registry's invariants and panics when  *)
(* one is broken; the host saves when it likes, and a restart reloads the  *)
(* last save.  A call that is refused changes nothing and is no step.      *)
(*                                                                         *)
(* An anchor is what is told apart: the identity (DID launcher id) and the *)
(* DID whose coin the store was launched from.  Evidence of a confirmation *)
(* is taken as given: MintedDid and ConfirmedStore refuse height 0 and     *)
(* derive the DID string themselves.  Labels decide nothing and are left   *)
(* out.                                                                    *)
(***************************************************************************)
EXTENDS Naturals

CONSTANTS
  Dids,       \* identities
  MaxIx,      \* u32::MAX, the last profile index
  MaxFee,     \* MAX_MINT_FEE_MOJOS
  Fees,       \* the fees a host discloses
  Heights,    \* the heights a host reports a melt at
  Empty       \* no entry, no mint, no active profile

Ixs == 0 .. MaxIx

Stages == {"DidPushed", "DidConfirmedStoreNotLaunched", "StorePushed"}

(* ended: the height of the end, 0 while the profile is live.              *)
Entry == [did : Dids, launchedFrom : Dids, shown : BOOLEAN, ended : Nat]

Mint == [stage : Stages, fee : 0 .. MaxFee]

ASSUME RegistryAssumption ==
  /\ MaxIx \in Nat
  /\ MaxFee \in Nat
  /\ Fees \subseteq Nat
  /\ Heights \subseteq Nat
  /\ Empty \notin Entry \cup Mint \cup Nat

VARIABLES
  entries,   \* ProfileRegistry.entries, by index
  active,    \* ProfileRegistry.active
  journal,   \* ProfileRegistry.in_progress, by index
  panicked,  \* a mutator's expect_valid has panicked
  file       \* what the host last saved

registry == <<entries, active, journal>>

vars == <<entries, active, journal, panicked, file>>

Blank ==
  [entries |-> [ix \in Ixs |-> Empty], active |-> Empty, journal |-> [ix \in Ixs |-> Empty]]

(***************************************************************************)
(* ProfileRegistry::check                                                  *)
(***************************************************************************)
Live(e) == {ix \in Ixs : e[ix] # Empty /\ e[ix].ended = 0}

Confirmed(e) == {ix \in Ixs : e[ix] # Empty}

OneStateEach(e, j) == \A ix \in Ixs : e[ix] = Empty \/ j[ix] = Empty

ActiveIsLive(e, a) == IF Live(e) = {} THEN a = Empty ELSE a \in Live(e)

ActiveIsShown(e, a) == a # Empty => e[a].shown

IdentitiesAreUnique(e) ==
  \A p, q \in Confirmed(e) : e[p].did = e[q].did => p = q

HalvesPair(e) == \A ix \in Confirmed(e) : e[ix].launchedFrom = e[ix].did

FeesAreBounded(j) == \A ix \in Ixs : j[ix] # Empty => j[ix].fee <= MaxFee

Check(e, a, j) ==
  /\ OneStateEach(e, j)
  /\ ActiveIsLive(e, a)
  /\ ActiveIsShown(e, a)
  /\ IdentitiesAreUnique(e)
  /\ HalvesPair(e)
  /\ FeesAreBounded(j)

(***************************************************************************)
(* Mutators                                                                *)
(***************************************************************************)
(* A mutation, with the expect_valid that ends it.                         *)
Becomes(e, a, j) ==
  /\ ~panicked
  /\ entries' = e
  /\ active' = a
  /\ journal' = j
  /\ panicked' = ~Check(e, a, j)
  /\ UNCHANGED file

(* Mutant: an identity may be recorded twice.                              *)
RecordMintedTwice(ix, did, launchedFrom) ==
  /\ entries[ix] = Empty
  /\ launchedFrom = did
  /\ Becomes([entries EXCEPT ![ix] =
                [did |-> did, launchedFrom |-> launchedFrom, shown |-> TRUE, ended |-> 0]],
             IF active = Empty THEN ix ELSE active,
             [journal EXCEPT ![ix] = Empty])

(* Both halves of a mint are confirmed.                                    *)
RecordMinted(ix, did, launchedFrom) ==
  /\ entries[ix] = Empty
  /\ \A p \in Confirmed(entries) : entries[p].did # did
  /\ launchedFrom = did
  /\ Becomes([entries EXCEPT ![ix] =
                [did |-> did, launchedFrom |-> launchedFrom, shown |-> TRUE, ended |-> 0]],
             IF active = Empty THEN ix ELSE active,
             [journal EXCEPT ![ix] = Empty])

(* The target is un-hidden.                                                *)
SetActive(ix) ==
  /\ ix \in Live(entries)
  /\ Becomes([entries EXCEPT ![ix] = [@ EXCEPT !.shown = TRUE]], ix, journal)

SetVisibility(ix, shown) ==
  /\ entries[ix] # Empty
  /\ shown \/ active # ix
  /\ Becomes([entries EXCEPT ![ix] = [@ EXCEPT !.shown = shown]], active, journal)

Lowest(S) == CHOOSE x \in S : \A y \in S : x <= y

(* Mutant: a repeated end is recorded again.                               *)
RecordMeltedAgain(ix, height) ==
  /\ height > 0
  /\ entries[ix] # Empty
  /\ LET ended == [entries EXCEPT ![ix] = [@ EXCEPT !.ended = height]]
         next  == IF Live(ended) = {} THEN Empty ELSE Lowest(Live(ended))
     IN  Becomes(ended, IF active = ix THEN next ELSE active, journal)

(* Both singletons are melted.  The active slot moves to the lowest live   *)
(* index; a second end of the same profile changes nothing.                *)
RecordMelted(ix, height) ==
  /\ height > 0
  /\ ix \in Live(entries)
  /\ LET ended == [entries EXCEPT ![ix] = [@ EXCEPT !.ended = height]]
         next  == IF Live(ended) = {} THEN Empty ELSE Lowest(Live(ended))
     IN  Becomes(ended, IF active = ix THEN next ELSE active, journal)

(* Mutant: the disclosed fee is not held to the ceiling.                   *)
ReserveAnyFee(ix, stage, fee) ==
  /\ entries[ix] = Empty
  /\ journal[ix] = Empty
  /\ Becomes(entries, active, [journal EXCEPT ![ix] = [stage |-> stage, fee |-> fee]])

(* begin_mint and begin_seeded_mint.                                       *)
Reserve(ix, stage, fee) ==
  /\ entries[ix] = Empty
  /\ journal[ix] = Empty
  /\ fee <= MaxFee
  /\ Becomes(entries, active, [journal EXCEPT ![ix] = [stage |-> stage, fee |-> fee]])

(* Mutant: a stage is recorded for a mint that was never begun.            *)
AdvanceUnbegun(ix, stage) ==
  /\ ~panicked
  /\ journal' = [journal EXCEPT ![ix] = [stage |-> stage, fee |-> 0]]
  /\ UNCHANGED <<entries, active, panicked, file>>

(* The one mutator, with set_label, that does not re-check the registry.   *)
AdvanceMint(ix, stage) ==
  /\ ~panicked
  /\ journal[ix] # Empty
  /\ journal' = [journal EXCEPT ![ix] = [stage |-> stage, fee |-> @.fee]]
  /\ UNCHANGED <<entries, active, panicked, file>>

AbandonMint(ix) ==
  /\ journal[ix] # Empty
  /\ Becomes(entries, active, [journal EXCEPT ![ix] = Empty])

(* next_free_ix: one past the highest index known, if there is one.        *)
NextFreeIx ==
  LET known == Confirmed(entries) \cup {ix \in Ixs : journal[ix] # Empty}
  IN  {ix \in Ixs : IF known = {} THEN ix = 0
                    ELSE ix - 1 \in known /\ \A k \in known : k < ix}

(* The host saves: to_json.                                                *)
Save ==
  /\ ~panicked
  /\ file' = [entries |-> entries, active |-> active, journal |-> journal]
  /\ UNCHANGED <<registry, panicked>>

(* The process ends and starts again: from_json of the last save.          *)
Restart ==
  /\ Check(file.entries, file.active, file.journal)
  /\ entries' = file.entries
  /\ active' = file.active
  /\ journal' = file.journal
  /\ panicked' = FALSE
  /\ UNCHANGED file

Init ==
  /\ entries = Blank.entries
  /\ active = Blank.active
  /\ journal = Blank.journal
  /\ panicked = FALSE
  /\ file = Blank

Mutate(ix) ==
  \/ \E did, launchedFrom \in Dids : RecordMinted(ix, did, launchedFrom)
  \/ SetActive(ix)
  \/ \E shown \in BOOLEAN : SetVisibility(ix, shown)
  \/ \E height \in Heights : RecordMelted(ix, height)
  \/ \E stage \in Stages, fee \in Fees : Reserve(ix, stage, fee)
  \/ \E stage \in Stages : AdvanceMint(ix, stage)
  \/ AbandonMint(ix)

Next == Save \/ Restart \/ \E ix \in Ixs : Mutate(ix)

Spec == Init /\ [][Next]_vars

(***************************************************************************)
(* Properties                                                              *)
(***************************************************************************)
Image ==
  [entries : [Ixs -> Entry \cup {Empty}],
   active : Ixs \cup {Empty},
   journal : [Ixs -> Mint \cup {Empty}]]

TypeOK ==
  /\ entries \in [Ixs -> Entry \cup {Empty}]
  /\ active \in Ixs \cup {Empty}
  /\ journal \in [Ixs -> Mint \cup {Empty}]
  /\ panicked \in BOOLEAN
  /\ file \in Image

(* expect_valid fires in one situation only: the registry is in order      *)
(* except that its active profile is a live one that is hidden.  No other  *)
(* sequence of calls, saves and restarts breaks an invariant.              *)
OnlyAHiddenProfilePanics ==
  panicked =>
    /\ OneStateEach(entries, journal)
    /\ ActiveIsLive(entries, active)
    /\ IdentitiesAreUnique(entries)
    /\ HalvesPair(entries)
    /\ FeesAreBounded(journal)
    /\ ~ActiveIsShown(entries, active)

(* What to_json wrote, from_json reads: no save locks the account out of   *)
(* its own identities.                                                     *)
SavesLoad == Check(file.entries, file.active, file.journal)

(* While the process runs, a confirmed profile keeps its index and its     *)
(* identity, and an end is never undone or moved.                          *)
HistoryIsKept ==
  [][Restart \/
     \A ix \in Confirmed(entries) :
       /\ entries'[ix] # Empty
       /\ entries'[ix].did = entries[ix].did
       /\ entries[ix].ended # 0 => entries'[ix].ended = entries[ix].ended]_vars

(* "A violation here is a bug in this module, never bad input - every      *)
(* public mutator refuses its bad cases before touching state".            *)
NoMutatorPanics == ~panicked
=============================================================================
