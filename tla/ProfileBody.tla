------------------------------ MODULE ProfileBody ------------------------------
(***************************************************************************)
(* The body of a profile, slot by slot: what a mint and an edit commit,    *)
(* what is shown of it, and which singletons a deletion agrees to spend.   *)
(*                                                                         *)
(* A body is a function from slots to values, a value its type and its     *)
(* text.  A root commits to one body, so here a root IS the body.  The     *)
(* size bounds of the body format are left out.                            *)
(***************************************************************************)
EXTENDS Naturals, Sequences, FiniteSets, SequencesExt

CONSTANTS
  Named,   \* ProfileSlot::ALL, the slots the editor names
  Texts    \* what a text slot may say

SchemaVersion == "schema version"

Utf8(text) == <<"utf8", text>>
V2         == <<"u16", "2">>

Bare == [s \in {SchemaVersion} |-> V2]

(* EditError or MeltError, or what the call comes to and about what.       *)
Refused(why)      == [verdict |-> why, of |-> {}]
Answer(what, of)  == [verdict |-> what, of |-> {of}]

(***************************************************************************)
(* What is shown, and what is changed                                      *)
(***************************************************************************)
(* project_standard_slots: a slot the seam does not name, and one that     *)
(* holds no text, is not shown.                                            *)
Fields(body) ==
  [s \in {t \in Named \cap DOMAIN body : body[t][1] = "utf8"} |-> body[s][2]]

(* SlotChange::Remove; SlotChange::Set is the text.                        *)
Removal == "removed"

(* A ProfileEdit is made by set and remove: the last change of a slot is   *)
(* the one that is kept.                                                   *)
ProfileEdit(changes) ==
  [s \in {changes[i][1] : i \in DOMAIN changes} |->
     changes[CHOOSE i \in DOMAIN changes :
               /\ changes[i][1] = s
               /\ \A j \in DOMAIN changes : changes[j][1] = s => j <= i][2]]

Removed(edit) == {s \in DOMAIN edit : edit[s] = Removal}

(* ProfileEdit::preview, over the fields that are shown.                   *)
Preview(edit, fields) ==
  [s \in (DOMAIN fields \cup DOMAIN edit) \ Removed(edit) |->
     IF s \in DOMAIN edit THEN edit[s] ELSE fields[s]]

(* Mutant: the body is rebuilt from the fields that are shown.             *)
AppliedToFields(edit, body) ==
  LET fields == Preview(edit, Fields(body))
  IN  [s \in {SchemaVersion} \cup DOMAIN fields |->
         IF s = SchemaVersion THEN V2 ELSE Utf8(fields[s])]

(* slot_edits, applied to the whole body that was read.                    *)
Applied(edit, body) ==
  [s \in (DOMAIN body \cup DOMAIN edit) \ Removed(edit) |->
     IF s \in DOMAIN edit THEN Utf8(edit[s]) ELSE body[s]]

(* What is pushed, unless the store commits it already.                    *)
Committing(body, anchored) ==
  Answer(IF body = anchored THEN "Confirmed" ELSE "Pushed", body)

CommitEdit(edit, body) ==
  IF DOMAIN edit = {} \/ SchemaVersion \in Removed(edit)
    THEN Refused("Refused")
    ELSE Committing(Applied(edit, body), body)

(* Mutant: the version has only to be there.                               *)
HasVersion(body) == SchemaVersion \in DOMAIN body

(* Profile::schema_version: a version that no reader understands is none.  *)
IsReadable(body) == SchemaVersion \in DOMAIN body /\ body[SchemaVersion][1] = "u16"

PublishProfile(profile, anchored) ==
  IF IsReadable(profile) THEN Committing(profile, anchored) ELSE Refused("Refused")

(* ProfileSeed: the schema's stamp, then each with_utf8 in turn.           *)
Seed(sets) ==
  FoldLeft(LAMBDA body, set :
             [s \in DOMAIN body \cup {set[1]} |->
                IF s = set[1] THEN Utf8(set[2]) ELSE body[s]],
           Bare, sets)

(***************************************************************************)
(* Reading back                                                            *)
(***************************************************************************)
Undecodable == <<"undecodable", "">>

(* assemble_body: the pairs may come in any order, but each slot once and  *)
(* with a value that decodes, and there is at least one.                   *)
Assembles(pairs) ==
  /\ pairs # <<>>
  /\ \A i, j \in DOMAIN pairs : pairs[i][1] = pairs[j][1] => i = j
  /\ \A i \in DOMAIN pairs : pairs[i][2] # Undecodable

Assembled(pairs) ==
  [s \in {pairs[i][1] : i \in DOMAIN pairs} |->
     pairs[CHOOSE i \in DOMAIN pairs : pairs[i][1] = s][2]]

(* Mutant: whatever assembles is believed.                                 *)
ReadUnchecked(root, pairs) ==
  IF Assembles(pairs) THEN Answer("read", Assembled(pairs)) ELSE Refused("Format")

(* read_profile: the body must be the one the store's tip commits.         *)
ReadProfile(root, pairs) ==
  IF ~Assembles(pairs) THEN Refused("Format")
  ELSE IF Assembled(pairs) # root THEN Refused("StaleOrTamperedContent")
  ELSE Answer("read", Assembled(pairs))

(***************************************************************************)
(* Which singletons are spent                                              *)
(***************************************************************************)
(* What a source answers when it is asked for the tip of a singleton:      *)
(* nothing, a failure, or a coin.  Of the coin: the launcher its lineage   *)
(* really descends from ("no singleton" if from none), the launcher        *)
(* curried into it, who owns it, whether puzzles are delegated, and        *)
(* whether it is unspent when it is read again by name.                    *)
NoTip == [found |-> "nothing"]
NoAnswer == [found |-> "failure"]

(* Mutant: what is curried into the tip is taken for its launcher.         *)
PinsBySay(tip, launcher) == tip.from # "no singleton" /\ tip.says = launcher

(* pin_did_tip_to_anchor: the lineage is walked back to its launcher.      *)
Pins(tip, launcher) == tip.from # "no singleton" /\ tip.from = launcher

(* The gate an edit passes too: the owner is where the store goes next.    *)
GateStoreIdentity(wallet, launcher, store) ==
  store.owner = wallet /\ store.says = launcher /\ ~store.delegated

(* require_still_alive: only a coin that reads as spent is gone.           *)
PlanMelt(wallet, anchor, did, store) ==
  IF did.found = "failure" THEN Refused("ChainUnreachable")
  ELSE IF did.found = "nothing" THEN Refused("NoDid")
  ELSE IF ~Pins(did, anchor.did) THEN Refused("Refused")
  ELSE IF did.byName = "spent" THEN Refused("NoDid")
  ELSE IF did.byName = "unknown" THEN Refused("ChainUnreachable")
  ELSE IF did.owner # wallet THEN Refused("Build")
  ELSE IF store.found = "failure" THEN Refused("ChainUnreachable")
  ELSE IF store.found = "nothing" THEN Refused("NoStore")
  ELSE IF ~GateStoreIdentity(wallet, anchor.store, store) THEN Refused("Refused")
  ELSE IF store.byName = "spent" THEN Refused("NoStore")
  ELSE IF store.byName = "unknown" THEN Refused("ChainUnreachable")
  ELSE Answer("planned", <<did, store>>)

(* MeltPlan::preview: the names are the anchor's, the coins the plan's.    *)
DeletionPreview(anchor, plan) ==
  [did |-> anchor.did, store |-> anchor.store, coins |-> plan]
=============================================================================
