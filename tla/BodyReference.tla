---------------------------- MODULE BodyReference ----------------------------
(***************************************************************************)
(* What the bodies of ProfileBody must come to, over every body of a few   *)
(* slots, every batch of changes, every answer of a content source and     *)
(* every pair of tips a chain source may name.                             *)
(***************************************************************************)
EXTENDS ProfileStore, ProfileBody

CONSTANT Open   \* slots that the editor does not name

AllSlots == Named \cup Open \cup {SchemaVersion}

(* A value of another type may sit in any slot.                            *)
AllValues == {Utf8(t) : t \in Texts} \cup {V2}

Bodies == UNION {[S -> AllValues] : S \in SUBSET AllSlots}

Changes == Named \X (Texts \cup {Removal})

Edits == {ProfileEdit(changes) : changes \in SeqOf(Changes, 3)}

(* What the preview showed is what a commit publishes, the slots that are  *)
(* not in the batch stay as they were, shown or not, and no edit takes a   *)
(* body's readability away; nor can a publication.                         *)
EditsAreTrue ==
  \A body \in Bodies :
    /\ \A edit \in Edits :
         LET r == CommitEdit(edit, body)
         IN  /\ r.verdict = "Refused" <=> edit = <<>>
             /\ \A next \in r.of :
                  /\ Fields(next) = Preview(edit, Fields(body))
                  /\ \A s \in AllSlots \ DOMAIN edit :
                       /\ s \in DOMAIN next <=> s \in DOMAIN body
                       /\ s \in DOMAIN body => next[s] = body[s]
                  /\ IsReadable(next) <=> IsReadable(body)
                  /\ r.verdict = "Confirmed" <=> next = body
    /\ \A next \in PublishProfile(body, Bare).of : next[SchemaVersion] = V2

(* A profile is minted with the body its wizard's fields would publish.    *)
SeedsAreEdits ==
  \A sets \in SeqOf(Named \X Texts, 3) : Seed(sets) = Applied(ProfileEdit(sets), Bare)

Pairs == (Named \cup {SchemaVersion}) \X {Utf8(t) : t \in Texts} \cup {<<SchemaVersion, V2>>}

(* A body is read as the chain commits it or not at all, and it is read    *)
(* from its pairs in whatever order they come.                             *)
ReadsAreTrue ==
  \A pairs \in SeqOf(Pairs \cup {<<SchemaVersion, Undecodable>>}, 3) :
    /\ \A root \in {Bare, Assembled(pairs)} : ReadProfile(root, pairs).of \subseteq {root}
    /\ (pairs \in Seq(Pairs) /\ Cardinality({p[1] : p \in ToSet(pairs)}) = Len(pairs)
          /\ pairs # <<>>)
         => ReadProfile(Assembled(pairs), pairs) = Answer("read", Assembled(pairs))

(***************************************************************************)
(* Deletions                                                               *)
(***************************************************************************)
Anchor == [did |-> "this did", store |-> "this store"]

DidTips ==
  [found : {"coin"}, from : {"this did", "another did", "no singleton"},
   says : {"this did", "another did"}, owner : {"wallet", "stranger"},
   byName : {"unspent", "spent", "unknown"}]

(* A store is hydrated from the spend that made it, whose launcher it says.*)
StoreTips ==
  [found : {"coin"}, says : {"this store", "another store"},
   owner : {"wallet", "stranger"}, delegated : BOOLEAN,
   byName : {"unspent", "spent", "unknown"}]

(* The deletion that is planned is that of the two singletons the preview  *)
(* names, both the wallet's own and unspent, whatever a source answers     *)
(* instead of them; and when they are, it is planned.                      *)
DeletionsAreTrue ==
  \A did \in DidTips \cup {NoTip, NoAnswer}, store \in StoreTips \cup {NoTip, NoAnswer} :
    LET r == PlanMelt("wallet", Anchor, did, store)
        sound == /\ did \in DidTips /\ store \in StoreTips
                 /\ did.owner = "wallet" /\ did.byName = "unspent"
                 /\ store.owner = "wallet" /\ store.byName = "unspent"
                 /\ ~store.delegated
        named(preview) == /\ did.from = preview.did /\ store.says = preview.store
                          /\ preview.coins = <<did, store>>
    IN  /\ \A plan \in r.of : sound /\ named(DeletionPreview(Anchor, plan))
        /\ sound /\ named(DeletionPreview(Anchor, <<did, store>>)) => r.verdict = "planned"
        /\ r.verdict = "NoDid" => did = NoTip \/ did.byName = "spent"

(* What a person was shown is what is published, read and destroyed        *)
(* (batch.rs preview, commit.rs, read.rs, melter.rs): an edit changes the  *)
(* slots it names and no other, whatever they hold; nothing is read that   *)
(* the chain does not commit; no publication is unreadable; and whatever   *)
(* tips a source answers with, a deletion spends the two singletons its    *)
(* preview names.                                                          *)
WhatIsShownIsDone ==
  forks <= MaxForks => EditsAreTrue /\ SeedsAreEdits /\ ReadsAreTrue /\ DeletionsAreTrue
=============================================================================
