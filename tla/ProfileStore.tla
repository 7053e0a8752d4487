----------------------------- MODULE ProfileStore -----------------------------
(***************************************************************************)
(* A profile's store after its mint: ProfileEditor advances the root it    *)
(* commits, ProfileMelter ends it together with the profile's DID, and the *)
(* host keeps the bodies the roots commit to, which are on no chain.       *)
(*                                                                         *)
(* The store is a singleton: each edit spends its tip and creates the      *)
(* next.  A coin's name is fixed by all that came before it, so here a     *)
(* coin IS the sequence of contents up to it, and the root it commits is   *)
(* its last content.  The DID is spent by a deletion only, and a deletion  *)
(* spends both or neither.                                                 *)
(*                                                                         *)
(* commit_edit resolves the tip twice, to read the profile and again to    *)
(* sign; a deletion reads the DID, then the store; melt_status reads one   *)
(* and then the other.  Each reading is a step, and each may be answered   *)
(* by a node that is behind.                                               *)
(***************************************************************************)
EXTENDS Naturals, Sequences, FiniteSets, SequencesExt

CONSTANTS
  Slots,       \* the slots of the profile's body
  Values,      \* what a slot may hold (its absence is one of them)
  Minted,      \* the content the mint committed
  Editors,     \* calls of commit_edit, each of which may be made again
  Edit,        \* Edit[e]: the one change of e's batch, [slot, value]
  Publishers,  \* calls of publish_profile
  Profile,     \* Profile[p]: the whole content p publishes
  Lag,         \* bound: how many spends of the store a node may be behind
  MaxTips,     \* bound: contents the store ever has at once
  MaxWaiting,  \* bound: bundles in the mempools at once
  MaxForks     \* bound: spends of the store that are undone

Content == [Slots -> Values]
Callers == Editors \cup Publishers

ASSUME ProfileStoreAssumption ==
  /\ Minted \in Content
  /\ Edit \in [Editors -> [slot : Slots, value : Values]]
  /\ Profile \in [Publishers -> Content]
  /\ Editors \cap Publishers = {}
  /\ Lag \in Nat /\ MaxTips \in Nat /\ MaxWaiting \in Nat /\ MaxForks \in Nat

VARIABLES
  tips,     \* the store's contents, first to last: its current coin
  origins,  \* of each tip, what made it (a history variable)
  melted,   \* the tip and the DID are spent by a deletion
  mempool,  \* bundles a node accepted
  forks,    \* spends of the store undone so far
  undone,   \* one of them was a deletion (a history variable)
  call,     \* the locals of each call of the editor
  held,     \* contents whose body the host's content source can serve
  lost,     \* contents pushed, unanswered, whose body came back to nobody
  melt,     \* the host's deletion
  ended     \* the registry says the profile ended (record_melted)

chain == <<tips, origins, melted, mempool, forks, undone>>
edits == <<call, held, lost>>
ends  == <<melt, ended>>
vars  == <<chain, edits, ends>>

(* An "edit" was computed from the very tip it spends; a "blind" one from  *)
(* another tip, or from none (publish_profile).                            *)
Origins == {"mint", "edit", "blind"}

Bundle ==
  [kind : {"edit", "blind"}, on : Seq(Content), content : Content]
    \cup [kind : {"melt"}, on : Seq(Content)]

Committed == Last(tips)

(***************************************************************************)
(* Reading the chain                                                       *)
(***************************************************************************)
(* Spends of the store so far, its launch included.                        *)
Spends == Len(tips) + IF melted THEN 1 ELSE 0

(* resolve_store_tip, by a node that may be behind.  The walk goes on to   *)
(* the last coin of the lineage and does not ask whether it is spent: the  *)
(* tip of a melted store resolves too.                                     *)
Resolved ==
  {SubSeq(tips, 1, n) : n \in {k \in 1 .. Len(tips) : k = Len(tips) \/ k + Lag >= Spends}}

(* What nodes answer of a coin by name: it is spent, or (by a node that is *)
(* behind the spend) it is not.  Of a coin a fork undid there is no record.*)
ReadsSpent(coin) == IsPrefix(coin, tips) /\ Len(coin) < Spends

ReadsUnspent(coin) == IsPrefix(coin, tips) /\ Spends - Len(coin) <= Lag

DidReadsSpent == melted

DidReadsUnspent == melted => Lag > 0

(***************************************************************************)
(* ProfileEditor                                                           *)
(***************************************************************************)
(* A node takes a bundle whose coin it has no spend of.                    *)
Takes(b) ==
  /\ ReadsUnspent(b.on)
  /\ mempool' = mempool \cup {b}
  /\ Cardinality(mempool') <= MaxWaiting

Idle == [at |-> "idle", base |-> Minted, on |-> <<Minted>>]

Return(c) == call' = [call EXCEPT ![c] = Idle]

(* Mutant: the slot that is changed is taken out of the body.              *)
EditedWithout(e, base) == [s \in Slots \ {Edit[e].slot} |-> base[s]]

(* Mutant: the root is rebuilt from the slots the seam names.              *)
EditedAlone(e, base) == [Minted EXCEPT ![Edit[e].slot] = Edit[e].value]

(* The batch applied to the whole body that was read.                      *)
Edited(e, base) == [base EXCEPT ![Edit[e].slot] = Edit[e].value]

(* The content a call commits.                                             *)
Wanted(c, base) == IF c \in Editors THEN Edited(c, base) ELSE Profile[c]

(* commit_edit reads the profile: the body under the tip's root must be    *)
(* held (ContentUnavailable), and if the batch changes nothing of it the   *)
(* call returns Confirmed, with the body, and pushes nothing.              *)
Read(e) ==
  /\ call[e].at = "idle"
  /\ \E tip \in Resolved :
       /\ Last(tip) \in held
       /\ Edited(e, Last(tip)) # Last(tip)
       /\ call' = [call EXCEPT ![e].at = "read", ![e].base = Last(tip)]
  /\ UNCHANGED <<chain, held, lost, ends>>

(* publish_profile reads the tip's root and no body.                       *)
ReadRoot(p) ==
  /\ call[p].at = "idle"
  /\ \E tip \in Resolved : Last(tip) # Profile[p]
  /\ call' = [call EXCEPT ![p].at = "read"]
  /\ UNCHANGED <<chain, held, lost, ends>>

(* Its root is anchored already: Confirmed, and the body is returned.      *)
AlreadyPublished(p) ==
  /\ call[p].at = "idle"
  /\ \E tip \in Resolved : Last(tip) = Profile[p]
  /\ held' = held \cup {Profile[p]}
  /\ lost' = lost \ {Profile[p]}
  /\ UNCHANGED <<chain, call, ends>>

(* build_and_sign_update resolves the tip again.                           *)
Sign(c) ==
  /\ call[c].at = "read"
  /\ \E tip \in Resolved :
       call' = [call EXCEPT ![c].at = "signed", ![c].on = tip]
  /\ UNCHANGED <<chain, held, lost, ends>>

Signed(c) ==
  [kind    |-> IF c \in Editors /\ call[c].base = Last(call[c].on) THEN "edit" ELSE "blind",
   on      |-> call[c].on,
   content |-> Wanted(c, call[c].base)]

(* Mutant: the call answers with a status and without the body.            *)
AcceptedStatusOnly(c) ==
  /\ call[c].at = "signed"
  /\ Takes(Signed(c))
  /\ Return(c)
  /\ UNCHANGED <<tips, origins, melted, forks, undone, held, lost, ends>>

(* Accepted, or AlreadyInMempool: the body is returned and the host keeps  *)
(* it, as CommittedEdit obliges it to.                                     *)
Accepted(c) ==
  /\ call[c].at = "signed"
  /\ Takes(Signed(c))
  /\ held' = held \cup {Signed(c).content}
  /\ lost' = lost \ {Signed(c).content}
  /\ Return(c)
  /\ UNCHANGED <<tips, origins, melted, forks, undone, ends>>

(* Rejected: the caller gets the reason and no body.                       *)
Rejected(c) ==
  /\ call[c].at = "signed"
  /\ Return(c)
  /\ UNCHANGED <<chain, held, lost, ends>>

(* ChainUnreachable: the bundle may have arrived, and no body is returned. *)
Unanswered(c) ==
  /\ call[c].at = "signed"
  /\ mempool' = mempool \/ Takes(Signed(c))
  /\ lost' = (lost \cup {Signed(c).content}) \ held
  /\ Return(c)
  /\ UNCHANGED <<tips, origins, melted, forks, undone, held, ends>>

(***************************************************************************)
(* ProfileMelter                                                           *)
(***************************************************************************)
NoMelt == [at |-> "none", pin |-> <<>>]

(* plan_melt: the DID's tip is resolved, pinned to the anchor's launcher   *)
(* and read again by name: it is not spent.                                *)
PlanDid ==
  /\ melt.at \in {"none", "pushed"}
  /\ DidReadsUnspent
  /\ melt' = [at |-> "planning", pin |-> <<>>]
  /\ UNCHANGED <<chain, edits, ended>>

(* Then the store's tip: resolved, and read again by name.                 *)
PlanStore ==
  /\ melt.at = "planning"
  /\ \E tip \in Resolved :
       /\ ReadsUnspent(tip)
       /\ melt' = [at |-> "pushing", pin |-> tip]
  /\ UNCHANGED <<chain, edits, ended>>

MeltBundle == [kind |-> "melt", on |-> melt.pin]

(* melt_profile's push is accepted: the pins are what the host polls with. *)
MeltAccepted ==
  /\ melt.at = "pushing"
  /\ Takes(MeltBundle)
  /\ melt' = [melt EXCEPT !.at = "pushed"]
  /\ UNCHANGED <<tips, origins, melted, forks, undone, edits, ended>>

(* Its push is not answered: the host has nothing to poll with.            *)
MeltUnanswered ==
  /\ melt.at = "pushing"
  /\ mempool' = mempool \/ Takes(MeltBundle)
  /\ melt' = NoMelt
  /\ UNCHANGED <<tips, origins, melted, forks, undone, edits, ended>>

(* Rejected, or the plan could not be made (NoDid, NoStore, Locked, the    *)
(* chain unreachable).                                                     *)
MeltGivenUp ==
  /\ melt.at \in {"planning", "pushing"}
  /\ melt' = NoMelt
  /\ UNCHANGED <<chain, edits, ended>>

(* Mutant: the store's coin alone is asked for.                            *)
PollStoreOnly ==
  /\ melt.at = "pushed"
  /\ melt' = [melt EXCEPT !.at = "polling"]
  /\ UNCHANGED <<chain, edits, ended>>

(* melt_status reads the DID's coin ...                                    *)
PollDid ==
  /\ melt.at = "pushed"
  /\ DidReadsSpent
  /\ melt' = [melt EXCEPT !.at = "polling"]
  /\ UNCHANGED <<chain, edits, ended>>

(* ... and the store's: both spent is Confirmed, at whatever depth, and    *)
(* the host records the end.                                               *)
PollStore ==
  /\ melt.at = "polling"
  /\ \/ ReadsSpent(melt.pin) /\ ended' = TRUE /\ melt' = NoMelt
     \/ ended' = ended /\ melt' = [melt EXCEPT !.at = "pushed"]
  /\ UNCHANGED <<chain, edits>>

(***************************************************************************)
(* The chain                                                               *)
(***************************************************************************)
(* What is left of a mempool when a coin is spent.  (A bundle that is      *)
(* evicted is one that is never included.)                                 *)
Surviving(coin) == {b \in mempool : b.on # coin}

IncludeEdit(b) ==
  /\ b.kind # "melt" /\ b.on = tips /\ ~melted
  /\ Len(tips) < MaxTips
  /\ tips' = Append(tips, b.content)
  /\ origins' = Append(origins, b.kind)
  /\ mempool' = Surviving(tips)
  /\ UNCHANGED <<melted, forks, undone, edits, ends>>

IncludeMelt(b) ==
  /\ b.kind = "melt" /\ b.on = tips /\ ~melted
  /\ melted' = TRUE
  /\ mempool' = Surviving(tips)
  /\ UNCHANGED <<tips, origins, forks, undone, edits, ends>>

(* A fork undoes the last spend; its bundle waits again, or is gone.       *)
ForkEdit ==
  /\ ~melted /\ Len(tips) > 1 /\ forks < MaxForks
  /\ tips' = Front(tips)
  /\ origins' = Front(origins)
  /\ forks' = forks + 1
  /\ mempool' \in {mempool,
        mempool \cup {[kind |-> Last(origins), on |-> Front(tips), content |-> Last(tips)]}}
  /\ UNCHANGED <<melted, undone, edits, ends>>

ForkMelt ==
  /\ melted /\ forks < MaxForks
  /\ melted' = FALSE
  /\ undone' = TRUE
  /\ forks' = forks + 1
  /\ mempool' \in {mempool, mempool \cup {[kind |-> "melt", on |-> tips]}}
  /\ UNCHANGED <<tips, origins, edits, ends>>

(***************************************************************************)
(* The system                                                              *)
(***************************************************************************)
Init ==
  /\ tips = <<Minted>> /\ origins = <<"mint">>
  /\ melted = FALSE /\ mempool = {} /\ forks = 0 /\ undone = FALSE
  /\ call = [c \in Callers |-> Idle]
  /\ held = {Minted} /\ lost = {}
  /\ melt = NoMelt /\ ended = FALSE

Editing ==
  \/ \E e \in Editors : Read(e)
  \/ \E p \in Publishers : ReadRoot(p) \/ AlreadyPublished(p)
  \/ \E c \in Callers : Sign(c) \/ Accepted(c) \/ Rejected(c) \/ Unanswered(c)

Ending ==
  \/ PlanDid \/ PlanStore \/ MeltAccepted \/ MeltUnanswered \/ MeltGivenUp
  \/ PollDid \/ PollStore

Chain ==
  \/ \E b \in mempool : IncludeEdit(b) \/ IncludeMelt(b)
  \/ ForkEdit \/ ForkMelt

Next == Editing \/ Ending \/ Chain

Spec == Init /\ [][Next]_vars

(***************************************************************************)
(* Properties                                                              *)
(***************************************************************************)
TypeOK ==
  /\ tips \in Seq(Content) /\ Len(tips) \in Nat \ {0}
  /\ origins \in Seq(Origins) /\ Len(origins) = Len(tips)
  /\ melted \in BOOLEAN /\ undone \in BOOLEAN /\ ended \in BOOLEAN
  /\ mempool \subseteq Bundle
  /\ forks \in 0 .. MaxForks
  /\ call \in [Callers -> [at : {"idle", "read", "signed"}, base : Content,
                           on : Seq(Content)]]
  /\ held \subseteq Content /\ lost \subseteq Content
  /\ melt \in [at : {"none", "planning", "pushing", "pushed", "polling"},
               pin : Seq(Content)]

(* "An edit that returned only a status would leave the profile committed  *)
(* to content that no longer exists anywhere": what the store commits, now *)
(* or after any fork, can be read back, but for a push whose answer was    *)
(* lost on the way.                                                        *)
OnlyALostAnswerOrphansContent ==
  \A n \in 1 .. Len(tips) : tips[n] \in held \cup lost

(* Other slots are "PRESERVED untouched through an edit": whatever edits,  *)
(* publications, forks and lagging readings come between, an edit that     *)
(* landed on the tip it was computed from changed its own slot only.       *)
EditsKeepOtherSlots ==
  \A n \in 2 .. Len(tips) :
    origins[n] = "edit" =>
      \E e \in Editors : tips[n] = [tips[n - 1] EXCEPT ![Edit[e].slot] = Edit[e].value]

(* Confirmed "is the only variant that proves a profile ended": a store's  *)
(* coin spent by an edit is never taken for one spent by the deletion, and *)
(* a profile recorded as ended has ended, unless a fork undid a deletion.  *)
EndedUnlessForked == ended /\ ~undone => melted

(* "The bytes are returned on the already-confirmed path too, so a retry   *)
(* yields the artifact rather than only a verdict": when no call is under  *)
(* way a retry finds the body its root commits to.                         *)
RetryFindsTheBody == (\A c \in Callers : call[c].at = "idle") => Committed \in held
=============================================================================
