-------------------------- MODULE ProfileStoreProofs --------------------------
(***************************************************************************)
(* Proofs about ProfileStore, for every set of slots, values, editors and  *)
(* publications, every lag and any number of forks.                        *)
(*                                                                         *)
(* Three facts about what waits in the mempools and in the calls carry     *)
(* the argument: every content that may still be committed is held or      *)
(* lost, every waiting edit changes one slot of the tip it spends, and a   *)
(* poll that has read the DID spent is about a melted profile as long as   *)
(* no deletion was undone.                                                 *)
(***************************************************************************)
EXTENDS BodyReference, FiniteSetTheorems, TLAPS

WaitingEdits == {b \in mempool : b.kind # "melt"}

(* No bundle commits a content nobody was given and nobody may miss.       *)
WaitingIsAccountedFor == \A b \in WaitingEdits : b.content \in held \cup lost

(* An edit computed from the tip it spends changes its own slot of it.     *)
ChangesOneSlot(from, to) ==
  \E e \in Editors : to = [from EXCEPT ![Edit[e].slot] = Edit[e].value]

WaitingKeepsOtherSlots ==
  \A b \in WaitingEdits : b.kind = "edit" => ChangesOneSlot(Last(b.on), b.content)

WaitingHasATip == \A b \in mempool : b.on # <<>>

SignedHasATip == \A c \in Callers : call[c].on # <<>>

PlannedHasATip == melt.at \in {"pushing", "pushed", "polling"} => melt.pin # <<>>

OnlyTheFirstIsMinted == \A n \in 2 .. Len(tips) : origins[n] \in {"edit", "blind"}

PollsTheMelted == melt.at = "polling" /\ ~undone => melted

IInv ==
  /\ TypeOK
  /\ OnlyALostAnswerOrphansContent /\ WaitingIsAccountedFor
  /\ EditsKeepOtherSlots /\ WaitingKeepsOtherSlots /\ OnlyTheFirstIsMinted
  /\ WaitingHasATip /\ SignedHasATip /\ PlannedHasATip
  /\ EndedUnlessForked /\ PollsTheMelted

(***************************************************************************)
(* Readings                                                                *)
(***************************************************************************)
(* A node answers with a tip the store has had.                            *)
LEMMA TipsAreRead ==
  ASSUME TypeOK, NEW tip \in Resolved
  PROVE  /\ tip \in Seq(Content) /\ tip # <<>>
         /\ Last(tip) \in Content
<1>1. PICK n \in 1 .. Len(tips) : tip = SubSeq(tips, 1, n)
  BY DEF Resolved
<1>2. tips \in Seq(Content) /\ Len(tips) \in Nat
  BY DEF TypeOK
<1>3. tip \in Seq(Content) /\ Len(tip) = n /\ n \in Nat \ {0}
  BY <1>1, <1>2
<1> QED BY <1>3 DEF Last

(* What an editor or a publication commits is a content.                   *)
LEMMA WantedIsContent ==
  ASSUME NEW c \in Callers, NEW base \in Content
  PROVE  Wanted(c, base) \in Content
<1>1. CASE c \in Editors
  <2>1. Edit[c].slot \in Slots /\ Edit[c].value \in Values
    BY <1>1, ProfileStoreAssumption
  <2> QED BY <1>1, <2>1 DEF Wanted, Edited, Content
<1>2. CASE c \notin Editors
  BY <1>2, ProfileStoreAssumption DEF Wanted, Callers
<1> QED BY <1>1, <1>2

(* A signed call's bundle, and what the invariant asks of it.              *)
LEMMA SignedBundle ==
  ASSUME IInv, NEW c \in Callers
  PROVE  /\ Signed(c) \in Bundle /\ Signed(c).kind # "melt"
         /\ Signed(c).on # <<>>
         /\ Signed(c).content \in Content
         /\ Signed(c).kind = "edit" => ChangesOneSlot(Last(Signed(c).on), Signed(c).content)
<1>1. call[c].base \in Content /\ call[c].on \in Seq(Content)
  BY DEF IInv, TypeOK
<1>2. call[c].on # <<>>
  BY DEF IInv, SignedHasATip
<1>3. Wanted(c, call[c].base) \in Content
  BY <1>1, WantedIsContent
<1>4. /\ Signed(c).on = call[c].on /\ Signed(c).content = Wanted(c, call[c].base)
      /\ Signed(c).kind \in {"edit", "blind"}
      /\ Signed(c).kind = "edit" => c \in Editors /\ call[c].base = Last(call[c].on)
  BY DEF Signed
<1>5. Signed(c) \in Bundle
  BY <1>1, <1>3 DEF Signed, Bundle
<1>6. ASSUME Signed(c).kind = "edit"
      PROVE  ChangesOneSlot(Last(Signed(c).on), Signed(c).content)
  BY <1>4, <1>6 DEF Wanted, Edited, ChangesOneSlot
<1> QED BY <1>2, <1>3, <1>4, <1>5, <1>6

(***************************************************************************)
(* The steps                                                               *)
(***************************************************************************)
(* The call of c becomes r.                                                *)
LEMMA OneCallChanges ==
  ASSUME TypeOK, SignedHasATip, NEW c \in Callers, NEW r,
         r \in [at : {"idle", "read", "signed"}, base : Content, on : Seq(Content)],
         r.on # <<>>, call' = [call EXCEPT ![c] = r]
  PROVE  /\ call' \in [Callers -> [at : {"idle", "read", "signed"}, base : Content,
                                   on : Seq(Content)]]
         /\ SignedHasATip'
<1> USE DEF TypeOK
<1>1. call' \in [Callers -> [at : {"idle", "read", "signed"}, base : Content, on : Seq(Content)]]
  OBVIOUS
<1>2. \A x \in Callers : call'[x] = IF x = c THEN r ELSE call[x]
  OBVIOUS
<1>3. SignedHasATip'
  BY <1>2 DEF SignedHasATip
<1> QED BY <1>1, <1>3

(* A call returns.                                                         *)
LEMMA Returns ==
  ASSUME TypeOK, SignedHasATip, NEW c \in Callers, Return(c)
  PROVE  /\ call' \in [Callers -> [at : {"idle", "read", "signed"}, base : Content,
                                   on : Seq(Content)]]
         /\ SignedHasATip'
<1>1. Idle \in [at : {"idle", "read", "signed"}, base : Content, on : Seq(Content)]
  BY ProfileStoreAssumption DEF Idle
<1>2. Idle.on # <<>>
  BY DEF Idle
<1>3. call' = [call EXCEPT ![c] = Idle]
  BY DEF Return
<1> HIDE DEF Idle
<1> QED BY <1>1, <1>2, <1>3, OneCallChanges

(* Steps of a call that leave the chain and the bodies alone.              *)
LEMMA ReadingSteps ==
  ASSUME IInv, UNCHANGED <<chain, held, lost, ends>>,
         call' \in [Callers -> [at : {"idle", "read", "signed"}, base : Content,
                               on : Seq(Content)]],
         SignedHasATip'
  PROVE  IInv'
  BY DEF IInv, TypeOK, OnlyALostAnswerOrphansContent, WaitingIsAccountedFor, EditsKeepOtherSlots,
         WaitingKeepsOtherSlots, WaitingHasATip, PlannedHasATip, EndedUnlessForked,
         PollsTheMelted, OnlyTheFirstIsMinted, WaitingEdits, Bundle, chain, ends

(* The push of a signed edit: whatever the mempool has of it, its content  *)
(* is held or lost afterwards.                                             *)
LEMMA PushingSteps ==
  ASSUME IInv, NEW c \in Callers, Return(c),
         mempool' \subseteq mempool \cup {Signed(c)},
         UNCHANGED <<tips, origins, melted, forks, undone, ends>>,
         held' \subseteq Content, lost' \subseteq Content,
         held \cup lost \subseteq held' \cup lost',
         mempool' \subseteq mempool \/ Signed(c).content \in held' \cup lost'
  PROVE  IInv'
<1> DEFINE new == Signed(c)
<1>1. /\ new \in Bundle /\ new.kind # "melt" /\ new.on # <<>>
      /\ new.kind = "edit" => ChangesOneSlot(Last(new.on), new.content)
  BY SignedBundle
<1> HIDE DEF new
<1>2. SignedHasATip'
  BY Returns DEF IInv
<1>3. TypeOK'
  <2>1. mempool' \subseteq Bundle
    BY <1>1 DEF IInv, TypeOK, new
  <2>2. call' \in [Callers -> [at : {"idle", "read", "signed"}, base : Content,
                              on : Seq(Content)]]
    BY Returns DEF IInv
  <2> QED BY <2>1, <2>2 DEF IInv, TypeOK, ends
<1>4. OnlyALostAnswerOrphansContent'
  BY DEF IInv, OnlyALostAnswerOrphansContent
<1>5. WaitingIsAccountedFor'
  BY DEF IInv, WaitingIsAccountedFor, WaitingEdits
<1>6. EditsKeepOtherSlots' /\ OnlyTheFirstIsMinted'
  BY DEF IInv, EditsKeepOtherSlots, OnlyTheFirstIsMinted
<1>7. WaitingKeepsOtherSlots' /\ WaitingHasATip'
  BY <1>1 DEF IInv, WaitingKeepsOtherSlots, WaitingHasATip, WaitingEdits, new, ChangesOneSlot
<1>8. PlannedHasATip' /\ EndedUnlessForked' /\ PollsTheMelted'
  BY DEF IInv, PlannedHasATip, EndedUnlessForked, PollsTheMelted, ends
<1> QED BY <1>2, <1>3, <1>4, <1>5, <1>6, <1>7, <1>8 DEF IInv

(* The editor's steps.                                                     *)
LEMMA EditingIInv ==
  ASSUME IInv, Editing
  PROVE  IInv'
<1>0. TypeOK /\ SignedHasATip
  BY DEF IInv
<1> DEFINE Call == [at : {"idle", "read", "signed"}, base : Content, on : Seq(Content)]
<1>1. ASSUME NEW e \in Editors, Read(e) PROVE IInv'
  <2>1. PICK tip \in Resolved :
          call' = [call EXCEPT ![e].at = "read", ![e].base = Last(tip)]
    BY <1>1 DEF Read
  <2> DEFINE r == [call[e] EXCEPT !.at = "read", !.base = Last(tip)]
  <2>2. Last(tip) \in Content
    BY <1>0, TipsAreRead
  <2>3. e \in Callers /\ call[e] \in Call
    BY <1>0 DEF Callers, TypeOK
  <2>4. r \in Call /\ r.on # <<>>
    BY <1>0, <2>2, <2>3 DEF SignedHasATip
  <2>5. call' = [call EXCEPT ![e] = r]
    BY <2>1
  <2> HIDE DEF r
  <2> QED BY <1>0, <1>1, <2>3, <2>4, <2>5, OneCallChanges, ReadingSteps DEF Read
<1>2. ASSUME NEW p \in Publishers, ReadRoot(p) PROVE IInv'
  <2> DEFINE r == [call[p] EXCEPT !.at = "read"]
  <2>3. p \in Callers /\ call[p] \in Call
    BY <1>0 DEF Callers, TypeOK
  <2>4. r \in Call /\ r.on # <<>>
    BY <1>0, <2>3 DEF SignedHasATip
  <2>5. call' = [call EXCEPT ![p] = r]
    BY <1>2 DEF ReadRoot
  <2> HIDE DEF r
  <2> QED BY <1>0, <1>2, <2>3, <2>4, <2>5, OneCallChanges, ReadingSteps DEF ReadRoot
<1>3. ASSUME NEW p \in Publishers, AlreadyPublished(p) PROVE IInv'
  <2>1. Profile[p] \in Content
    BY ProfileStoreAssumption
  <2>2. held' = held \cup {Profile[p]} /\ lost' = lost \ {Profile[p]}
    BY <1>3 DEF AlreadyPublished
  <2>3. UNCHANGED <<chain, call, ends>>
    BY <1>3 DEF AlreadyPublished
  <2> QED
    BY <2>1, <2>2, <2>3
    DEF IInv, TypeOK, OnlyALostAnswerOrphansContent, WaitingIsAccountedFor, EditsKeepOtherSlots,
        WaitingKeepsOtherSlots, WaitingHasATip, SignedHasATip, PlannedHasATip, EndedUnlessForked,
        PollsTheMelted, OnlyTheFirstIsMinted, WaitingEdits, Bundle, chain, ends
<1>4. ASSUME NEW c \in Callers, Sign(c) PROVE IInv'
  <2>1. PICK tip \in Resolved : call' = [call EXCEPT ![c].at = "signed", ![c].on = tip]
    BY <1>4 DEF Sign
  <2> DEFINE r == [call[c] EXCEPT !.at = "signed", !.on = tip]
  <2>2. tip \in Seq(Content) /\ tip # <<>>
    BY <1>0, TipsAreRead
  <2>3. call[c] \in Call
    BY <1>0 DEF TypeOK
  <2>4. r \in Call /\ r.on # <<>>
    BY <2>2, <2>3
  <2>5. call' = [call EXCEPT ![c] = r]
    BY <2>1
  <2> HIDE DEF r
  <2> QED BY <1>0, <1>4, <2>4, <2>5, OneCallChanges, ReadingSteps DEF Sign
<1>5. ASSUME NEW c \in Callers, Accepted(c) PROVE IInv'
  <2>1. Signed(c).content \in Content
    BY SignedBundle
  <2>2. /\ mempool' = mempool \cup {Signed(c)} /\ Return(c)
        /\ held' = held \cup {Signed(c).content} /\ lost' = lost \ {Signed(c).content}
        /\ UNCHANGED <<tips, origins, melted, forks, undone, ends>>
    BY <1>5 DEF Accepted, Takes
  <2>3. held' \subseteq Content /\ lost' \subseteq Content
    BY <1>0, <2>1, <2>2 DEF TypeOK
  <2> QED BY <2>2, <2>3, PushingSteps
<1>6. ASSUME NEW c \in Callers, Unanswered(c) PROVE IInv'
  <2>1. Signed(c).content \in Content
    BY SignedBundle
  <2>2. /\ mempool' \subseteq mempool \cup {Signed(c)} /\ Return(c)
        /\ held' = held /\ lost' = (lost \cup {Signed(c).content}) \ held
        /\ UNCHANGED <<tips, origins, melted, forks, undone, ends>>
    BY <1>6 DEF Unanswered, Takes
  <2>3. held' \subseteq Content /\ lost' \subseteq Content
    BY <1>0, <2>1, <2>2 DEF TypeOK
  <2> QED BY <2>2, <2>3, PushingSteps
<1>7. ASSUME NEW c \in Callers, Rejected(c) PROVE IInv'
  BY <1>0, <1>7, Returns, ReadingSteps DEF Rejected
<1> QED BY <1>1, <1>2, <1>3, <1>4, <1>5, <1>6, <1>7 DEF Editing

(* The melter's steps.                                                     *)
LEMMA EndingIInv ==
  ASSUME IInv, Ending
  PROVE  IInv'
<1>0. TypeOK
  BY DEF IInv
<1>1. melt' \in [at : {"none", "planning", "pushing", "pushed", "polling"}, pin : Seq(Content)]
  <2>2. CASE PlanStore
    <3>1. PICK tip \in Resolved : melt' = [at |-> "pushing", pin |-> tip]
      BY <2>2 DEF PlanStore
    <3>2. tip \in Seq(Content)
      BY <1>0, TipsAreRead
    <3> QED BY <3>1, <3>2
  <2>3. CASE ~PlanStore
    <3>1. \/ melt' = [at |-> "planning", pin |-> <<>>] \/ melt' = [at |-> "none", pin |-> <<>>]
          \/ melt' = [melt EXCEPT !.at = "pushed"] \/ melt' = [melt EXCEPT !.at = "polling"]
      BY <2>3 DEF Ending, PlanDid, MeltAccepted, MeltUnanswered, MeltGivenUp, PollDid, PollStore,
         NoMelt
    <3>2. melt \in [at : {"none", "planning", "pushing", "pushed", "polling"},
                   pin : Seq(Content)]
      BY <1>0 DEF TypeOK
    <3>3. <<>> \in Seq(Content)
      OBVIOUS
    <3>4. \A w \in {"none", "planning", "pushing", "pushed", "polling"} :
            /\ [at |-> w, pin |-> <<>>]
                 \in [at : {"none", "planning", "pushing", "pushed", "polling"},
                      pin : Seq(Content)]
            /\ [melt EXCEPT !.at = w]
                 \in [at : {"none", "planning", "pushing", "pushed", "polling"},
                      pin : Seq(Content)]
      BY <3>2, <3>3
    <3>5. CASE melt' = [at |-> "planning", pin |-> <<>>]
      BY <3>4, <3>5
    <3>6. CASE melt' = [at |-> "none", pin |-> <<>>]
      BY <3>4, <3>6
    <3>7. CASE melt' = [melt EXCEPT !.at = "pushed"]
      BY <3>4, <3>7
    <3>8. CASE melt' = [melt EXCEPT !.at = "polling"]
      BY <3>4, <3>8
    <3> QED BY <3>1, <3>5, <3>6, <3>7, <3>8
  <2> QED BY <2>2, <2>3
<1>2. PlannedHasATip'
  <2>1. CASE PlanStore
    BY <1>0, <2>1, TipsAreRead DEF PlanStore, PlannedHasATip
  <2>2. CASE ~PlanStore
    BY <1>0, <2>2 DEF Ending, PlanDid, MeltAccepted, MeltUnanswered, MeltGivenUp, PollDid,
       PollStore, NoMelt, TypeOK, IInv, PlannedHasATip
  <2> QED BY <2>1, <2>2
<1>3. PollsTheMelted' /\ EndedUnlessForked'
  BY <1>0 DEF Ending, PlanDid, PlanStore, MeltAccepted, MeltUnanswered, MeltGivenUp, PollDid,
     PollStore, NoMelt, TypeOK, IInv, PollsTheMelted, EndedUnlessForked, DidReadsSpent, chain
<1>4. UNCHANGED <<tips, origins, melted, forks, undone, call, held, lost>>
  BY DEF Ending, PlanDid, PlanStore, MeltAccepted, MeltUnanswered, MeltGivenUp, PollDid,
     PollStore, chain, edits
<1>5. \A b \in mempool' \ mempool : b = MeltBundle /\ melt.at = "pushing"
  BY DEF Ending, PlanDid, PlanStore, MeltAccepted, MeltUnanswered, MeltGivenUp, PollDid,
     PollStore, chain, Takes
<1>6. MeltBundle \in Bundle /\ MeltBundle.kind = "melt" /\ MeltBundle.on = melt.pin
  BY <1>0 DEF MeltBundle, Bundle, TypeOK
<1>7. mempool' \subseteq Bundle /\ WaitingEdits' \subseteq WaitingEdits /\ WaitingHasATip'
  <2>1. \A b \in mempool' \ mempool : b \in Bundle /\ b.kind = "melt" /\ b.on # <<>>
    BY <1>5, <1>6 DEF IInv, PlannedHasATip
  <2> QED BY <1>0, <2>1 DEF TypeOK, WaitingEdits, IInv, WaitingHasATip
<1>8. ended' \in BOOLEAN
  BY <1>0 DEF TypeOK, Ending, PlanDid, PlanStore, MeltAccepted, MeltUnanswered, MeltGivenUp,
     PollDid, PollStore, chain
<1>9. TypeOK'
  BY <1>0, <1>1, <1>4, <1>7, <1>8 DEF TypeOK
<1>10. /\ OnlyALostAnswerOrphansContent' /\ EditsKeepOtherSlots' /\ SignedHasATip'
       /\ OnlyTheFirstIsMinted'
  BY <1>4 DEF IInv, OnlyALostAnswerOrphansContent, EditsKeepOtherSlots, SignedHasATip,
     OnlyTheFirstIsMinted
<1>11. WaitingIsAccountedFor' /\ WaitingKeepsOtherSlots'
  BY <1>4, <1>7 DEF IInv, WaitingIsAccountedFor, WaitingKeepsOtherSlots, ChangesOneSlot
<1> QED BY <1>2, <1>3, <1>7, <1>9, <1>10, <1>11 DEF IInv

(* A block.                                                                *)
LEMMA IncludeIInv ==
  ASSUME IInv, NEW b \in mempool, IncludeEdit(b) \/ IncludeMelt(b)
  PROVE  IInv'
<1>0. TypeOK
  BY DEF IInv
<1>1. UNCHANGED <<forks, undone, call, held, lost, melt, ended>> /\ mempool' \subseteq mempool
  BY DEF IncludeEdit, IncludeMelt, Surviving, edits, ends
<1>2. /\ WaitingEdits' \subseteq WaitingEdits /\ WaitingHasATip' /\ SignedHasATip' /\ PlannedHasATip'
      /\ mempool' \subseteq Bundle
  BY <1>0, <1>1 DEF WaitingEdits, IInv, WaitingHasATip, SignedHasATip, PlannedHasATip, TypeOK
<1>3. WaitingIsAccountedFor' /\ WaitingKeepsOtherSlots'
  BY <1>1, <1>2 DEF IInv, WaitingIsAccountedFor, WaitingKeepsOtherSlots, ChangesOneSlot
<1>4. EndedUnlessForked' /\ PollsTheMelted'
  BY <1>1 DEF IInv, EndedUnlessForked, PollsTheMelted, IncludeEdit, IncludeMelt
<1>5. CASE IncludeEdit(b)
  <2>1. /\ b \in WaitingEdits /\ b \in Bundle /\ b.on = tips /\ melted' = melted
        /\ tips' = Append(tips, b.content) /\ origins' = Append(origins, b.kind)
    BY <1>0, <1>5 DEF IncludeEdit, WaitingEdits, TypeOK
  <2>2. b.content \in Content /\ b.kind \in {"edit", "blind"} /\ b.content \in held \cup lost
    BY <2>1 DEF Bundle, WaitingEdits, IInv, WaitingIsAccountedFor
  <2>3. /\ tips \in Seq(Content) /\ Len(tips) \in Nat \ {0}
        /\ origins \in Seq(Origins) /\ Len(origins) = Len(tips)
    BY <1>0 DEF TypeOK
  <2>4. /\ tips' \in Seq(Content) /\ Len(tips') = Len(tips) + 1
        /\ origins' \in Seq(Origins) /\ Len(origins') = Len(tips) + 1
        /\ \A n \in 1 .. Len(tips) : tips'[n] = tips[n] /\ origins'[n] = origins[n]
        /\ tips'[Len(tips) + 1] = b.content /\ origins'[Len(tips) + 1] = b.kind
    BY <2>1, <2>2, <2>3 DEF Origins
  <2>5. TypeOK'
    BY <1>0, <1>1, <1>2, <2>1, <2>3, <2>4 DEF TypeOK
  <2>6. OnlyALostAnswerOrphansContent'
    BY <1>1, <2>2, <2>3, <2>4 DEF IInv, OnlyALostAnswerOrphansContent
  <2>7. EditsKeepOtherSlots'
    <3> SUFFICES ASSUME NEW n \in 2 .. Len(tips'), origins'[n] = "edit"
                 PROVE  ChangesOneSlot(tips'[n - 1], tips'[n])
      BY DEF EditsKeepOtherSlots, ChangesOneSlot
    <3>1. CASE n = Len(tips) + 1
      <4>1. ChangesOneSlot(Last(b.on), b.content)
        BY <2>1, <2>4, <3>1 DEF IInv, WaitingKeepsOtherSlots
      <4>2. Last(b.on) = tips'[n - 1]
        BY <2>1, <2>3, <2>4, <3>1 DEF Last
      <4> QED BY <2>4, <3>1, <4>1, <4>2
    <3>2. CASE n # Len(tips) + 1
      <4>1. n \in 2 .. Len(tips) /\ n - 1 \in 1 .. Len(tips) /\ n \in 1 .. Len(tips)
        BY <2>3, <2>4, <3>2
      <4>2. tips'[n] = tips[n] /\ tips'[n - 1] = tips[n - 1] /\ origins'[n] = origins[n]
        BY <2>4, <4>1
      <4> QED BY <4>1, <4>2 DEF IInv, EditsKeepOtherSlots, ChangesOneSlot
    <3> QED BY <3>1, <3>2
  <2>8. OnlyTheFirstIsMinted'
    <3> SUFFICES ASSUME NEW n \in 2 .. Len(tips') PROVE origins'[n] \in {"edit", "blind"}
      BY DEF OnlyTheFirstIsMinted
    <3>1. n = Len(tips) + 1 \/ (n \in 2 .. Len(tips) /\ n \in 1 .. Len(tips))
      BY <2>3, <2>4
    <3> QED BY <2>2, <2>4, <3>1 DEF IInv, OnlyTheFirstIsMinted
  <2> QED BY <1>2, <1>3, <1>4, <2>5, <2>6, <2>7, <2>8 DEF IInv
<1>6. CASE IncludeMelt(b)
  <2>1. UNCHANGED <<tips, origins>> /\ melted' = TRUE
    BY <1>6 DEF IncludeMelt
  <2>2. TypeOK'
    BY <1>0, <1>1, <1>2, <2>1 DEF TypeOK
  <2>3. OnlyALostAnswerOrphansContent' /\ EditsKeepOtherSlots' /\ OnlyTheFirstIsMinted'
    BY <1>1, <2>1
    DEF IInv, OnlyALostAnswerOrphansContent, EditsKeepOtherSlots, OnlyTheFirstIsMinted
  <2> QED BY <1>2, <1>3, <1>4, <2>2, <2>3 DEF IInv
<1> QED BY <1>5, <1>6

(* A fork undoes an edit: its bundle waits on the tip it was made for.     *)
LEMMA ForkEditIInv ==
  ASSUME IInv, ForkEdit
  PROVE  IInv'
<1>0. TypeOK
  BY DEF IInv
<1> DEFINE l == Len(tips)
<1>a. l > 1 /\ tips' = Front(tips) /\ origins' = Front(origins)
  BY DEF ForkEdit
<1>b. /\ tips \in Seq(Content) /\ l \in Nat \ {0}
      /\ origins \in Seq(Origins) /\ Len(origins) = l
  BY <1>0 DEF TypeOK
<1>1. l \in Nat /\ l > 1 /\ l \in 2 .. l /\ l \in 1 .. l /\ l - 1 \in 1 .. l
  BY <1>a, <1>b
<1>2. /\ tips' \in Seq(Content) /\ Len(tips') = l - 1
      /\ origins' \in Seq(Origins) /\ Len(origins') = l - 1
      /\ \A n \in 1 .. l - 1 : tips'[n] = tips[n] /\ origins'[n] = origins[n]
  BY <1>a, <1>b, <1>1 DEF Front
<1>3. UNCHANGED <<melted, undone, call, held, lost, melt, ended>> /\ forks' \in 0 .. MaxForks
  BY <1>0, ProfileStoreAssumption DEF ForkEdit, edits, ends, TypeOK
<1> DEFINE back == [kind |-> Last(origins), on |-> Front(tips), content |-> Last(tips)]
<1>4. mempool' \subseteq mempool \cup {back}
  BY DEF ForkEdit
<1>5. back.kind = origins[l] /\ back.on = tips' /\ back.content = tips[l]
  BY <1>a, <1>b DEF Last
<1>6. back.kind \in {"edit", "blind"} /\ back.content \in Content
  BY <1>b, <1>1, <1>5 DEF IInv, OnlyTheFirstIsMinted
<1>7. tips' # <<>> /\ Last(tips') = tips[l - 1]
  BY <1>1, <1>2 DEF Last
<1>8. back.content \in held \cup lost
  BY <1>1, <1>5 DEF IInv, OnlyALostAnswerOrphansContent
<1>9. ASSUME back.kind = "edit" PROVE ChangesOneSlot(Last(back.on), back.content)
  <2>1. ChangesOneSlot(tips[l - 1], tips[l])
    BY <1>1, <1>5, <1>9 DEF IInv, EditsKeepOtherSlots, ChangesOneSlot
  <2> QED BY <1>5, <1>7, <2>1
<1>10. back \in Bundle
  BY <1>2, <1>5, <1>6 DEF Bundle
<1>11. back.on # <<>>
  BY <1>5, <1>7
<1> HIDE DEF back
<1>12. TypeOK'
  <2>1. mempool' \subseteq Bundle
    BY <1>0, <1>4, <1>10 DEF TypeOK
  <2>2. Len(tips') \in Nat \ {0} /\ Len(origins') = Len(tips')
    BY <1>1, <1>2
  <2> QED BY <1>0, <1>2, <1>3, <2>1, <2>2 DEF TypeOK
<1>13. OnlyALostAnswerOrphansContent' /\ EditsKeepOtherSlots' /\ OnlyTheFirstIsMinted'
  <2>1. \A n \in 1 .. Len(tips') : n \in 1 .. l /\ tips'[n] = tips[n] /\ origins'[n] = origins[n]
    BY <1>1, <1>2
  <2>2. \A n \in 2 .. Len(tips') : n \in 2 .. l /\ tips'[n] = tips[n] /\ tips'[n - 1] = tips[n - 1]
                                  /\ origins'[n] = origins[n]
    BY <1>1, <1>2
  <2>3. OnlyALostAnswerOrphansContent'
    BY <1>3, <2>1 DEF IInv, OnlyALostAnswerOrphansContent
  <2>4. EditsKeepOtherSlots'
    <3> SUFFICES ASSUME NEW n \in 2 .. Len(tips'), origins'[n] = "edit"
                 PROVE  ChangesOneSlot(tips'[n - 1], tips'[n])
      BY DEF EditsKeepOtherSlots, ChangesOneSlot
    <3>1. n \in 2 .. l /\ origins[n] = "edit" /\ tips'[n] = tips[n] /\ tips'[n - 1] = tips[n - 1]
      BY <2>2
    <3>2. ChangesOneSlot(tips[n - 1], tips[n])
      BY <3>1 DEF IInv, EditsKeepOtherSlots, ChangesOneSlot
    <3> QED BY <3>1, <3>2
  <2>5. OnlyTheFirstIsMinted'
    BY <2>2 DEF IInv, OnlyTheFirstIsMinted
  <2> QED BY <2>3, <2>4, <2>5
<1>14. WaitingIsAccountedFor'
  BY <1>3, <1>4, <1>8 DEF IInv, WaitingIsAccountedFor, WaitingEdits
<1>15. WaitingKeepsOtherSlots'
  BY <1>4, <1>9 DEF IInv, WaitingKeepsOtherSlots, WaitingEdits, ChangesOneSlot
<1>16. WaitingHasATip' /\ SignedHasATip' /\ PlannedHasATip'
  BY <1>3, <1>4, <1>11 DEF IInv, WaitingHasATip, SignedHasATip, PlannedHasATip
<1>17. EndedUnlessForked' /\ PollsTheMelted'
  BY <1>3 DEF IInv, EndedUnlessForked, PollsTheMelted
<1> QED BY <1>12, <1>13, <1>14, <1>15, <1>16, <1>17 DEF IInv

(* A fork undoes the deletion.                                             *)
LEMMA ForkMeltIInv ==
  ASSUME IInv, ForkMelt
  PROVE  IInv'
<1>0. TypeOK
  BY DEF IInv
<1> DEFINE back == [kind |-> "melt", on |-> tips]
<1>1. /\ UNCHANGED <<tips, origins, call, held, lost, melt, ended>>
      /\ melted' = FALSE /\ undone' = TRUE
      /\ mempool' \subseteq mempool \cup {back}
  BY DEF ForkMelt, edits, ends
<1>2. forks' \in 0 .. MaxForks
  BY <1>0, ProfileStoreAssumption DEF ForkMelt, TypeOK
<1>3. back \in Bundle /\ back.kind = "melt" /\ back.on # <<>>
  BY <1>0 DEF Bundle, TypeOK
<1> HIDE DEF back
<1>4. TypeOK'
  BY <1>0, <1>1, <1>2, <1>3 DEF TypeOK
<1>5. WaitingEdits' \subseteq WaitingEdits
  BY <1>1, <1>3 DEF WaitingEdits
<1>6. WaitingIsAccountedFor' /\ WaitingKeepsOtherSlots'
  BY <1>1, <1>5 DEF IInv, WaitingIsAccountedFor, WaitingKeepsOtherSlots, ChangesOneSlot
<1>7. WaitingHasATip' /\ SignedHasATip' /\ PlannedHasATip'
  BY <1>1, <1>3 DEF IInv, WaitingHasATip, SignedHasATip, PlannedHasATip
<1>8. OnlyALostAnswerOrphansContent' /\ EditsKeepOtherSlots' /\ OnlyTheFirstIsMinted'
  BY <1>1 DEF IInv, OnlyALostAnswerOrphansContent, EditsKeepOtherSlots, OnlyTheFirstIsMinted
<1>9. EndedUnlessForked' /\ PollsTheMelted'
  BY <1>1 DEF EndedUnlessForked, PollsTheMelted
<1> QED BY <1>4, <1>6, <1>7, <1>8, <1>9 DEF IInv

(***************************************************************************)
(* The theorems                                                            *)
(***************************************************************************)
(* The minted store, no calls: the invariant holds at first.               *)
LEMMA InitIInv == Init => IInv
<1> SUFFICES ASSUME Init PROVE IInv
  OBVIOUS
<1> USE ProfileStoreAssumption
<1>1. /\ tips = <<Minted>> /\ origins = <<"mint">> /\ Len(tips) = 1 /\ tips[1] = Minted
      /\ mempool = {} /\ held = {Minted} /\ lost = {} /\ WaitingEdits = {}
  BY DEF Init, WaitingEdits
<1>2. Idle \in [at : {"idle", "read", "signed"}, base : Content, on : Seq(Content)]
  BY DEF Idle
<1>3. Idle.on # <<>>
  BY DEF Idle
<1>4. call = [c \in Callers |-> Idle] /\ melt = NoMelt /\ ended = FALSE /\ undone = FALSE
  BY DEF Init
<1> HIDE DEF Idle
<1>5. TypeOK
  <2>1. /\ tips \in Seq(Content) /\ origins \in Seq(Origins) /\ Len(origins) = 1
        /\ held \subseteq Content
    BY <1>1 DEF Origins
  <2>2. call \in [Callers -> [at : {"idle", "read", "signed"}, base : Content, on : Seq(Content)]]
    BY <1>2, <1>4
  <2>3. melt \in [at : {"none", "planning", "pushing", "pushed", "polling"}, pin : Seq(Content)]
    BY <1>4 DEF NoMelt
  <2>4. forks \in 0 .. MaxForks /\ melted \in BOOLEAN
    <3>1. forks = 0 /\ melted = FALSE
      BY DEF Init
    <3>2. 0 \in 0 .. MaxForks
      OBVIOUS
    <3> QED BY <3>1, <3>2
  <2>5. Len(tips) \in Nat \ {0} /\ Len(origins) = Len(tips)
    BY <1>1, <2>1
  <2>6. mempool \subseteq Bundle /\ lost \subseteq Content
    BY <1>1
  <2>7. undone \in BOOLEAN /\ ended \in BOOLEAN
    BY <1>4
  <2> QED BY <2>1, <2>2, <2>3, <2>4, <2>5, <2>6, <2>7 DEF TypeOK
<1>6. SignedHasATip
  BY <1>3, <1>4 DEF SignedHasATip
<1>7. /\ OnlyALostAnswerOrphansContent /\ WaitingIsAccountedFor /\ WaitingHasATip
      /\ EditsKeepOtherSlots /\ WaitingKeepsOtherSlots /\ OnlyTheFirstIsMinted
  BY <1>1
  DEF OnlyALostAnswerOrphansContent, WaitingIsAccountedFor, EditsKeepOtherSlots,
      WaitingKeepsOtherSlots, OnlyTheFirstIsMinted, WaitingHasATip
<1>8. PlannedHasATip /\ EndedUnlessForked /\ PollsTheMelted
  BY <1>4 DEF PlannedHasATip, EndedUnlessForked, PollsTheMelted, NoMelt
<1> QED BY <1>5, <1>6, <1>7, <1>8 DEF IInv

(* Every step of the system keeps it.                                      *)
LEMMA NextIInv == IInv /\ [Next]_vars => IInv'
<1> SUFFICES ASSUME IInv, [Next]_vars PROVE IInv'
  OBVIOUS
<1>1. CASE UNCHANGED vars
  <2>1. UNCHANGED <<chain, held, lost, ends, call>>
    BY <1>1 DEF vars, edits
  <2>2. SignedHasATip' /\ call' = call
    BY <2>1 DEF IInv, SignedHasATip
  <2> QED BY <2>1, <2>2, ReadingSteps DEF IInv, TypeOK
<1> QED
  BY <1>1, EditingIInv, EndingIInv, IncludeIInv, ForkEditIInv, ForkMeltIInv DEF Next, Chain

(* The inductive invariant holds of every behaviour.                       *)
THEOREM Invariance == Spec => []IInv
  BY InitIInv, NextIInv, PTL DEF Spec

(* The chain, the calls, the bodies and the deletion keep their types.     *)
THEOREM TypeCorrect == Spec => []TypeOK
  BY Invariance, PTL DEF IInv

(* What the store commits can be read back, unless its own push was not    *)
(* answered.                                                               *)
THEOREM ContentIsRecoverable == Spec => []OnlyALostAnswerOrphansContent
  BY Invariance, PTL DEF IInv

(* An edit that landed on the tip it was computed from kept every other    *)
(* slot of it.                                                             *)
THEOREM OtherSlotsAreKept == Spec => []EditsKeepOtherSlots
  BY Invariance, PTL DEF IInv

(* A profile recorded as ended has ended, as long as no fork undid it.     *)
THEOREM RecordedEndsAreReal == Spec => []EndedUnlessForked
  BY Invariance, PTL DEF IInv
(***************************************************************************)
(* A body that is edited                                                   *)
(***************************************************************************)
(* What the preview of a batch showed is what its commit makes a person    *)
(* see, and the slots that the batch does not name stay what they were,    *)
(* whatever they hold (ProfileEdit::preview, slot_edits, commit_edit).     *)
THEOREM PreviewIsCommitted ==
  ASSUME NEW body, NEW edit, DOMAIN edit \subseteq Named,
         NEW next \in CommitEdit(edit, body).of
  PROVE  /\ Fields(next) = Preview(edit, Fields(body))
         /\ \A s : s \notin DOMAIN edit =>
              /\ s \in DOMAIN next <=> s \in DOMAIN body
              /\ s \in DOMAIN next => next[s] = body[s]
<1> DEFINE shown == Fields(body)
           kept  == (DOMAIN body \cup DOMAIN edit) \ Removed(edit)
<1>1. next = Applied(edit, body)
  BY Zenon DEF CommitEdit, Committing, Answer, Refused
<1>2. /\ DOMAIN next = kept
      /\ \A s \in kept : next[s] = IF s \in DOMAIN edit THEN Utf8(edit[s]) ELSE body[s]
  BY <1>1 DEF Applied
<1>3. /\ DOMAIN shown = {t \in Named \cap DOMAIN body : body[t][1] = "utf8"}
      /\ \A s \in DOMAIN shown : shown[s] = body[s][2]
  BY DEF Fields
<1>4. \A s : Utf8(s)[1] = "utf8" /\ Utf8(s)[2] = s
  BY DEF Utf8
<1> HIDE DEF shown
<1>5. {t \in Named \cap kept : next[t][1] = "utf8"}
        = (DOMAIN shown \cup DOMAIN edit) \ Removed(edit)
  BY <1>2, <1>3, <1>4
<1>6. \A s \in (DOMAIN shown \cup DOMAIN edit) \ Removed(edit) :
        next[s][2] = IF s \in DOMAIN edit THEN edit[s] ELSE shown[s]
  BY <1>2, <1>3, <1>4
<1>7. Fields(next) = Preview(edit, shown)
  BY <1>2, <1>5, <1>6 DEF Fields, Preview
<1>8. \A s : s \notin DOMAIN edit =>
        /\ s \in DOMAIN next <=> s \in DOMAIN body
        /\ s \in DOMAIN next => next[s] = body[s]
  BY <1>2 DEF Removed
<1> QED BY <1>7, <1>8 DEF shown


(* What a batch keeps of its changes: each names a slot and holds a text or *)
(* takes the slot away.                                                    *)
LEMMA EditsNameSlots ==
  ASSUME NEW edit \in Edits
  PROVE  DOMAIN edit \subseteq Named /\ (DOMAIN edit = {} <=> edit = <<>>)
<1>1. PICK changes \in SeqOf(Changes, 3) : edit = ProfileEdit(changes)
  BY DEF Edits
<1>2. \A i \in DOMAIN changes : changes[i] \in Changes
  BY DEF SeqOf
<1>3. \A i \in DOMAIN changes : changes[i][1] \in Named
  BY <1>2 DEF Changes
<1>4. DOMAIN edit = {changes[i][1] : i \in DOMAIN changes}
  BY <1>1 DEF ProfileEdit
<1>5. edit = [s \in DOMAIN edit |-> edit[s]]
  BY <1>1 DEF ProfileEdit
<1>6. DOMAIN <<>> = {} /\ <<>> = [s \in {} |-> edit[s]]
  OBVIOUS
<1> QED BY <1>3, <1>4, <1>5, <1>6

(* An edit never takes a body's readability away, and is refused when it   *)
(* changes nothing (commit_edit).                                          *)
LEMMA EveryEditIsTrue ==
  ASSUME SchemaVersion \notin Named
  PROVE  EditsAreTrue
<1>1. ASSUME NEW body \in Bodies, NEW edit \in Edits
      PROVE  LET r == CommitEdit(edit, body)
             IN  /\ r.verdict = "Refused" <=> edit = <<>>
                 /\ \A next \in r.of :
                      /\ Fields(next) = Preview(edit, Fields(body))
                      /\ \A s \in AllSlots \ DOMAIN edit :
                           /\ s \in DOMAIN next <=> s \in DOMAIN body
                           /\ s \in DOMAIN body => next[s] = body[s]
                      /\ IsReadable(next) <=> IsReadable(body)
                      /\ r.verdict = "Confirmed" <=> next = body
  <2> DEFINE r == CommitEdit(edit, body)
  <2>1. DOMAIN edit \subseteq Named /\ (DOMAIN edit = {} <=> edit = <<>>)
    BY EditsNameSlots
  <2>2. SchemaVersion \notin Removed(edit)
    BY <2>1 DEF Removed
  <2>3. r = IF DOMAIN edit = {} THEN Refused("Refused") ELSE Committing(Applied(edit, body), body)
    BY <2>2, Zenon DEF CommitEdit
  <2>4. r.verdict = "Refused" <=> edit = <<>>
    BY <2>1, <2>3 DEF Refused, Committing, Answer
  <2>5. ASSUME NEW next \in r.of
        PROVE  /\ Fields(next) = Preview(edit, Fields(body))
               /\ \A s \in AllSlots \ DOMAIN edit :
                    /\ s \in DOMAIN next <=> s \in DOMAIN body
                    /\ s \in DOMAIN body => next[s] = body[s]
               /\ IsReadable(next) <=> IsReadable(body)
               /\ r.verdict = "Confirmed" <=> next = body
    <3>1. /\ Fields(next) = Preview(edit, Fields(body))
          /\ \A s : s \notin DOMAIN edit =>
               /\ s \in DOMAIN next <=> s \in DOMAIN body
               /\ s \in DOMAIN next => next[s] = body[s]
      BY <2>1, PreviewIsCommitted, Zenon
    <3>2. IsReadable(next) <=> IsReadable(body)
      BY <2>1, <3>1 DEF IsReadable
    <3>3. r = Committing(Applied(edit, body), body) /\ next = Applied(edit, body)
      <4>1. CASE DOMAIN edit = {}
        BY <2>3, <4>1 DEF Refused, Answer
      <4>2. CASE DOMAIN edit # {}
        BY <2>3, <4>2 DEF Committing, Answer
      <4> QED BY <4>1, <4>2
    <3>4. r.verdict = "Confirmed" <=> next = body
      BY <3>3 DEF Committing, Answer
    <3> QED BY <3>1, <3>2, <3>4
  <2> QED BY <2>4, <2>5
<1>2. ASSUME NEW body \in Bodies, NEW next \in PublishProfile(body, Bare).of
      PROVE  next[SchemaVersion] = V2
  <2>1. IsReadable(body) /\ next = body
    BY DEF PublishProfile, Committing, Answer, Refused
  <2>2. body[SchemaVersion] \in AllValues /\ body[SchemaVersion][1] = "u16"
    BY <2>1 DEF IsReadable, Bodies
  <2> QED BY <2>1, <2>2 DEF AllValues, Utf8
<1> QED BY <1>1, <1>2 DEF EditsAreTrue

(* The first n natural numbers are n.                                      *)
LEMMA UpTo ==
  ASSUME NEW n \in Nat
  PROVE  IsFiniteSet(1 .. n) /\ Cardinality(1 .. n) = n
BY FS_Interval

(* A body is read as its root commits it, and a body that has every slot   *)
(* once is read (read_profile).                                            *)
LEMMA EveryReadIsTrue == ReadsAreTrue
<1>1. ASSUME NEW pairs \in SeqOf(Pairs \cup {<<SchemaVersion, Undecodable>>}, 3), NEW root
      PROVE  ReadProfile(root, pairs).of \subseteq {root}
  BY DEF ReadProfile, Refused, Answer
<1>2. ASSUME NEW pairs \in Seq(Pairs), pairs # <<>>,
             Cardinality({p[1] : p \in ToSet(pairs)}) = Len(pairs)
      PROVE  ReadProfile(Assembled(pairs), pairs) = Answer("read", Assembled(pairs))
  <2> DEFINE slots == {p[1] : p \in ToSet(pairs)}
             slot  == [i \in 1 .. Len(pairs) |-> pairs[i][1]]
  <2>1. DOMAIN pairs = 1 .. Len(pairs) /\ Len(pairs) \in Nat
        /\ \A i \in 1 .. Len(pairs) : pairs[i] \in Pairs
    OBVIOUS
  <2>2. slot \in Surjection(1 .. Len(pairs), slots)
    BY <2>1 DEF Surjection, ToSet
  <2>3. IsFiniteSet(1 .. Len(pairs)) /\ Cardinality(1 .. Len(pairs)) = Len(pairs)
    BY <2>1, UpTo
  <2>4. slot \in Injection(1 .. Len(pairs), slots)
    BY <1>2, <2>2, <2>3, FS_SurjSameCardinalityImpliesInj
  <2>5. \A i, j \in DOMAIN pairs : pairs[i][1] = pairs[j][1] => i = j
    BY <2>1, <2>4 DEF Injection, IsInjective
  <2>6. \A i \in DOMAIN pairs : pairs[i][2] # Undecodable
    <3>0. (\A t : Utf8(t)[1] = "utf8") /\ V2[1] = "u16" /\ Undecodable[1] = "undecodable"
      BY DEF Utf8, V2, Undecodable
    <3>1. \A v \in {Utf8(t) : t \in Texts} \cup {V2} : v # Undecodable
      BY <3>0
    <3>2. \A p \in Pairs : p[2] \in {Utf8(t) : t \in Texts} \cup {V2}
      BY DEF Pairs
    <3> QED BY <2>1, <3>1, <3>2
  <2>7. Assembles(pairs)
    BY <1>2, <2>5, <2>6 DEF Assembles
  <2> QED BY <2>7 DEF ReadProfile
<1> QED BY <1>1, <1>2 DEF ReadsAreTrue

(* A deletion spends the two singletons its preview names, the wallet's    *)
(* own and unspent, whichever a source answers with (plan_melt).           *)
LEMMA EveryDeletionIsTrue == DeletionsAreTrue
<1> SUFFICES ASSUME NEW did \in DidTips \cup {NoTip, NoAnswer},
                    NEW store \in StoreTips \cup {NoTip, NoAnswer}
             PROVE  LET r == PlanMelt("wallet", Anchor, did, store)
                        sound == /\ did \in DidTips /\ store \in StoreTips
                                 /\ did.owner = "wallet" /\ did.byName = "unspent"
                                 /\ store.owner = "wallet" /\ store.byName = "unspent"
                                 /\ ~store.delegated
                        named(preview) == /\ did.from = preview.did /\ store.says = preview.store
                                          /\ preview.coins = <<did, store>>
                    IN  /\ \A plan \in r.of : sound /\ named(DeletionPreview(Anchor, plan))
                        /\ sound /\ named(DeletionPreview(Anchor, <<did, store>>))
                             => r.verdict = "planned"
                        /\ r.verdict = "NoDid" => did = NoTip \/ did.byName = "spent"
  BY Zenon DEF DeletionsAreTrue
<1> DEFINE r == PlanMelt("wallet", Anchor, did, store)
           both == did \in DidTips /\ store \in StoreTips
           sound == /\ did.owner = "wallet" /\ did.byName = "unspent"
                    /\ store.owner = "wallet" /\ store.byName = "unspent"
                    /\ ~store.delegated
           ours == did.from = "this did" /\ store.says = "this store"
<1>1. /\ did.found = "coin" => did \in DidTips /\ did.byName \in {"unspent", "spent", "unknown"}
      /\ did.found \in {"coin", "nothing", "failure"}
      /\ did.found = "nothing" => did = NoTip
      /\ did \in DidTips => did.found = "coin"
  <2>1. NoTip.found = "nothing" /\ NoAnswer.found = "failure"
    BY DEF NoTip, NoAnswer
  <2>2. \A tip \in DidTips : tip.found = "coin" /\ tip.byName \in {"unspent", "spent", "unknown"}
    BY DEF DidTips
  <2> QED BY <2>1, <2>2
<1>2. /\ store.found = "coin" => store \in StoreTips /\ store.byName \in {"unspent", "spent", "unknown"}
      /\ store.found \in {"coin", "nothing", "failure"}
      /\ store \in StoreTips => store.found = "coin"
  <2>1. NoTip.found = "nothing" /\ NoAnswer.found = "failure"
    BY DEF NoTip, NoAnswer
  <2>2. \A tip \in StoreTips : tip.found = "coin" /\ tip.byName \in {"unspent", "spent", "unknown"}
    BY DEF StoreTips
  <2> QED BY <2>1, <2>2
<1>3. ASSUME NEW plan \in r.of
      PROVE  plan = <<did, store>> /\ both /\ sound /\ ours
  BY <1>1, <1>2, <1>3 DEF PlanMelt, Refused, Answer, Pins, GateStoreIdentity, Anchor
<1>4. both /\ sound /\ ours => r.verdict = "planned"
  BY <1>1, <1>2 DEF PlanMelt, Refused, Answer, Pins, GateStoreIdentity, Anchor
<1>5. r.verdict = "NoDid" => did = NoTip \/ did.byName = "spent"
  BY <1>1 DEF PlanMelt, Refused, Answer
<1>6. \A plan : LET preview == DeletionPreview(Anchor, plan)
                IN  /\ preview.did = "this did" /\ preview.store = "this store"
                    /\ preview.coins = plan
  BY DEF DeletionPreview, Anchor
<1> HIDE DEF r
<1>7. /\ \A plan \in r.of : both /\ sound /\ did.from = DeletionPreview(Anchor, plan).did
                             /\ store.says = DeletionPreview(Anchor, plan).store
                             /\ DeletionPreview(Anchor, plan).coins = <<did, store>>
      /\ both /\ sound /\ did.from = DeletionPreview(Anchor, <<did, store>>).did
                      /\ store.says = DeletionPreview(Anchor, <<did, store>>).store
           => r.verdict = "planned"
  BY <1>3, <1>4, <1>6
<1> QED BY <1>5, <1>7, Zenon DEF r

(* The largest of some numbers is one of them.                             *)
LEMMA LargestIsOneOf ==
  ASSUME NEW n \in Nat, NEW S \in SUBSET (1 .. n), S # {}
  PROVE  Max(S) \in S /\ \A y \in S : Max(S) >= y
<1> DEFINE over == {m \in Nat : \A y \in S : m >= y}
<1>1. n \in over
  OBVIOUS
<1>2. PICK m \in over : \A k \in over : ~(<<k, m>> \in OpToRel(<, Nat))
  BY <1>1, NatLessThanWellFounded, WFMin
<1>3. \A k \in over : ~(k < m)
  BY <1>2 DEF OpToRel
<1>0. /\ m \in Nat /\ \A y \in S : m >= y
      /\ \A y \in S : y \in Nat /\ 1 <= y
  <2>1. \A y \in 1 .. n : y \in Nat /\ 1 <= y
    OBVIOUS
  <2> QED BY <1>2, <2>1
<1>4. m \in S
  <2>1. SUFFICES ASSUME m \notin S
                 PROVE  FALSE
    OBVIOUS
  <2>2. \A y \in S : m > y
    BY <1>0, <2>1
  <2>3. \A y \in S : m - 1 >= y
    BY <1>0, <2>2
  <2>4. m - 1 \in Nat
    <3>1. PICK y \in S : TRUE
      OBVIOUS
    <3> QED BY <1>0, <3>1
  <2> QED BY <1>0, <1>3, <2>3, <2>4
<1>5. \A y \in S : m >= y
  BY <1>2
<1> QED BY <1>4, <1>5, Zenon DEF Max

(* The last change of each slot among those at the places P, a batch when  *)
(* P is all of them.                                                       *)
Lately(sets, P, s) ==
  CHOOSE i \in P : sets[i][1] = s /\ \A j \in P : sets[j][1] = s => j <= i

EditOf(sets, P) == [s \in {sets[i][1] : i \in P} |-> sets[Lately(sets, P, s)][2]]

(* A seed sets one slot after the other, the batch keeps the last change   *)
(* of each.                                                                *)
LEMMA EverySeedIsAnEdit ==
  ASSUME Removal \notin Texts
  PROVE  SeedsAreEdits
<1> SUFFICES ASSUME NEW sets \in SeqOf(Named \X Texts, 3)
             PROVE  Seed(sets) = Applied(ProfileEdit(sets), Bare)
  BY DEF SeedsAreEdits
<1> DEFINE all       == DOMAIN sets
           set(b, i) == [s \in DOMAIN b \cup {sets[i][1]} |->
                           IF s = sets[i][1] THEN Utf8(sets[i][2]) ELSE b[s]]
           done(P)   == Applied(EditOf(sets, P), Bare)
           Folds(g)  == g = [P \in SUBSET all |->
                               IF P = {} THEN Bare ELSE set(g[P \ {Max(P)}], Max(P))]
           fold      == CHOOSE g : Folds(g)
<1>1. /\ \E n \in Nat : all = 1 .. n
      /\ \A i \in all : sets[i] \in Named \X Texts
  BY DEF SeqOf
<1>2. /\ \A i \in all : sets[i][1] \in Named /\ sets[i][2] \in Texts
      /\ \A i, j \in all : i \in Int /\ j \in Int
  BY <1>1
<1>3. ASSUME NEW P \in SUBSET all, P # {}
      PROVE  Max(P) \in P /\ \A y \in P : Max(P) >= y
  BY <1>1, <1>3, LargestIsOneOf
<1>4. ASSUME NEW P \in SUBSET all, NEW s \in {sets[i][1] : i \in P}
      PROVE  /\ Lately(sets, P, s) \in P /\ sets[Lately(sets, P, s)][1] = s
             /\ \A j \in P : sets[j][1] = s => j <= Lately(sets, P, s)
             /\ \A i \in P : sets[i][1] = s /\ (\A j \in P : sets[j][1] = s => j <= i)
                  => i = Lately(sets, P, s)
  <2> DEFINE of == {i \in P : sets[i][1] = s}
  <2>1. Max(of) \in of /\ \A y \in of : Max(of) >= y
    BY <1>3
  <2>2. \E i \in P : sets[i][1] = s /\ \A j \in P : sets[j][1] = s => j <= i
    BY <1>2, <2>1
  <2>3. LET i == Lately(sets, P, s)
        IN  i \in P /\ sets[i][1] = s /\ \A j \in P : sets[j][1] = s => j <= i
    BY <2>2, Zenon DEF Lately
  <2> QED BY <1>2, <2>3
<1>5. ASSUME NEW P \in SUBSET all
      PROVE  Removed(EditOf(sets, P)) = {} /\ DOMAIN EditOf(sets, P) = {sets[i][1] : i \in P}
  <2>1. \A s \in {sets[i][1] : i \in P} : sets[Lately(sets, P, s)][2] \in Texts
    BY <1>2, <1>4
  <2> QED BY <2>1 DEF Removed, EditOf
<1>6. ASSUME NEW P \in SUBSET all, P # {}
      PROVE  done(P) = set(done(P \ {Max(P)}), Max(P))
  <2> DEFINE last == Max(P)
             rest == P \ {last}
  <2>1. last \in P /\ \A i \in P : i <= last
    BY <1>2, <1>3, <1>6
  <2> HIDE DEF last
  <2>2. /\ DOMAIN EditOf(sets, P) = {sets[i][1] : i \in rest} \cup {sets[last][1]}
        /\ DOMAIN EditOf(sets, rest) = {sets[i][1] : i \in rest}
        /\ Removed(EditOf(sets, P)) = {} /\ Removed(EditOf(sets, rest)) = {}
    BY <1>5, <2>1
  <2>3. Lately(sets, P, sets[last][1]) = last
    BY <1>4, <2>1
  <2>4. ASSUME NEW s \in {sets[i][1] : i \in rest}, s # sets[last][1]
        PROVE  Lately(sets, P, s) = Lately(sets, rest, s)
    <3>1. s \in {sets[i][1] : i \in P}
      BY <2>4
    <3>2. /\ Lately(sets, P, s) \in P /\ sets[Lately(sets, P, s)][1] = s
      BY <1>4, <3>1
    <3>3. \A i \in rest : sets[i][1] = s /\ (\A j \in rest : sets[j][1] = s => j <= i)
                  => i = Lately(sets, rest, s)
      BY <1>4
    <3>4. \A j \in P : sets[j][1] = s => j <= Lately(sets, P, s)
      BY <1>4, <3>1
    <3> QED BY <2>4, <3>2, <3>3, <3>4
  <2>5. \A s \in DOMAIN EditOf(sets, P) :
          EditOf(sets, P)[s] = IF s = sets[last][1] THEN sets[last][2] ELSE EditOf(sets, rest)[s]
    BY <2>2, <2>3, <2>4 DEF EditOf
  <2> QED BY <2>2, <2>5, <2>1 DEF Applied, last
<1>7. Seed(sets) = fold[all]
  BY DEF Seed, FoldLeft, MapThenFoldSet
<1>8. Folds([P \in SUBSET all |-> done(P)])
  <2>1. done({}) = Bare
    BY DEF Applied, EditOf, Removed, Bare
  <2>2. \A P \in SUBSET all : P \ {Max(P)} \in SUBSET all
    OBVIOUS
  <2> HIDE DEF done, set
  <2> QED BY <1>6, <2>1, <2>2
<1>9. ProfileEdit(sets) = EditOf(sets, all)
  BY DEF ProfileEdit, EditOf, Lately
<1>10. ASSUME NEW g, Folds(g)
       PROVE  g[all] = done(all)
  <2> DEFINE wrong == {P \in SUBSET all : g[P] # done(P)}
             less  == StrictSubsetOrdering(all)
  <2>1. SUFFICES ASSUME wrong # {}
                 PROVE  FALSE
    OBVIOUS
  <2>2. IsFiniteSet(all)
    BY <1>1, UpTo
  <2>3. IsWellFoundedOn(less, SUBSET all)
    BY <2>2, FS_StrictSubsetOrderingWellFounded, FS_FiniteSubsetsOfFinite
  <2>4. PICK P \in wrong : \A Q \in wrong : ~(<<Q, P>> \in less)
    BY <2>1, <2>3, WFMin
  <2>5. P # {} /\ P \in SUBSET all
    <3>1. done({}) = Bare
      BY DEF Applied, EditOf, Removed, Bare
    <3> HIDE DEF done, set
    <3> QED BY <1>10, <2>4, <3>1
  <2>6. Max(P) \in P
    BY <1>3, <2>5
  <2>7. P \ {Max(P)} \in SUBSET all /\ P \ {Max(P)} # P
    BY <2>5, <2>6
  <2>8. <<P \ {Max(P)}, P>> \in less
    BY <2>5, <2>7 DEF StrictSubsetOrdering
  <2>9. done(P) = set(done(P \ {Max(P)}), Max(P))
    BY <1>6, <2>5
  <2> HIDE DEF done, set
  <2>10. g[P] = set(g[P \ {Max(P)}], Max(P))
    BY <1>10, <2>5
  <2>11. g[P \ {Max(P)}] = done(P \ {Max(P)})
    BY <2>4, <2>7, <2>8
  <2> QED BY <2>4, <2>9, <2>10, <2>11
<1> QED BY <1>7, <1>8, <1>9, <1>10

(* What a person was shown is what is published, read and destroyed, for   *)
(* every slot the editor names and every text (commit.rs, read.rs,         *)
(* melter.rs).                                                             *)
THEOREM ShownIsDone ==
  ASSUME SchemaVersion \notin Named, Removal \notin Texts
  PROVE  Spec => []WhatIsShownIsDone
<1>1. WhatIsShownIsDone
  BY EveryEditIsTrue, EverySeedIsAnEdit, EveryReadIsTrue, EveryDeletionIsTrue
  DEF WhatIsShownIsDone
<1> QED BY <1>1, PTL
=============================================================================
