------------------------ MODULE ProfileRegistryProofs ------------------------
(***************************************************************************)
(* Proofs about ProfileRegistry, for every set of identities, indices,     *)
(* fees and heights.  Every part of ProfileRegistry::check but one is      *)
(* inductive; the one that is not is that the active profile is shown, and *)
(* it is record_melted that breaks it.                                     *)
(*                                                                         *)
(* And about ProfileResolve, for every history of a DID, however many      *)
(* answers of a source are wrong: where a walk that has not stopped is,    *)
(* and which spends it has read, is inductive over its steps; a walk that  *)
(* ends with every coin of the lineage visited has then found the launches *)
(* of every spend the source tells of.                                     *)
(***************************************************************************)
EXTENDS ResolveReference, FiniteSetTheorems, WellFoundedInduction, TLAPS

(* The parts of check that every mutator preserves.                        *)
InOrder(e, a, j) ==
  /\ OneStateEach(e, j)
  /\ ActiveIsLive(e, a)
  /\ IdentitiesAreUnique(e)
  /\ HalvesPair(e)
  /\ FeesAreBounded(j)

(* The inductive invariant.                                                *)
IInv ==
  /\ TypeOK
  /\ InOrder(entries, active, journal)
  /\ panicked <=> ~ActiveIsShown(entries, active)
  /\ SavesLoad

(* The value for none is no entry, no mint and no index.                   *)
LEMMA EmptyIsNeither ==
  /\ Empty \notin Entry
  /\ Empty \notin Mint
  /\ Empty \notin Ixs
  BY RegistryAssumption DEF Ixs

(* A set of numbers that is not empty has a least.                         *)
LEMMA LeastExists ==
  ASSUME NEW S \in SUBSET Nat, S # {}
  PROVE  \E x \in S : \A y \in S : x <= y
<1> DEFINE Less == {ss \in Nat \X Nat : ss[1] < ss[2]}
<1>2. IsWellFoundedOn(Less, Nat)
  BY NatLessThanWellFounded, Zenon DEF OpToRel
<1>3. \A x, y \in Nat : <<y, x>> \in Less <=> y < x
  OBVIOUS
<1> HIDE DEF Less
<1>4. PICK x \in S : \A y \in S : ~ (<<y, x>> \in Less)
  BY <1>2, WFMin
<1>5. \A y \in S : x <= y
  <2> SUFFICES ASSUME NEW y \in S PROVE x <= y
    OBVIOUS
  <2>1. x \in Nat /\ y \in Nat
    OBVIOUS
  <2>2. ~ (y < x)
    BY <1>3, <1>4, <2>1
  <2> QED BY <2>1, <2>2
<1> QED BY <1>5

(* A set of indices that is not empty has a lowest member.                 *)
LEMMA LowestIsLowest ==
  ASSUME NEW S \in SUBSET Ixs, S # {}
  PROVE  Lowest(S) \in S
<1>1. S \in SUBSET Nat
  BY DEF Ixs
<1> QED BY <1>1, LeastExists DEF Lowest

Typed(e, a, j) ==
  /\ e \in [Ixs -> Entry \cup {Empty}]
  /\ a \in Ixs \cup {Empty}
  /\ j \in [Ixs -> Mint \cup {Empty}]

(* One entry of a registry in order is replaced by another of the same     *)
(* identity that is as live as the old one.                                *)
LEMMA ReplaceKeepsOrder ==
  ASSUME NEW e, NEW a, NEW j, Typed(e, a, j), InOrder(e, a, j),
         NEW ix \in Ixs, e[ix] # Empty, NEW n \in Entry,
         n.did = e[ix].did, n.launchedFrom = e[ix].launchedFrom, n.ended = e[ix].ended
  PROVE  /\ Typed([e EXCEPT ![ix] = n], a, j)
         /\ InOrder([e EXCEPT ![ix] = n], a, j)
         /\ Live([e EXCEPT ![ix] = n]) = Live(e)
<1> DEFINE f == [e EXCEPT ![ix] = n]
<1>1. /\ f \in [Ixs -> Entry \cup {Empty}] /\ f[ix] = n /\ n # Empty
      /\ \A p \in Ixs : p # ix => f[p] = e[p]
  BY EmptyIsNeither DEF Typed
<1> HIDE DEF f
<1>2. Live(f) = Live(e)
  BY <1>1 DEF Live
<1>3. Confirmed(f) = Confirmed(e)
  BY <1>1 DEF Confirmed
<1>4. \A p \in Ixs : p \in Confirmed(e) =>
        f[p].did = e[p].did /\ f[p].launchedFrom = e[p].launchedFrom
  BY <1>1 DEF Confirmed
<1>5. OneStateEach(f, j)
  BY <1>1 DEF InOrder, OneStateEach
<1>6. ActiveIsLive(f, a)
  BY <1>2 DEF InOrder, ActiveIsLive
<1>7. IdentitiesAreUnique(f) /\ HalvesPair(f)
  BY <1>3, <1>4 DEF InOrder, IdentitiesAreUnique, HalvesPair, Confirmed
<1>8. Typed(f, a, j)
  BY <1>1 DEF Typed
<1> QED BY <1>2, <1>5, <1>6, <1>7, <1>8 DEF InOrder, f

(* A new identity, not held elsewhere, whose halves pair.                  *)
LEMMA MintedKeepsOrder ==
  ASSUME NEW e, NEW a, NEW j, Typed(e, a, j), InOrder(e, a, j),
         NEW ix \in Ixs, e[ix] = Empty, NEW did \in Dids,
         \A p \in Confirmed(e) : e[p].did # did
  PROVE  LET n == [did |-> did, launchedFrom |-> did, shown |-> TRUE, ended |-> 0]
             b == IF a = Empty THEN ix ELSE a
         IN  /\ Typed([e EXCEPT ![ix] = n], b, [j EXCEPT ![ix] = Empty])
             /\ InOrder([e EXCEPT ![ix] = n], b, [j EXCEPT ![ix] = Empty])
<1> DEFINE n == [did |-> did, launchedFrom |-> did, shown |-> TRUE, ended |-> 0]
           b == IF a = Empty THEN ix ELSE a
           f == [e EXCEPT ![ix] = n]
           k == [j EXCEPT ![ix] = Empty]
<1>1. n \in Entry /\ n.did = did /\ n.launchedFrom = did /\ n.ended = 0
  BY DEF Entry
<1> HIDE DEF n
<1>2. /\ f \in [Ixs -> Entry \cup {Empty}] /\ f[ix] = n /\ n # Empty
      /\ \A p \in Ixs : p # ix => f[p] = e[p]
  BY <1>1, EmptyIsNeither DEF Typed
<1>3. /\ k \in [Ixs -> Mint \cup {Empty}] /\ k[ix] = Empty
      /\ \A p \in Ixs : p # ix => k[p] = j[p]
  BY DEF Typed
<1> HIDE DEF f, k
<1>4. Live(f) = Live(e) \cup {ix} /\ Confirmed(f) = Confirmed(e) \cup {ix}
  BY <1>1, <1>2 DEF Live, Confirmed
<1>5. OneStateEach(f, k)
  BY <1>2, <1>3 DEF InOrder, OneStateEach
<1>6. ActiveIsLive(f, b)
  BY <1>4, EmptyIsNeither DEF InOrder, ActiveIsLive
<1>7. IdentitiesAreUnique(f)
  <2> SUFFICES ASSUME NEW p \in Confirmed(f), NEW q \in Confirmed(f), f[p].did = f[q].did
               PROVE  p = q
    BY DEF IdentitiesAreUnique
  <2>1. CASE p = ix \/ q = ix
    BY <1>1, <1>2, <1>4, <2>1 DEF Confirmed
  <2>2. CASE p # ix /\ q # ix
    <3>1. p \in Confirmed(e) /\ q \in Confirmed(e) /\ e[p].did = e[q].did
      BY <1>2, <1>4, <2>2 DEF Confirmed
    <3> QED BY <3>1 DEF InOrder, IdentitiesAreUnique
  <2> QED BY <2>1, <2>2
<1>8. HalvesPair(f)
  BY <1>1, <1>2, <1>4 DEF InOrder, HalvesPair, Confirmed
<1>9. FeesAreBounded(k)
  BY <1>3 DEF InOrder, FeesAreBounded
<1>10. Typed(f, b, k)
  BY <1>2, <1>3 DEF Typed
<1> QED BY <1>5, <1>6, <1>7, <1>8, <1>9, <1>10 DEF InOrder, f, k, n

(* An end, and the successor of the active profile.                        *)
LEMMA EndKeepsOrder ==
  ASSUME NEW e, NEW a, NEW j, Typed(e, a, j), InOrder(e, a, j),
         NEW ix \in Live(e), NEW n \in Entry,
         n.did = e[ix].did, n.launchedFrom = e[ix].launchedFrom, n.ended # 0
  PROVE  LET f == [e EXCEPT ![ix] = n]
             next == IF Live(f) = {} THEN Empty ELSE Lowest(Live(f))
             b == IF a = ix THEN next ELSE a
         IN  Typed(f, b, j) /\ InOrder(f, b, j)
<1> DEFINE f == [e EXCEPT ![ix] = n]
           next == IF Live(f) = {} THEN Empty ELSE Lowest(Live(f))
           b == IF a = ix THEN next ELSE a
<1>1. /\ f \in [Ixs -> Entry \cup {Empty}] /\ f[ix] = n /\ n # Empty
      /\ ix \in Ixs /\ e[ix] # Empty
      /\ \A p \in Ixs : p # ix => f[p] = e[p]
  BY EmptyIsNeither DEF Typed, Live
<1> HIDE DEF f
<1>2. Live(f) = Live(e) \ {ix} /\ Confirmed(f) = Confirmed(e)
  BY <1>1 DEF Live, Confirmed
<1>3. ActiveIsLive(f, b) /\ b \in Ixs \cup {Empty}
  <2>1. a \in Live(e)
    BY DEF InOrder, ActiveIsLive
  <2>2. Live(f) # {} => Lowest(Live(f)) \in Live(f)
    BY LowestIsLowest DEF Live
  <2> QED BY <1>2, <2>1, <2>2 DEF ActiveIsLive, Live
<1>4. OneStateEach(f, j)
  BY <1>1 DEF InOrder, OneStateEach
<1>5. \A p \in Ixs : p \in Confirmed(e) =>
        f[p].did = e[p].did /\ f[p].launchedFrom = e[p].launchedFrom
  BY <1>1 DEF Confirmed
<1>6. IdentitiesAreUnique(f) /\ HalvesPair(f)
  BY <1>2, <1>5 DEF InOrder, IdentitiesAreUnique, HalvesPair, Confirmed
<1>7. Typed(f, b, j)
  BY <1>1, <1>3 DEF Typed
<1> QED BY <1>3, <1>4, <1>6, <1>7 DEF InOrder, f

(***************************************************************************)
(* The inductive invariant                                                 *)
(***************************************************************************)
LEMMA InitIInv == Init => IInv
<1> SUFFICES ASSUME Init PROVE IInv
  OBVIOUS
<1>1. /\ entries = [ix \in Ixs |-> Empty] /\ journal = [ix \in Ixs |-> Empty]
      /\ active = Empty /\ panicked = FALSE
      /\ file.entries = entries /\ file.active = active /\ file.journal = journal
  BY DEF Init, Blank
<1>2. file \in Image
  BY DEF Init, Blank, Image
<1>3. Live(entries) = {} /\ Confirmed(entries) = {}
  BY <1>1 DEF Live, Confirmed
<1>4. InOrder(entries, active, journal) /\ ActiveIsShown(entries, active)
  BY <1>1, <1>3
  DEF InOrder, OneStateEach, ActiveIsLive, IdentitiesAreUnique, HalvesPair,
      FeesAreBounded, ActiveIsShown
<1>5. SavesLoad
  BY <1>1, <1>4 DEF SavesLoad, Check, InOrder
<1> QED BY <1>1, <1>2, <1>4, <1>5 DEF IInv, TypeOK

(* A mutation that leaves the registry in order keeps the invariant,       *)
(* whatever becomes of the active profile's visibility.                    *)
LEMMA BecomesInOrder ==
  ASSUME IInv, NEW e, NEW a, NEW j, Becomes(e, a, j), Typed(e, a, j), InOrder(e, a, j)
  PROVE  IInv'
<1>1. entries' = e /\ active' = a /\ journal' = j /\ file' = file
  BY DEF Becomes
<1>2. panicked' <=> ~ActiveIsShown(e, a)
  BY DEF Becomes, Check, InOrder
<1>3. panicked' \in BOOLEAN
  BY DEF Becomes
<1>4. TypeOK'
  BY <1>1, <1>3 DEF IInv, TypeOK, Typed
<1>5. SavesLoad'
  BY <1>1 DEF IInv, SavesLoad
<1> QED BY <1>1, <1>2, <1>4, <1>5 DEF IInv

(* Every mutator keeps the invariant.                                      *)
LEMMA MutateIInv ==
  ASSUME IInv, NEW ix \in Ixs, Mutate(ix)
  PROVE  IInv'
<1> USE DEF IInv
<1>0. Typed(entries, active, journal)
  BY DEF TypeOK, Typed
<1>1. ASSUME NEW did \in Dids, NEW launchedFrom \in Dids,
             RecordMinted(ix, did, launchedFrom)
      PROVE  IInv'
  BY <1>0, <1>1, MintedKeepsOrder, BecomesInOrder DEF RecordMinted
<1>2. CASE SetActive(ix)
  <2> DEFINE n == [entries[ix] EXCEPT !.shown = TRUE]
             f == [entries EXCEPT ![ix] = n]
  <2>1. entries[ix] \in Entry /\ entries[ix] # Empty
    BY <1>0, <1>2 DEF SetActive, Live, Typed
  <2>2. /\ n \in Entry /\ n.did = entries[ix].did /\ n.ended = entries[ix].ended
        /\ n.launchedFrom = entries[ix].launchedFrom
    BY <2>1 DEF Entry
  <2> HIDE DEF n
  <2>3. /\ Typed(f, active, journal) /\ InOrder(f, active, journal)
        /\ Live(f) = Live(entries)
    BY <1>0, <2>1, <2>2, ReplaceKeepsOrder
  <2>4. Typed(f, ix, journal) /\ InOrder(f, ix, journal)
    BY <1>2, <2>3 DEF SetActive, Typed, InOrder, ActiveIsLive
  <2>5. Becomes(f, ix, journal)
    BY <1>2 DEF SetActive, n
  <2> QED BY <2>4, <2>5, BecomesInOrder
<1>3. ASSUME NEW shown \in BOOLEAN, SetVisibility(ix, shown) PROVE IInv'
  <2> DEFINE n == [entries[ix] EXCEPT !.shown = shown]
             f == [entries EXCEPT ![ix] = n]
  <2>1. entries[ix] \in Entry /\ entries[ix] # Empty
    BY <1>0, <1>3 DEF SetVisibility, Typed
  <2>2. /\ n \in Entry /\ n.did = entries[ix].did /\ n.ended = entries[ix].ended
        /\ n.launchedFrom = entries[ix].launchedFrom
    BY <2>1 DEF Entry
  <2> HIDE DEF n
  <2>3. Typed(f, active, journal) /\ InOrder(f, active, journal)
    BY <1>0, <2>1, <2>2, ReplaceKeepsOrder
  <2>4. Becomes(f, active, journal)
    BY <1>3 DEF SetVisibility, n
  <2> QED BY <2>3, <2>4, BecomesInOrder
<1>4. ASSUME NEW height \in Heights, RecordMelted(ix, height) PROVE IInv'
  <2> DEFINE n == [entries[ix] EXCEPT !.ended = height]
             f == [entries EXCEPT ![ix] = n]
             b == IF active = ix THEN IF Live(f) = {} THEN Empty ELSE Lowest(Live(f))
                  ELSE active
  <2>1. entries[ix] \in Entry /\ ix \in Live(entries) /\ height # 0 /\ height \in Nat
    BY <1>0, <1>4, RegistryAssumption DEF RecordMelted, Live, Typed
  <2>2. /\ n \in Entry /\ n.did = entries[ix].did /\ n.ended # 0
        /\ n.launchedFrom = entries[ix].launchedFrom
    BY <2>1 DEF Entry
  <2> HIDE DEF n
  <2>3. Typed(f, b, journal) /\ InOrder(f, b, journal)
    BY <1>0, <2>1, <2>2, EndKeepsOrder
  <2>4. Becomes(f, b, journal)
    BY <1>4 DEF RecordMelted, n
  <2> HIDE DEF f, b
  <2> QED BY <2>3, <2>4, BecomesInOrder
<1>5. ASSUME NEW stage \in Stages, NEW fee \in Fees, Reserve(ix, stage, fee) PROVE IInv'
  <2> DEFINE m == [stage |-> stage, fee |-> fee]
             k == [journal EXCEPT ![ix] = m]
  <2>1. m \in Mint /\ m.fee <= MaxFee
    BY <1>5, RegistryAssumption DEF Reserve, Mint
  <2>2. Typed(entries, active, k)
    BY <1>0, <2>1 DEF Typed
  <2>3. OneStateEach(entries, k) /\ FeesAreBounded(k)
    BY <1>0, <1>5, <2>1 DEF Reserve, Typed, InOrder, OneStateEach, FeesAreBounded
  <2>4. InOrder(entries, active, k)
    BY <2>3 DEF InOrder
  <2> QED BY <1>5, <2>2, <2>4, BecomesInOrder DEF Reserve
<1>6. ASSUME NEW stage \in Stages, AdvanceMint(ix, stage) PROVE IInv'
  <2> DEFINE m == [stage |-> stage, fee |-> journal[ix].fee]
  <2>1. journal[ix] \in Mint /\ journal[ix] # Empty
    BY <1>0, <1>6 DEF AdvanceMint, Typed
  <2>2. m \in Mint /\ m.fee = journal[ix].fee
    BY <1>6, <2>1 DEF Mint
  <2> HIDE DEF m
  <2>3. /\ journal' = [journal EXCEPT ![ix] = m]
        /\ entries' = entries /\ active' = active /\ panicked' = panicked /\ file' = file
    BY <1>6 DEF AdvanceMint, m
  <2>4. journal' \in [Ixs -> Mint \cup {Empty}]
    BY <1>0, <2>2, <2>3 DEF Typed
  <2>5. OneStateEach(entries, journal') /\ FeesAreBounded(journal')
    BY <1>0, <2>1, <2>2, <2>3 DEF Typed, InOrder, OneStateEach, FeesAreBounded
  <2>6. InOrder(entries, active, journal)'
    BY <2>3, <2>5 DEF InOrder, ActiveIsLive, IdentitiesAreUnique, HalvesPair
  <2>7. (panicked <=> ~ActiveIsShown(entries, active))'
    BY <2>3
  <2>8. SavesLoad' /\ TypeOK'
    BY <2>3, <2>4 DEF SavesLoad, TypeOK
  <2> QED BY <2>6, <2>7, <2>8
<1>7. CASE AbandonMint(ix)
  <2> DEFINE k == [journal EXCEPT ![ix] = Empty]
  <2>1. Typed(entries, active, k)
    BY <1>0 DEF Typed
  <2>2. OneStateEach(entries, k) /\ FeesAreBounded(k)
    BY <1>0 DEF Typed, InOrder, OneStateEach, FeesAreBounded
  <2>3. InOrder(entries, active, k)
    BY <2>2 DEF InOrder
  <2> QED BY <1>7, <2>1, <2>3, BecomesInOrder DEF AbandonMint
<1> HIDE DEF IInv
<1> QED BY <1>1, <1>2, <1>3, <1>4, <1>5, <1>6, <1>7 DEF Mutate

(* The invariant is kept by every step, restarts included.                 *)
LEMMA StepIInv == IInv /\ [Next]_vars => IInv'
<1> SUFFICES ASSUME IInv, [Next]_vars PROVE IInv'
  OBVIOUS
<1>1. CASE Save
  <2>1. /\ file'.entries = entries /\ file'.active = active /\ file'.journal = journal
        /\ file' \in Image
    BY <1>1 DEF Save, Image, IInv, TypeOK
  <2>2. UNCHANGED <<entries, active, journal, panicked>> /\ ~panicked
    BY <1>1 DEF Save, registry
  <2>3. SavesLoad'
    BY <2>1, <2>2 DEF SavesLoad, Check, IInv, InOrder
  <2>4. TypeOK' /\ InOrder(entries, active, journal)'
    BY <2>1, <2>2 DEF IInv, TypeOK
  <2>5. (panicked <=> ~ActiveIsShown(entries, active))'
    BY <2>2 DEF IInv
  <2> QED BY <2>3, <2>4, <2>5 DEF IInv
<1>2. CASE Restart
  <2>1. /\ entries' = file.entries /\ active' = file.active /\ journal' = file.journal
        /\ panicked' = FALSE /\ file' = file /\ file \in Image
    BY <1>2 DEF Restart, IInv, TypeOK
  <2>2. InOrder(entries, active, journal)' /\ ActiveIsShown(entries, active)'
    BY <1>2, <2>1 DEF Restart, Check, InOrder
  <2>3. TypeOK'
    BY <2>1 DEF TypeOK, Image
  <2>4. SavesLoad'
    BY <2>1 DEF IInv, SavesLoad
  <2> QED BY <2>1, <2>2, <2>3, <2>4 DEF IInv
<1>3. CASE UNCHANGED vars
  BY <1>3
  DEF vars, IInv, TypeOK, InOrder, OneStateEach, ActiveIsLive, IdentitiesAreUnique,
      HalvesPair, FeesAreBounded, ActiveIsShown, SavesLoad, Live, Confirmed
<1> QED BY <1>1, <1>2, <1>3, MutateIInv DEF Next

(* Every reachable registry satisfies the inductive invariant.             *)
THEOREM Invariance == Spec => []IInv
  BY InitIInv, StepIInv, PTL DEF Spec

(* The registry and its file are always well-formed.                       *)
THEOREM TypeCorrect == Spec => []TypeOK
  BY Invariance, PTL DEF IInv

(* expect_valid can fire for a hidden active profile only: no sequence of  *)
(* mutator calls breaks any other invariant of the registry.               *)
THEOREM OnlyHiddenPanics == Spec => []OnlyAHiddenProfilePanics
<1>1. IInv => OnlyAHiddenProfilePanics
  BY DEF IInv, InOrder, OnlyAHiddenProfilePanics
<1> QED BY <1>1, Invariance, PTL

(* from_json accepts every registry that to_json has written.              *)
THEOREM EverySaveLoads == Spec => []SavesLoad
  BY Invariance, PTL DEF IInv

(* While the process runs, a confirmed profile keeps its index and its     *)
(* identity, and an end stays where it is.                                 *)
THEOREM HistoryKept == Spec => HistoryIsKept
<1> DEFINE A == Restart \/
     \A ix \in Confirmed(entries) :
       /\ entries'[ix] # Empty
       /\ entries'[ix].did = entries[ix].did
       /\ entries[ix].ended # 0 => entries'[ix].ended = entries[ix].ended
<1>1. TypeOK /\ [Next]_vars => [A]_vars
  <2> SUFFICES ASSUME TypeOK, Next, ~Restart, NEW p \in Confirmed(entries)
               PROVE  /\ entries'[p] # Empty
                      /\ entries'[p].did = entries[p].did
                      /\ entries[p].ended # 0 => entries'[p].ended = entries[p].ended
    OBVIOUS
  <2>1. p \in Ixs /\ entries[p] \in Entry /\ entries[p] # Empty
    BY DEF TypeOK, Confirmed
  <2>2. CASE entries' = entries
    BY <2>1, <2>2
  <2>3. ASSUME NEW ix \in Ixs, NEW n \in Entry, entries' = [entries EXCEPT ![ix] = n],
               ix = p => /\ n.did = entries[p].did
                         /\ entries[p].ended # 0 => n.ended = entries[p].ended
        PROVE  /\ entries'[p] # Empty
               /\ entries'[p].did = entries[p].did
               /\ entries[p].ended # 0 => entries'[p].ended = entries[p].ended
    BY <2>1, <2>3, EmptyIsNeither DEF TypeOK
  <2>4. ASSUME NEW ix \in Ixs, NEW did \in Dids, NEW launchedFrom \in Dids,
               RecordMinted(ix, did, launchedFrom)
        PROVE  /\ entries'[p] # Empty
               /\ entries'[p].did = entries[p].did
               /\ entries[p].ended # 0 => entries'[p].ended = entries[p].ended
    <3>1. [did |-> did, launchedFrom |-> launchedFrom, shown |-> TRUE, ended |-> 0] \in Entry
      BY DEF Entry
    <3> QED BY <2>1, <2>3, <2>4, <3>1 DEF RecordMinted, Becomes
  <2>5. ASSUME NEW ix \in Ixs, NEW shown \in BOOLEAN, SetActive(ix) \/ SetVisibility(ix, shown)
        PROVE  /\ entries'[p] # Empty
               /\ entries'[p].did = entries[p].did
               /\ entries[p].ended # 0 => entries'[p].ended = entries[p].ended
    <3>1. entries[ix] \in Entry
      BY <2>5 DEF SetActive, SetVisibility, Live, TypeOK
    <3>2. \A s \in BOOLEAN : /\ [entries[ix] EXCEPT !.shown = s] \in Entry
                             /\ [entries[ix] EXCEPT !.shown = s].did = entries[ix].did
                             /\ [entries[ix] EXCEPT !.shown = s].ended = entries[ix].ended
      BY <3>1 DEF Entry
    <3>3. \E s \in BOOLEAN :
            entries' = [entries EXCEPT ![ix] = [entries[ix] EXCEPT !.shown = s]]
      BY <2>5 DEF SetActive, SetVisibility, Becomes
    <3>4. PICK s \in BOOLEAN :
            entries' = [entries EXCEPT ![ix] = [entries[ix] EXCEPT !.shown = s]]
      BY <3>3
    <3> DEFINE n == [entries[ix] EXCEPT !.shown = s]
    <3>5. n \in Entry /\ n.did = entries[ix].did /\ n.ended = entries[ix].ended
      BY <3>2
    <3> HIDE DEF n
    <3>6. entries' = [entries EXCEPT ![ix] = n]
      BY <3>4 DEF n
    <3> QED BY <2>3, <3>5, <3>6
  <2>6. ASSUME NEW ix \in Ixs, NEW height \in Heights, RecordMelted(ix, height)
        PROVE  /\ entries'[p] # Empty
               /\ entries'[p].did = entries[p].did
               /\ entries[p].ended # 0 => entries'[p].ended = entries[p].ended
    <3> DEFINE n == [entries[ix] EXCEPT !.ended = height]
    <3>1. entries[ix] \in Entry /\ entries[ix].ended = 0 /\ height \in Nat
      BY <2>6, RegistryAssumption DEF RecordMelted, Live, TypeOK
    <3>2. n \in Entry /\ n.did = entries[ix].did
      BY <3>1 DEF Entry
    <3> HIDE DEF n
    <3>3. entries' = [entries EXCEPT ![ix] = n]
      BY <2>6 DEF RecordMelted, Becomes, n
    <3> QED BY <2>3, <3>1, <3>2, <3>3
  <2> QED
    BY <2>2, <2>4, <2>5, <2>6
    DEF Next, Mutate, Save, registry, Reserve, AdvanceMint, AbandonMint, Becomes
<1>2. Spec => [][A]_vars
  BY <1>1, TypeCorrect, PTL DEF Spec
<1> QED BY <1>2 DEF HistoryIsKept

(***************************************************************************)
(* Resolution.                                                             *)
(***************************************************************************)
(* A history of n spends.                                                  *)
Spans(h, n) ==
  /\ n \in Nat \ {0} /\ DOMAIN h = 0 .. n - 1 /\ Length(h) = n
  /\ \A i \in 0 .. n - 1 : h[i] \in Fates

DidsTo(k) == {<<"did", i>> : i \in 0 .. k}

(* The lineages a source may call the DID's, but for a failed read or none.*)
Lineages(h) ==
  {DidsTo(x[1]) \cup x[2] :
     x \in (0 .. Length(h)) \X SUBSET (Mids(h) \cup {<<"did", Length(h) + 1>>})}

(* A spend that is the coin's own is the one on the chain.                 *)
SpendsAreOwn(h, spends) ==
  \A c \in Coins(h) :
    /\ spends[c].of = c => spends[c] = TrueSpend(h, c)
    /\ c \notin Spends(h) => spends[c] = Nothing

StoresAreSeen(h, stores) ==
  \A i \in DOMAIN h :
    stores[<<"launcher", i>>] \in
      IF <<"launcher", i>> \in Alive(h) THEN {"live", "gone", "error"} ELSE {"gone"}

(* A source that errs, in however many of its answers.                     *)
Plausible(h, s) ==
  /\ s = [lineage |-> s.lineage, known |-> s.known, spends |-> s.spends, stores |-> s.stores]
  /\ s.spends = [c \in Coins(h) |-> s.spends[c]]
  /\ s.stores = [l \in {<<"launcher", i>> : i \in DOMAIN h} |-> s.stores[l]]
  /\ s.lineage \in Lineages(h) \cup {{}, {Failed.of}}
  /\ s.known \in {{}, DidCoins(h)}
  /\ SpendsAreOwn(h, s.spends)
  /\ StoresAreSeen(h, s.stores)

(* Every history spans its spends.                                         *)
LEMMA HistoriesSpan ==
  ASSUME NEW h \in Histories
  PROVE  Spans(h, Length(h))
<1>1. PICK n \in 1 .. MaxLineage - 1 : h \in [0 .. n - 1 -> Fates]
  BY DEF Histories
<1>2. n \in Nat \ {0} /\ DOMAIN h = 0 .. n - 1 /\ \A i \in 0 .. n - 1 : h[i] \in Fates
  BY <1>1, LineageAssumption
<1>3. Cardinality(0 .. n - 1) = n
  BY <1>2, FS_Interval
<1> QED BY <1>2, <1>3 DEF Spans, Length

(* The coin a true spend is of, and whose spends there are.                *)
LEMMA TrueSpends ==
  ASSUME NEW h, NEW n, Spans(h, n)
  PROVE  /\ Spends(h) \subseteq Coins(h)
         /\ \A c \in Spends(h) : TrueSpend(h, c).of = c
         /\ \A c : c \notin Spends(h) => TrueSpend(h, c) = Nothing
         /\ \A i \in 0 .. n - 1 :
              TrueSpend(h, <<"did", i>>)
                = SpendOf(<<"did", i>>, {"did"} \cup (IF h[i] = "none" THEN {} ELSE {"mid"}))
         /\ \A i \in 0 .. n - 1 :
              h[i] \in {"live", "melted"} =>
                TrueSpend(h, <<"mid", i>>) = SpendOf(<<"mid", i>>, {"launcher"})
         /\ \A i \in 0 .. n - 1 : <<"mid", i>> \in Spends(h) <=> h[i] \in {"live", "melted"}
         /\ \A i \in 0 .. n : /\ <<"did", i>> \in Coins(h)
                              /\ <<"did", i>> \in Spends(h) <=> i < n
<1>1. \A c \in Spends(h) : \E i \in 0 .. n - 1 : c = <<"did", i>> \/ c = <<"mid", i>>
  BY DEF Spends, Spans
<1>2. \A i \in 0 .. n - 1 : <<"mid", i>> \in Spends(h) <=> h[i] \in {"live", "melted"}
  BY DEF Spends, Spans
<1>3. \A i \in 0 .. n : /\ <<"did", i>> \in Coins(h)
                        /\ <<"did", i>> \in Spends(h) <=> i < n
  BY DEF Spends, Spans, Coins, DidCoins
<1>4. Spends(h) \subseteq Coins(h)
  BY <1>1, <1>3 DEF Coins, Spans
<1>5. \A i \in 0 .. n - 1 :
        TrueSpend(h, <<"did", i>>)
          = SpendOf(<<"did", i>>, {"did"} \cup (IF h[i] = "none" THEN {} ELSE {"mid"}))
  <2> SUFFICES ASSUME NEW i \in 0 .. n - 1
               PROVE  TrueSpend(h, <<"did", i>>)
          = SpendOf(<<"did", i>>, {"did"} \cup (IF h[i] = "none" THEN {} ELSE {"mid"}))
    OBVIOUS
  <2>1. <<"did", i>> \in Spends(h)
    BY <1>3 DEF Spans
  <2>2. <<"did", i>>[1] = "did" /\ <<"did", i>>[2] = i
    OBVIOUS
  <2> QED BY <2>1, <2>2 DEF TrueSpend
<1>6. \A i \in 0 .. n - 1 :
        h[i] \in {"live", "melted"} =>
          TrueSpend(h, <<"mid", i>>) = SpendOf(<<"mid", i>>, {"launcher"})
  BY <1>2 DEF TrueSpend
<1>7. \A c \in Spends(h) : TrueSpend(h, c).of = c
  BY DEF TrueSpend, SpendOf
<1> QED BY <1>2, <1>3, <1>4, <1>5, <1>6, <1>7 DEF TrueSpend

(* The chain's own answers are plausible, and stay so as they err.         *)
LEMMA HonestIsPlausible ==
  ASSUME NEW h, NEW n, Spans(h, n)
  PROVE  Plausible(h, Honest(h))
<1> DEFINE s == Honest(h)
<1>1. /\ s.lineage = DidCoins(h) /\ s.known = DidCoins(h)
      /\ s.spends = [c \in Coins(h) |-> TrueSpend(h, c)]
      /\ s.stores = [l \in {<<"launcher", i>> : i \in DOMAIN h} |->
                       IF l \in Alive(h) THEN "live" ELSE "gone"]
      /\ s = [lineage |-> s.lineage, known |-> s.known, spends |-> s.spends, stores |-> s.stores]
  BY DEF Honest
<1> HIDE DEF s
<1>2. DidCoins(h) \in Lineages(h)
  <2> DEFINE x == <<Length(h), {}>>
  <2>1. x \in (0 .. Length(h)) \X SUBSET (Mids(h) \cup {<<"did", Length(h) + 1>>})
    BY DEF Spans
  <2>2. DidCoins(h) = DidsTo(x[1]) \cup x[2]
    BY DEF DidCoins, DidsTo
  <2> HIDE DEF x
  <2> QED BY <2>1, <2>2 DEF Lineages
<1>3. SpendsAreOwn(h, s.spends)
  BY <1>1, TrueSpends DEF SpendsAreOwn
<1>4. StoresAreSeen(h, s.stores)
  BY <1>1 DEF StoresAreSeen
<1>5. s.spends = [c \in Coins(h) |-> s.spends[c]]
  BY <1>1
<1>6. s.stores = [l \in {<<"launcher", i>> : i \in DOMAIN h} |-> s.stores[l]]
  BY <1>1
<1> QED BY <1>1, <1>2, <1>3, <1>4, <1>5, <1>6 DEF Plausible, s

(* Another wrong answer leaves a source plausible.                         *)
LEMMA FaultsArePlausible ==
  ASSUME NEW h, NEW n, Spans(h, n), NEW s, Plausible(h, s), NEW t \in Faulty(h, s)
  PROVE  Plausible(h, t)
<1> DEFINE L == {<<"launcher", i>> : i \in DOMAIN h}
<1>1. /\ s = [lineage |-> s.lineage, known |-> s.known, spends |-> s.spends, stores |-> s.stores]
      /\ s.spends = [c \in Coins(h) |-> s.spends[c]]
      /\ s.stores = [l \in L |-> s.stores[l]]
      /\ s.lineage \in Lineages(h) \cup {{}, {Failed.of}}
      /\ s.known \in {{}, DidCoins(h)}
      /\ SpendsAreOwn(h, s.spends)
      /\ StoresAreSeen(h, s.stores)
  BY DEF Plausible
<1>2. ASSUME NEW c \in Spends(h), NEW answer,
             answer.of = c => answer = TrueSpend(h, c),
             t = [s EXCEPT !.spends[c] = answer]
      PROVE  Plausible(h, t)
  <2> DEFINE f == [s.spends EXCEPT ![c] = answer]
  <2>1. /\ t.spends = f /\ t.lineage = s.lineage /\ t.known = s.known /\ t.stores = s.stores
        /\ t = [lineage |-> t.lineage, known |-> t.known, spends |-> t.spends, stores |-> t.stores]
    BY <1>1, <1>2
  <2>2. /\ f = [d \in Coins(h) |-> f[d]]
        /\ \A d \in Coins(h) : f[d] = IF d = c THEN answer ELSE s.spends[d]
    BY <1>1
  <2> HIDE DEF f
  <2>3. SpendsAreOwn(h, f)
    BY <1>1, <1>2, <2>2 DEF SpendsAreOwn
  <2> QED BY <1>1, <2>1, <2>2, <2>3 DEF Plausible
<1>3. ASSUME NEW l \in Alive(h), NEW answer \in {"gone", "error"},
             t = [s EXCEPT !.stores[l] = answer]
      PROVE  Plausible(h, t)
  <2> DEFINE f == [s.stores EXCEPT ![l] = answer]
  <2>1. /\ t.spends = s.spends /\ t.lineage = s.lineage /\ t.known = s.known /\ t.stores = f
        /\ t = [lineage |-> t.lineage, known |-> t.known, spends |-> t.spends, stores |-> t.stores]
    BY <1>1, <1>3
  <2>2. /\ f = [d \in L |-> f[d]]
        /\ \A d \in L : f[d] = IF d = l THEN answer ELSE s.stores[d]
    BY <1>1
  <2> HIDE DEF f
  <2>3. StoresAreSeen(h, f)
    BY <1>1, <1>3, <2>2 DEF StoresAreSeen
  <2> QED BY <1>1, <2>1, <2>2, <2>3 DEF Plausible
<1>4. ASSUME NEW lineage \in Lineages(h) \cup {{}, {Failed.of}},
             t = [s EXCEPT !.lineage = lineage]
      PROVE  Plausible(h, t)
  <2>1. /\ t.spends = s.spends /\ t.lineage = lineage /\ t.known = s.known /\ t.stores = s.stores
        /\ t = [lineage |-> t.lineage, known |-> t.known, spends |-> t.spends, stores |-> t.stores]
    BY <1>1, <1>4
  <2> QED BY <1>1, <1>4, <2>1 DEF Plausible
<1>5. CASE t \in {[s EXCEPT !.spends[x[1]] = x[2]] : x \in Spends(h) \X {Nothing, Failed}}
  <2>1. PICK x \in Spends(h) \X {Nothing, Failed} : t = [s EXCEPT !.spends[x[1]] = x[2]]
    BY <1>5
  <2>2. x[1] \in Spends(h) /\ x[2] \in {Nothing, Failed}
    OBVIOUS
  <2>3. x[2].of # x[1]
    <3>1. \E i : x[1] = <<"did", i>> \/ x[1] = <<"mid", i>>
      BY <2>2 DEF Spends
    <3>2. x[2].of = <<"none", 0>> \/ x[2].of = <<"error", 0>>
      BY <2>2 DEF Nothing, Failed
    <3> QED BY <3>1, <3>2
  <2> QED BY <1>2, <2>1, <2>2, <2>3
<1>6. CASE t \in {[s EXCEPT !.spends[x[1]] = TrueSpend(h, x[2])] : x \in Spends(h) \X Spends(h)}
  <2>1. PICK x \in Spends(h) \X Spends(h) : t = [s EXCEPT !.spends[x[1]] = TrueSpend(h, x[2])]
    BY <1>6
  <2>2. x[1] \in Spends(h) /\ x[2] \in Spends(h)
    OBVIOUS
  <2>3. TrueSpend(h, x[2]).of = x[2]
    BY <2>2, TrueSpends
  <2> QED BY <1>2, <2>1, <2>2, <2>3
<1>7. CASE t \in {[s EXCEPT !.stores[x[1]] = x[2]] : x \in Alive(h) \X {"gone", "error"}}
  <2>1. PICK x \in Alive(h) \X {"gone", "error"} : t = [s EXCEPT !.stores[x[1]] = x[2]]
    BY <1>7
  <2>2. x[1] \in Alive(h) /\ x[2] \in {"gone", "error"}
    OBVIOUS
  <2> QED BY <1>3, <2>1, <2>2
<1>8. CASE t \in {[s EXCEPT !.lineage = {<<"did", i>> : i \in 0 .. k}] : k \in 0 .. Length(h)}
  <2>1. PICK k \in 0 .. Length(h) : t = [s EXCEPT !.lineage = DidsTo(k)]
    BY <1>8 DEF DidsTo
  <2> DEFINE x == <<k, {}>>
  <2>2. x \in (0 .. Length(h)) \X SUBSET (Mids(h) \cup {<<"did", Length(h) + 1>>})
    OBVIOUS
  <2>3. DidsTo(k) = DidsTo(x[1]) \cup x[2]
    OBVIOUS
  <2> HIDE DEF x
  <2>4. DidsTo(k) \in Lineages(h)
    BY <2>2, <2>3 DEF Lineages
  <2> QED BY <1>4, <2>1, <2>4
<1>9. CASE t \in {[s EXCEPT !.lineage = @ \cup {c}] :
                    c \in {m \in Mids(h) \cup {<<"did", Length(h) + 1>>} :
                             <<"did", 0>> \in s.lineage}}
  <2>1. PICK c \in Mids(h) \cup {<<"did", Length(h) + 1>>} :
          <<"did", 0>> \in s.lineage /\ t = [s EXCEPT !.lineage = s.lineage \cup {c}]
    BY <1>9
  <2>2. s.lineage \in Lineages(h)
    BY <1>1, <2>1 DEF Failed
  <2>3. PICK x \in (0 .. Length(h)) \X SUBSET (Mids(h) \cup {<<"did", Length(h) + 1>>}) :
          s.lineage = DidsTo(x[1]) \cup x[2]
    BY <2>2 DEF Lineages
  <2> DEFINE y == <<x[1], x[2] \cup {c}>>
  <2>4. y \in (0 .. Length(h)) \X SUBSET (Mids(h) \cup {<<"did", Length(h) + 1>>})
    OBVIOUS
  <2>5. s.lineage \cup {c} = DidsTo(y[1]) \cup y[2]
    BY <2>3
  <2> HIDE DEF y
  <2>6. s.lineage \cup {c} \in Lineages(h)
    BY <2>4, <2>5 DEF Lineages
  <2> QED BY <1>4, <2>1, <2>6
<1>10. CASE t \in {[s EXCEPT !.lineage = l] : l \in {{}, {Failed.of}}}
  BY <1>4, <1>10
<1>11. CASE t = [s EXCEPT !.known = {}]
  <2>1. /\ t.spends = s.spends /\ t.lineage = s.lineage /\ t.known = {} /\ t.stores = s.stores
        /\ t = [lineage |-> t.lineage, known |-> t.known, spends |-> t.spends, stores |-> t.stores]
    BY <1>1, <1>11
  <2> QED BY <1>1, <2>1 DEF Plausible
<1> QED BY <1>5, <1>6, <1>7, <1>8, <1>9, <1>10, <1>11 DEF Faulty

(* So a source with one or two wrong answers is plausible.                 *)
LEMMA SourcesArePlausible ==
  ASSUME NEW h \in Histories, NEW s \in Twice(h)
  PROVE  Plausible(h, s)
<1>1. Spans(h, Length(h))
  BY HistoriesSpan
<1>2. Plausible(h, Honest(h))
  BY <1>1, HonestIsPlausible
<1>3. \A t \in Once(h) : Plausible(h, t)
  BY <1>1, <1>2, FaultsArePlausible DEF Once
<1>4. CASE s \in Once(h)
  BY <1>3, <1>4
<1>5. CASE s \in UNION {Faulty(h, t) : t \in Once(h)}
  BY <1>1, <1>3, <1>5, FaultsArePlausible
<1> QED BY <1>4, <1>5 DEF Twice

(***************************************************************************)
(* The walk.                                                               *)
(***************************************************************************)
Stops == {"ChainUnreachable", "Unparseable", "TooManyLaunches"}

IsWalk(w) ==
  /\ w = [at |-> w.at, mids |-> w.mids, visited |-> w.visited, end |-> w.end]
  /\ w.end \in {"walking", "walked"} \cup Stops

(* The DID coins whose spends a walk has read.                             *)
Passed(h, s, w) ==
  {i \in DOMAIN h : /\ <<"did", i>> \in w.visited
                    /\ \/ <<"did", i>> # w.at
                       \/ w.end = "walked" /\ s.spends[<<"did", i>>] # Nothing}

MidsOf(h, I) == {<<"mid", i>> : i \in {j \in I : h[j] # "none"}}

(* Where a walk that has not stopped is: it has visited the coins of the   *)
(* lineage down to the one it is at, and collected the intermediates of    *)
(* the spends it has read.                                                 *)
Along(h, s, w, m) ==
  /\ \/ w.at = <<"did", m>> /\ w.visited = DidsTo(m)
     \/ /\ w.at = <<"mid", m>> /\ m < Length(h)
        /\ w.visited = DidsTo(m) \cup {<<"mid", m>>}
        /\ s.spends[<<"did", m>>] # Nothing
  /\ w.mids = MidsOf(h, Passed(h, s, w))

Reached(h, s, w) ==
  /\ IsWalk(w)
  /\ w.visited \subseteq s.lineage
  /\ w.end \in {"walking", "walked"} => \E m \in 0 .. Length(h) : Along(h, s, w, m)

(* A lineage holds its first coin, coins of the DID and intermediates.     *)
LEMMA LineagesHold ==
  ASSUME NEW h, NEW n, Spans(h, n), NEW L \in Lineages(h)
  PROVE  /\ <<"did", 0>> \in L
         /\ \A i : <<"launcher", i>> \notin L
         /\ \A i : <<"mid", i>> \in L => i \in 0 .. n - 1 /\ h[i] # "none"
         /\ \A i : <<"did", i>> \in L => i \in 0 .. n + 1
         /\ IsFiniteSet(L)
<1>1. PICK x \in (0 .. Length(h)) \X SUBSET (Mids(h) \cup {<<"did", Length(h) + 1>>}) :
        L = DidsTo(x[1]) \cup x[2]
  BY DEF Lineages
<1>2. \A c \in L : (\E i \in 0 .. n + 1 : c = <<"did", i>>)
                     \/ (\E i \in 0 .. n - 1 : c = <<"mid", i>> /\ h[i] # "none")
  BY <1>1 DEF DidsTo, Mids, Spans
<1>3. <<"did", 0>> \in L
  BY <1>1 DEF DidsTo
<1>4. IsFiniteSet(L)
  <2> DEFINE D == {<<"did", i>> : i \in 0 .. n + 1}
             M == {<<"mid", i>> : i \in 0 .. n + 1}
             f == [i \in 0 .. n + 1 |-> <<"did", i>>]
             g == [i \in 0 .. n + 1 |-> <<"mid", i>>]
  <2>1. IsFiniteSet(0 .. n + 1)
    <3>1. 0 \in Int /\ n + 1 \in Int
      BY DEF Spans
    <3> QED BY <3>1, FS_Interval
  <2>2. f \in Surjection(0 .. n + 1, D) /\ g \in Surjection(0 .. n + 1, M)
    BY DEF Surjection
  <2>3. IsFiniteSet(D) /\ IsFiniteSet(M)
    BY <2>1, <2>2, FS_Surjection
  <2>4. IsFiniteSet(D \cup M)
    BY <2>3, FS_Union
  <2>5. L \subseteq D \cup M
    BY <1>2 DEF Spans
  <2> QED BY <2>4, <2>5, FS_Subset
<1> QED BY <1>2, <1>3, <1>4

(* One step of a walk: it stops, or reads one spend more; and it goes on   *)
(* only to a coin it has not visited.                                      *)
LEMMA StepReaches ==
  ASSUME NEW h, NEW n, Spans(h, n), NEW s, Plausible(h, s), s.lineage \in Lineages(h),
         NEW w, Reached(h, s, w)
  PROVE  /\ Reached(h, s, Step(s, w))
         /\ Step(s, w).end = "walking" =>
              /\ w.end = "walking"
              /\ \E c : c \notin w.visited /\ Step(s, w).visited = w.visited \cup {c}
<1> DEFINE spend == s.spends[w.at]
           next  == {Child(w.at, k) : k \in spend.creates} \cap s.lineage
           mids  == w.mids \cup (IF "mid" \in spend.creates THEN {Child(w.at, "mid")} ELSE {})
           on    == CHOOSE c \in next : TRUE
           v     == Step(s, w)
<1>1. IsWalk(w) /\ w.visited \subseteq s.lineage
  BY DEF Reached
<1>2. CASE w.end # "walking"
  <2>1. v = w
    BY <1>2 DEF Step
  <2> QED BY <1>2, <2>1
<1>3. ASSUME NEW end \in Stops, v = [w EXCEPT !.end = end]
      PROVE  Reached(h, s, v) /\ v.end # "walking"
  <2>1. v = [at |-> w.at, mids |-> w.mids, visited |-> w.visited, end |-> end]
    BY <1>1, <1>3 DEF IsWalk
  <2>2. end # "walking" /\ end # "walked"
    BY DEF Stops
  <2> QED BY <1>1, <2>1, <2>2 DEF Reached, IsWalk
<1>4. CASE w.end = "walking"
  <2>1. PICK m \in 0 .. Length(h) : Along(h, s, w, m)
    BY <1>4 DEF Reached
  <2>2. m \in 0 .. n /\ m \in Nat /\ n \in Nat /\ DOMAIN h = 0 .. n - 1 /\ Length(h) = n
    BY DEF Spans
  <2>3. SpendsAreOwn(h, s.spends)
    BY DEF Plausible
  <2>4. Passed(h, s, w) = {i \in DOMAIN h : <<"did", i>> \in w.visited /\ <<"did", i>> # w.at}
    BY <1>4 DEF Passed
  <2>5. CASE spend = Failed
    <3>1. v = [w EXCEPT !.end = "ChainUnreachable"]
      BY <1>4, <2>5 DEF Step
    <3> QED BY <1>3, <3>1 DEF Stops
  <2>6. CASE spend # Failed /\ spend # Nothing /\ spend.of # w.at
    <3>1. v = [w EXCEPT !.end = "Unparseable"]
      BY <1>4, <2>6 DEF Step
    <3> QED BY <1>3, <3>1 DEF Stops
  <2>7. CASE spend # Failed /\ spend = Nothing
    <3>1. v = [w EXCEPT !.end = "walked"]
      BY <1>4, <2>7 DEF Step
    <3>2. v = [at |-> w.at, mids |-> w.mids, visited |-> w.visited, end |-> "walked"]
      BY <1>1, <3>1 DEF IsWalk
    <3>3. v.at = w.at /\ v.visited = w.visited /\ s.spends[v.at] = Nothing
      BY <2>7, <3>2
    <3> HIDE DEF v
    <3>4. Passed(h, s, v) = Passed(h, s, w)
      BY <2>4, <3>3 DEF Passed
    <3>5. Along(h, s, v, m)
      BY <2>1, <3>2, <3>4 DEF Along
    <3> QED BY <1>1, <2>2, <3>2, <3>5 DEF Reached, IsWalk, v
  <2>8. CASE spend # Failed /\ spend # Nothing /\ spend.of = w.at
    <3>1. CASE Cardinality(mids) > MaxLaunches
      <4>1. v = [w EXCEPT !.end = "TooManyLaunches"]
        BY <1>4, <2>8, <3>1 DEF Step
      <4> QED BY <1>3, <4>1 DEF Stops
    <3>2. CASE ~(Cardinality(mids) > MaxLaunches) /\ next # {}
                 /\ (Cardinality(next) > 1 \/ next \subseteq w.visited)
      <4>1. v = [w EXCEPT !.end = "Unparseable"]
        BY <1>4, <2>8, <3>2 DEF Step
      <4> QED BY <1>3, <4>1 DEF Stops
    <3>3. CASE /\ ~(Cardinality(mids) > MaxLaunches)
               /\ next = {} \/ ~(Cardinality(next) > 1 \/ next \subseteq w.visited)
      <4>1. CASE w.at = <<"mid", m>>
        <5>1. m < n /\ m \in 0 .. n - 1 /\ w.visited = DidsTo(m) \cup {<<"mid", m>>}
              /\ s.spends[<<"did", m>>] # Nothing
          BY <2>1, <2>2, <4>1 DEF Along
        <5>2. w.at \in Coins(h)
          BY <2>2, <4>1, <5>1 DEF Coins
        <5>3. spend = TrueSpend(h, w.at) /\ w.at \in Spends(h)
          BY <2>3, <2>8, <5>2 DEF SpendsAreOwn
        <5>4. spend.creates = {"launcher"}
          <6>1. h[m] \in {"live", "melted"}
            BY <4>1, <5>1, <5>3, TrueSpends
          <6>2. TrueSpend(h, <<"mid", m>>) = SpendOf(<<"mid", m>>, {"launcher"})
            BY <5>1, <6>1, TrueSpends
          <6> QED BY <4>1, <5>3, <6>2 DEF SpendOf
        <5>5. next = {}
          <6>1. Child(w.at, "launcher") = <<"launcher", m>>
            BY <4>1 DEF Child
          <6> QED BY <5>4, <6>1, LineagesHold
        <5>6. mids = w.mids
          BY <5>4
        <5>7. v = [w EXCEPT !.mids = mids, !.end = "walked"]
          BY <1>4, <2>8, <3>3, <5>5 DEF Step
        <5>8. v = [at |-> w.at, mids |-> w.mids, visited |-> w.visited, end |-> "walked"]
          BY <1>1, <5>6, <5>7 DEF IsWalk
        <5>9. Passed(h, s, v) = Passed(h, s, w)
          BY <2>4, <4>1, <5>8 DEF Passed
        <5>10. Along(h, s, v, m)
          BY <2>1, <5>8, <5>9 DEF Along
        <5> QED BY <1>1, <2>2, <5>8, <5>10 DEF Reached, IsWalk
      <4>2. CASE w.at = <<"did", m>>
        <5>1. w.visited = DidsTo(m)
          BY <2>1, <4>2 DEF Along
        <5>2. spend = TrueSpend(h, w.at) /\ w.at \in Spends(h)
          BY <2>2, <2>3, <2>8, <4>2, TrueSpends DEF SpendsAreOwn
        <5>3. m \in 0 .. n - 1
          BY <2>2, <4>2, <5>2, TrueSpends
        <5>4. spend.creates = {"did"} \cup (IF h[m] = "none" THEN {} ELSE {"mid"})
          <6>1. TrueSpend(h, <<"did", m>>)
                  = SpendOf(<<"did", m>>, {"did"} \cup (IF h[m] = "none" THEN {} ELSE {"mid"}))
            BY <5>3, TrueSpends
          <6> QED BY <4>2, <5>2, <6>1 DEF SpendOf
        <5>5. Child(w.at, "did") = <<"did", m + 1>> /\ Child(w.at, "mid") = <<"mid", m>>
          BY <4>2 DEF Child
        <5>6. next \subseteq {<<"did", m + 1>>, <<"mid", m>>}
              /\ (<<"mid", m>> \in next => h[m] # "none")
          BY <5>4, <5>5
        <5>7. mids = w.mids \cup (IF h[m] = "none" THEN {} ELSE {<<"mid", m>>})
          BY <5>4, <5>5
        <5>8. w.mids = MidsOf(h, 0 .. m - 1)
          <6>1. Passed(h, s, w) = 0 .. m - 1
            BY <2>2, <2>4, <4>2, <5>1 DEF DidsTo
          <6> QED BY <2>1, <6>1 DEF Along
        <5>9. mids = MidsOf(h, 0 .. m)
          <6>1. \A i \in 0 .. m : i \in 0 .. m - 1 \/ i = m
            BY <2>2
          <6> QED BY <2>2, <5>3, <5>7, <5>8, <6>1 DEF MidsOf
        <5> HIDE DEF mids, next
        <5>10. CASE next = {}
          <6>1. v = [w EXCEPT !.mids = mids, !.end = "walked"]
            BY <1>4, <2>8, <3>3, <5>10 DEF Step, next, mids
          <6>2. v = [at |-> w.at, mids |-> mids, visited |-> w.visited, end |-> "walked"]
            BY <1>1, <6>1 DEF IsWalk
          <6>3. Passed(h, s, v) = 0 .. m
            BY <2>2, <2>8, <4>2, <5>1, <5>3, <6>2 DEF DidsTo, Passed
          <6>4. Along(h, s, v, m)
            BY <4>2, <5>1, <5>9, <6>2, <6>3 DEF Along
          <6> QED BY <1>1, <2>2, <6>2, <6>4 DEF Reached, IsWalk
        <5>11. CASE next # {}
          <6>1. on \in next
            BY <5>11
          <6>2. next = {on}
            <7>1. <<"did", m + 1>> # <<"mid", m>>
              OBVIOUS
            <7>2. next # {<<"did", m + 1>>, <<"mid", m>>}
              <8>1. IsFiniteSet({<<"mid", m>>}) /\ Cardinality({<<"mid", m>>}) = 1
                BY FS_Singleton
              <8>2. Cardinality({<<"mid", m>>} \cup {<<"did", m + 1>>}) = 2
                <9>1. Cardinality({<<"mid", m>>} \cup {<<"did", m + 1>>})
                        = IF <<"did", m + 1>> \in {<<"mid", m>>} THEN Cardinality({<<"mid", m>>})
                          ELSE Cardinality({<<"mid", m>>}) + 1
                  BY <8>1, FS_AddElement, Zenon
                <9>2. <<"did", m + 1>> \notin {<<"mid", m>>}
                  BY <7>1
                <9> QED BY <8>1, <9>1, <9>2
              <8>3. {<<"mid", m>>} \cup {<<"did", m + 1>>} = {<<"did", m + 1>>, <<"mid", m>>}
                OBVIOUS
              <8> QED BY <3>3, <5>11, <8>2, <8>3 DEF next, mids
            <7> HIDE DEF on
            <7> QED BY <5>6, <6>1, <7>2
          <6>3. on \in s.lineage /\ on \notin w.visited
            <7>1. ~(next \subseteq w.visited)
              BY <3>3, <5>11 DEF next, mids
            <7> HIDE DEF on
            <7> QED BY <6>1, <6>2, <7>1 DEF next
          <6>4. v = [w EXCEPT !.at = on, !.mids = mids, !.visited = @ \cup next]
            BY <1>4, <2>8, <3>3, <5>11 DEF Step, next, mids
          <6> HIDE DEF on
          <6>5. v = [at |-> on, mids |-> mids, visited |-> w.visited \cup {on}, end |-> "walking"]
            BY <1>1, <1>4, <6>2, <6>4 DEF IsWalk
          <6>6. on \in {<<"did", m + 1>>, <<"mid", m>>}
            BY <5>6, <6>1
          <6> HIDE DEF v
          <6>7. Passed(h, s, v) = 0 .. m
            BY <2>2, <5>1, <5>3, <6>5, <6>6 DEF DidsTo, Passed
          <6>8. CASE on = <<"did", m + 1>>
            <7>1. DidsTo(m + 1) = DidsTo(m) \cup {<<"did", m + 1>>}
              <8>1. \A i \in 0 .. m + 1 : i \in 0 .. m \/ i = m + 1
                BY <2>2
              <8>2. 0 .. m \subseteq 0 .. m + 1 /\ m + 1 \in 0 .. m + 1
                BY <2>2
              <8> QED BY <8>1, <8>2 DEF DidsTo
            <7>2. Along(h, s, v, m + 1)
              BY <5>1, <5>9, <6>5, <6>7, <6>8, <7>1 DEF Along
            <7>3. m + 1 \in 0 .. Length(h)
              BY <2>2, <5>3
            <7> QED BY <1>1, <1>4, <6>3, <6>5, <7>2, <7>3 DEF Reached, IsWalk, v
          <6>9. CASE on = <<"mid", m>>
            <7>1. Along(h, s, v, m)
              BY <2>2, <2>8, <4>2, <5>1, <5>3, <5>9, <6>5, <6>7, <6>9 DEF Along
            <7> QED BY <1>1, <1>4, <2>2, <6>3, <6>5, <7>1 DEF Reached, IsWalk, v
          <6> QED BY <6>6, <6>8, <6>9
        <5> QED BY <5>10, <5>11
      <4> QED BY <2>1, <4>1, <4>2 DEF Along
    <3> QED BY <3>1, <3>2, <3>3
  <2> QED BY <2>5, <2>6, <2>7, <2>8
<1> QED BY <1>2, <1>4

(* f holds the n steps of a walk.                                          *)
Goes(f, s, n) == f = [k \in 0 .. n |-> IF k = 0 THEN Start ELSE Step(s, f[k - 1])]

(* A walk of any length exists: the shortest that did not would be another *)
(* walk and a step.                                                        *)
LEMMA WalksExist ==
  ASSUME NEW s, NEW n \in Nat
  PROVE  \E f : Goes(f, s, n)
<1> DEFINE none == {k \in Nat : ~\E f : Goes(f, s, k)}
<1>1. SUFFICES ASSUME none # {}
               PROVE  FALSE
  OBVIOUS
<1>2. none \in SUBSET Nat
  OBVIOUS
<1>3. PICK k \in none : \A j \in none : k <= j
  BY <1>1, <1>2, LeastExists
<1>4. CASE k = 0
  <2>1. Goes([j \in 0 .. 0 |-> Start], s, 0)
    BY DEF Goes
  <2> QED BY <1>4, <2>1
<1>5. CASE k # 0
  <2>1. k - 1 \in Nat /\ k - 1 \notin none
    BY <1>3, <1>5
  <2>2. PICK f : Goes(f, s, k - 1)
    BY <2>1
  <2> DEFINE g == [j \in 0 .. k |-> IF j = k THEN Step(s, f[k - 1]) ELSE f[j]]
  <2>3. k \in Nat
    OBVIOUS
  <2>4. \A j \in 0 .. k - 1 : f[j] = IF j = 0 THEN Start ELSE Step(s, f[j - 1])
    BY <2>2 DEF Goes
  <2>5. \A j \in 0 .. k : g[j] = IF j = 0 THEN Start ELSE Step(s, g[j - 1])
    <3> SUFFICES ASSUME NEW j \in 0 .. k
                 PROVE  g[j] = IF j = 0 THEN Start ELSE Step(s, g[j - 1])
      OBVIOUS
    <3>1. CASE j = k
      <4>1. g[j] = Step(s, f[k - 1]) /\ g[k - 1] = f[k - 1]
        BY <1>5, <2>1, <2>3, <3>1
      <4> QED BY <1>5, <3>1, <4>1
    <3>2. CASE j # k
      <4>1. j \in 0 .. k - 1 /\ (j # 0 => j - 1 \in 0 .. k /\ j - 1 # k)
        BY <2>3, <3>2
      <4>2. g[j] = f[j] /\ (j # 0 => g[j - 1] = f[j - 1])
        BY <2>3, <3>2, <4>1
      <4> QED BY <2>4, <4>1, <4>2
    <3> QED BY <3>1, <3>2
  <2>6. g = [j \in 0 .. k |-> g[j]]
    OBVIOUS
  <2> HIDE DEF g
  <2>7. Goes(g, s, k)
    BY <2>5, <2>6 DEF Goes
  <2> QED BY <2>7
<1> QED BY <1>4, <1>5

(* After k steps a walk is still under way only if k coins were new.       *)
Lengthens(w, k) ==
  w.end = "walking" => IsFiniteSet(w.visited) /\ Cardinality(w.visited) = k + 1

(* What holds where a walk starts and after every step of it holds at its  *)
(* end.                                                                    *)
LEMMA WalkReaches ==
  ASSUME NEW h, NEW n, Spans(h, n), NEW s, Plausible(h, s), s.lineage \in Lineages(h)
  PROVE  Reached(h, s, Walk(s)) /\ Lengthens(Walk(s), Cardinality(s.lineage))
<1> DEFINE N == Cardinality(s.lineage)
<1>1. N \in Nat
  BY LineagesHold, FS_CardinalityType
<1>2. PICK f : Goes(f, s, N) /\ Walk(s) = f[N]
  BY <1>1, WalksExist DEF Walk, Goes
<1> HIDE DEF N
<1>3. f[0] = Start /\ \A k \in 0 .. N : k # 0 => f[k] = Step(s, f[k - 1])
  BY <1>1, <1>2 DEF Goes
<1> DEFINE P(k) == Reached(h, s, f[k]) /\ Lengthens(f[k], k)
           wrong == {k \in 0 .. N : ~P(k)}
<1>4. P(0)
  <2>1. f[0] = [at |-> <<"did", 0>>, mids |-> {}, visited |-> {<<"did", 0>>}, end |-> "walking"]
    BY <1>3 DEF Start
  <2>2. DidsTo(0) = {<<"did", 0>>}
    BY DEF DidsTo
  <2>3. MidsOf(h, Passed(h, s, f[0])) = {}
    BY <2>1 DEF MidsOf, Passed
  <2>4. Along(h, s, f[0], 0)
    BY <2>1, <2>2, <2>3 DEF Along
  <2>5. 0 \in 0 .. Length(h)
    BY DEF Spans
  <2>6. Reached(h, s, f[0])
    <3>1. IsWalk(f[0])
      BY <2>1 DEF IsWalk
    <3>2. f[0].visited \subseteq s.lineage
      BY <2>1, LineagesHold
    <3> QED BY <2>4, <2>5, <3>1, <3>2 DEF Reached
  <2>7. Lengthens(f[0], 0)
    <3>1. f[0].visited = {<<"did", 0>>}
      BY <2>1
    <3>2. IsFiniteSet({<<"did", 0>>}) /\ Cardinality({<<"did", 0>>}) = 1
      BY FS_Singleton
    <3> QED BY <3>1, <3>2 DEF Lengthens
  <2> QED BY <2>6, <2>7
<1>5. ASSUME NEW k \in 0 .. N, k # 0, P(k - 1)
      PROVE  P(k)
  <2>1. f[k] = Step(s, f[k - 1])
    BY <1>3, <1>5
  <2>2. /\ Reached(h, s, f[k])
        /\ f[k].end = "walking" =>
             /\ f[k - 1].end = "walking"
             /\ \E c : c \notin f[k - 1].visited /\ f[k].visited = f[k - 1].visited \cup {c}
    BY <1>5, <2>1, StepReaches
  <2>3. ASSUME f[k].end = "walking"
        PROVE  IsFiniteSet(f[k].visited) /\ Cardinality(f[k].visited) = k + 1
    <3>1. PICK c : c \notin f[k - 1].visited /\ f[k].visited = f[k - 1].visited \cup {c}
      BY <2>2, <2>3
    <3>2. IsFiniteSet(f[k - 1].visited) /\ Cardinality(f[k - 1].visited) = (k - 1) + 1
      BY <1>5, <2>2, <2>3 DEF Lengthens
    <3>3. /\ IsFiniteSet(f[k - 1].visited \cup {c})
          /\ Cardinality(f[k - 1].visited \cup {c})
               = IF c \in f[k - 1].visited THEN Cardinality(f[k - 1].visited)
                                           ELSE Cardinality(f[k - 1].visited) + 1
      BY <3>2, FS_AddElement, Zenon
    <3>4. (k - 1) + 1 = k
      BY <1>1
    <3> QED BY <3>1, <3>2, <3>3, <3>4
  <2> QED BY <2>2, <2>3 DEF Lengthens
<1>6. wrong = {}
  <2>1. SUFFICES ASSUME wrong # {}
                 PROVE  FALSE
    OBVIOUS
  <2>2. wrong \in SUBSET Nat
    BY <1>1
  <2>3. PICK k \in wrong : \A j \in wrong : k <= j
    BY <2>1, <2>2, LeastExists
  <2>4. k \in 0 .. N /\ ~P(k)
    OBVIOUS
  <2>5. k # 0
    BY <1>4, <2>4
  <2>6. k - 1 \in 0 .. N /\ ~(k <= k - 1)
    BY <1>1, <2>4, <2>5
  <2>7. P(k - 1)
    BY <2>3, <2>6
  <2> QED BY <1>5, <2>4, <2>5, <2>7
<1>7. P(N)
  BY <1>1, <1>6
<1> QED BY <1>2, <1>7 DEF N

(* The spends of the DID that a source tells of.                           *)
ToldSpends(h, s) ==
  {i \in DOMAIN h : /\ <<"did", i>> \in s.lineage
                    /\ \/ <<"did", i + 1>> \in s.lineage
                       \/ s.spends[<<"did", i>>] # Nothing}

(* A source that tells of the DID is walked to the end of its lineage, or  *)
(* refused; the intermediates found are those of the spends it tells of.   *)
LEMMA AllAreReached ==
  ASSUME NEW h, NEW n, Spans(h, n), NEW s, Plausible(h, s), s.lineage \in Lineages(h)
  PROVE  \/ Intermediates(s).end \in Stops /\ Intermediates(s).mids = {}
         \/ /\ Intermediates(s).end = "found"
            /\ Intermediates(s).mids = MidsOf(h, ToldSpends(h, s))
<1> DEFINE w == Walk(s)
<1>1. /\ IsWalk(w) /\ w.visited \subseteq s.lineage
      /\ w.end \in {"walking", "walked"} => \E m \in 0 .. Length(h) : Along(h, s, w, m)
      /\ Lengthens(w, Cardinality(s.lineage))
  BY WalkReaches DEF Reached
<1>2. Intermediates(s) =
        IF w.end \notin {"walking", "walked"} THEN [end |-> w.end, mids |-> {}]
        ELSE IF Cardinality(w.visited) # Cardinality(s.lineage)
             THEN [end |-> "Unparseable", mids |-> {}]
        ELSE [end |-> "found", mids |-> w.mids]
  BY DEF Intermediates
<1> HIDE DEF w
<1>3. CASE w.end \notin {"walking", "walked"}
  BY <1>1, <1>2, <1>3 DEF IsWalk
<1>4. CASE w.end \in {"walking", "walked"} /\ Cardinality(w.visited) # Cardinality(s.lineage)
  BY <1>2, <1>4 DEF Stops
<1>5. CASE w.end \in {"walking", "walked"} /\ Cardinality(w.visited) = Cardinality(s.lineage)
  <2>1. IsFiniteSet(s.lineage)
    BY LineagesHold
  <2>2. w.visited = s.lineage /\ Cardinality(s.lineage) \in Nat
    BY <1>1, <1>5, <2>1, FS_Subset, FS_CardinalityType
  <2>3. w.end = "walked"
    BY <1>1, <1>5, <2>2 DEF Lengthens
  <2>4. PICK m \in 0 .. Length(h) : Along(h, s, w, m)
    BY <1>1, <1>5
  <2>5. m \in 0 .. n /\ m \in Nat /\ DOMAIN h = 0 .. n - 1 /\ n \in Nat /\ Length(h) = n
    BY DEF Spans
  <2>6. \A i \in DOMAIN h : i \in Passed(h, s, w) <=> i \in ToldSpends(h, s)
    <3> SUFFICES ASSUME NEW i \in DOMAIN h
                 PROVE  i \in Passed(h, s, w) <=> i \in ToldSpends(h, s)
      OBVIOUS
    <3>1. i \in Nat
      BY <2>5
    <3>2. CASE w.at = <<"did", m>> /\ w.visited = DidsTo(m)
      <4>1. /\ <<"did", i>> \in s.lineage <=> i <= m
            /\ <<"did", i + 1>> \in s.lineage <=> i + 1 <= m
            /\ <<"did", i>> # w.at <=> i # m
        BY <2>2, <2>5, <3>1, <3>2 DEF DidsTo
      <4>2. i <= m => (i # m <=> i + 1 <= m)
        BY <2>5, <3>1
      <4> QED BY <2>2, <2>3, <4>1, <4>2 DEF Passed, ToldSpends
    <3>3. CASE /\ w.at = <<"mid", m>> /\ m < Length(h)
               /\ w.visited = DidsTo(m) \cup {<<"mid", m>>}
               /\ s.spends[<<"did", m>>] # Nothing
      <4>1. /\ <<"did", i>> \in s.lineage <=> i <= m
            /\ <<"did", i + 1>> \in s.lineage <=> i + 1 <= m
            /\ <<"did", i>> # w.at
        BY <2>2, <2>5, <3>1, <3>3 DEF DidsTo
      <4>2. i <= m => i + 1 <= m \/ i = m
        BY <2>5, <3>1
      <4> QED BY <2>2, <2>3, <3>3, <4>1, <4>2 DEF Passed, ToldSpends
    <3> QED BY <2>4, <3>2, <3>3 DEF Along
  <2>7. Passed(h, s, w) = ToldSpends(h, s)
    BY <2>6 DEF Passed, ToldSpends
  <2>8. w.mids = MidsOf(h, ToldSpends(h, s))
    BY <2>4, <2>7 DEF Along
  <2> QED BY <1>2, <1>5, <2>8
<1> QED BY <1>3, <1>4, <1>5

(***************************************************************************)
(* The answer.                                                             *)
(***************************************************************************)
(* Asked about an intermediate of a DID, a plausible source names a launch *)
(* or none, or is refused; a launch it names is alive.                     *)
LEMMA LaunchesAreAlive ==
  ASSUME NEW h, NEW n, Spans(h, n), NEW s, Plausible(h, s),
         NEW i \in 0 .. n - 1, h[i] # "none"
  PROVE  /\ Launched(s, <<"mid", i>>) \in {"nothing", "live", "ChainUnreachable", "Unparseable"}
         /\ Launched(s, <<"mid", i>>) = "live" => h[i] = "live"
         /\ Launched(s, <<"mid", i>>) = "nothing" /\ h[i] = "live" =>
              s.spends[<<"mid", i>>] = Nothing \/ s.stores[<<"launcher", i>>] # "live"
<1> DEFINE m == <<"mid", i>>  l == <<"launcher", i>>  v == Launched(s, m)
<1>1. DOMAIN h = 0 .. n - 1 /\ i \in DOMAIN h
  BY DEF Spans
<1>2. m \in Coins(h)
  BY <1>1 DEF Coins
<1>3. /\ s.spends[m].of = m => s.spends[m] = TrueSpend(h, m)
      /\ m \notin Spends(h) => s.spends[m] = Nothing
  BY <1>2 DEF Plausible, SpendsAreOwn
<1>4. /\ m \in Spends(h) <=> h[i] \in {"live", "melted"}
      /\ h[i] \in {"live", "melted"} => TrueSpend(h, m) = SpendOf(m, {"launcher"})
  BY TrueSpends
<1>5. l \in Alive(h) <=> h[i] = "live"
  BY <1>1 DEF Alive
<1>6. s.stores[l] \in IF h[i] = "live" THEN {"live", "gone", "error"} ELSE {"gone"}
  BY <1>1, <1>5 DEF Plausible, StoresAreSeen
<1>7. Child(m, "launcher") = l
  BY DEF Child
<1>8. v = IF s.spends[m] = Failed THEN "ChainUnreachable"
          ELSE IF s.spends[m] = Nothing THEN "nothing"
          ELSE IF s.spends[m].of # m THEN "Unparseable"
          ELSE IF "launcher" \notin s.spends[m].creates THEN "nothing"
          ELSE IF s.stores[l] = "error" THEN "ChainUnreachable"
          ELSE IF s.stores[l] = "gone" THEN "nothing"
          ELSE "live"
  BY <1>7 DEF Launched
<1> HIDE DEF m, l, v
<1>9. \A c : SpendOf(m, c).creates = c
  BY DEF SpendOf
<1>10. CASE s.spends[m] = Failed \/ s.spends[m] = Nothing \/ s.spends[m].of # m
  BY <1>8, <1>10 DEF m, l, v
<1>11. CASE s.spends[m] # Failed /\ s.spends[m] # Nothing /\ s.spends[m].of = m
  <2>1. h[i] \in {"live", "melted"} /\ s.spends[m].creates = {"launcher"}
    BY <1>3, <1>4, <1>9, <1>11
  <2> QED BY <1>6, <1>8, <1>11, <2>1 DEF m, l, v
<1> QED BY <1>10, <1>11

(* A verdict on a set of stores tells of exactly these.                    *)
LEMMA VerdictTells ==
  ASSUME NEW stores, IsFiniteSet(stores)
  PROVE  /\ Verdict(stores).stores = stores
         /\ Tells(Verdict(stores), stores)
         /\ Verdict(stores).kind \notin Refusals
<1>1. Cardinality(stores) = 0 <=> stores = {}
  BY FS_EmptySet
<1>2. Cardinality(stores) = 1 <=> \E x : stores = {x}
  BY FS_Singleton
<1>3. Verdict(stores) =
        [kind |-> IF Cardinality(stores) = 0 THEN "NoProfileStore"
                  ELSE IF Cardinality(stores) = 1 THEN "Resolved" ELSE "Ambiguous",
         stores |-> stores]
  BY DEF Verdict, Answer
<1>4. Cardinality(stores) = 0 \/ Cardinality(stores) = 1
        \/ (Cardinality(stores) # 0 /\ Cardinality(stores) # 1)
  OBVIOUS
<1> QED BY <1>1, <1>2, <1>3 DEF Tells, Refusals

(* Finitely many launches.                                                 *)
LEMMA FewLaunches ==
  ASSUME NEW h, NEW n, Spans(h, n), NEW I \in SUBSET DOMAIN h
  PROVE  /\ IsFiniteSet({<<"launcher", i>> : i \in I})
         /\ IsFiniteSet(MidsOf(h, I))
<1>1. IsFiniteSet(DOMAIN h)
  BY FS_Interval DEF Spans
<1>2. IsFiniteSet(I)
  BY <1>1, FS_Subset
<1> DEFINE J == {j \in I : h[j] # "none"}
<1>3. IsFiniteSet(J)
  BY <1>2, FS_Subset
<1>4. [i \in I |-> <<"launcher", i>>] \in Surjection(I, {<<"launcher", i>> : i \in I})
  BY DEF Surjection
<1>5. [i \in J |-> <<"mid", i>>] \in Surjection(J, {<<"mid", i>> : i \in J})
  BY DEF Surjection
<1> QED BY <1>2, <1>3, <1>4, <1>5, FS_Surjection DEF MidsOf

(* What a source is answered: a refusal, or the live stores it tells of,   *)
(* and all of them unless it hides one.                                    *)
Truthful(h, s, answer) ==
  /\ answer.stores \subseteq Told(h, s)
  /\ answer.kind \notin Refusals /\ ~Hides(h, s) => Tells(answer, Told(h, s))

LEMMA ResolveIsTruthful ==
  ASSUME NEW h, NEW n, Spans(h, n), NEW s, Plausible(h, s)
  PROVE  /\ Truthful(h, s, Resolve(s))
         /\ /\ s.lineage \in Lineages(h) /\ <<"did", 0>> \in s.known
            /\ Intermediates(s).end = "found"
            /\ \A m \in Intermediates(s).mids : Launched(s, m) \in {"nothing", "live"}
            => Resolve(s).kind \notin Refusals
         /\ /\ s.lineage \in Lineages(h) /\ <<"did", 0>> \in s.known
            /\ Intermediates(s).end # "found"
            => Resolve(s) = Answer(Intermediates(s).end, {})
<1> DEFINE walked == Intermediates(s)
           bad    == {m \in walked.mids : Launched(s, m) \notin {"nothing", "live"}}
           first  == CHOOSE m \in bad : \A k \in bad : m[2] <= k[2]
           live   == {Child(m, "launcher") : m \in {k \in walked.mids : Launched(s, k) = "live"}}
<1>1. Resolve(s) =
        IF s.lineage = {Failed.of} THEN Answer("ChainUnreachable", {})
        ELSE IF s.lineage = {} THEN Answer("NoIdentitySingleton", {})
        ELSE IF <<"did", 0>> \notin s.known THEN Answer("Unparseable", {})
        ELSE IF walked.end # "found" THEN Answer(walked.end, {})
        ELSE IF bad # {} THEN Answer(Launched(s, first), {})
        ELSE Verdict(live)
  BY DEF Resolve
<1>2. ASSUME NEW kind \in Refusals, Resolve(s) = Answer(kind, {})
      PROVE  Truthful(h, s, Resolve(s))
  BY <1>2 DEF Truthful, Answer
<1>3. CASE s.lineage \notin Lineages(h)
  <2>1. s.lineage = {} \/ s.lineage = {Failed.of}
    BY <1>3 DEF Plausible
  <2>2. Resolve(s) = Answer("ChainUnreachable", {}) \/ Resolve(s) = Answer("NoIdentitySingleton", {})
    BY <1>1, <2>1
  <2> QED BY <1>2, <1>3, <2>2 DEF Refusals
<1>4. CASE s.lineage \in Lineages(h)
  <2>1. s.lineage # {} /\ s.lineage # {Failed.of}
    BY <1>4, LineagesHold DEF Failed
  <2>2. CASE <<"did", 0>> \notin s.known
    BY <1>1, <1>2, <2>1, <2>2 DEF Refusals
  <2>3. CASE <<"did", 0>> \in s.known /\ walked.end # "found"
    <3>1. Resolve(s) = Answer(walked.end, {})
      BY <1>1, <2>1, <2>3
    <3>2. walked.end \in Stops
      BY <1>4, <2>3, AllAreReached
    <3> QED BY <1>2, <2>3, <3>1, <3>2 DEF Stops, Refusals
  <2>4. CASE <<"did", 0>> \in s.known /\ walked.end = "found"
    <3>1. walked.mids = MidsOf(h, ToldSpends(h, s))
      BY <1>4, <2>4, AllAreReached DEF Stops
    <3>2. DOMAIN h = 0 .. n - 1 /\ n \in Nat
      BY DEF Spans
    <3>3. \A m \in walked.mids :
            \E i \in 0 .. n - 1 : i \in ToldSpends(h, s) /\ m = <<"mid", i>> /\ h[i] # "none"
      BY <3>1, <3>2 DEF MidsOf, ToldSpends
    <3> HIDE DEF walked
    <3>4. CASE bad # {}
      <4>1. first \in bad
        <5> DEFINE nums == {m[2] : m \in bad}
        <5>1. nums \in SUBSET Nat /\ nums # {}
          BY <3>2, <3>3, <3>4
        <5>2. PICK k \in nums : \A j \in nums : k <= j
          BY <5>1, LeastExists
        <5>3. \E m \in bad : \A j \in bad : m[2] <= j[2]
          BY <5>2
        <5> HIDE DEF bad
        <5> QED BY <5>3
      <4>2. Launched(s, first) \in {"ChainUnreachable", "Unparseable"}
        <5> HIDE DEF first
        <5>1. first \in walked.mids /\ Launched(s, first) \notin {"nothing", "live"}
          BY <4>1
        <5>2. PICK i \in 0 .. n - 1 : first = <<"mid", i>> /\ h[i] # "none"
          BY <3>3, <5>1
        <5>3. Launched(s, <<"mid", i>>) \in {"nothing", "live", "ChainUnreachable", "Unparseable"}
          BY <5>2, LaunchesAreAlive
        <5> QED BY <5>1, <5>2, <5>3
      <4>3. Resolve(s) = Answer(Launched(s, first), {})
        BY <1>1, <2>1, <2>4, <3>4
      <4> HIDE DEF first
      <4>4. Truthful(h, s, Resolve(s))
        BY <1>2, <4>2, <4>3 DEF Refusals
      <4> QED BY <2>4, <3>4, <4>4 DEF walked
    <3>5. CASE bad = {}
      <4> DEFINE L == {i \in ToldSpends(h, s) : h[i] = "live" /\ Launched(s, <<"mid", i>>) = "live"}
      <4>1. Resolve(s) = Verdict(live)
        BY <1>1, <2>1, <2>4, <3>5
      <4>2. \A m \in walked.mids : Launched(s, m) \in {"nothing", "live"}
        BY <3>5
      <4>3. live = {<<"launcher", i>> : i \in L}
        <5>1. \A i \in L : <<"mid", i>> \in walked.mids
          BY <3>1 DEF MidsOf
        <5>2. \A i : Child(<<"mid", i>>, "launcher") = <<"launcher", i>>
          BY DEF Child
        <5>3. \A m \in walked.mids : Launched(s, m) = "live" =>
                \E i \in L : m = <<"mid", i>>
          <6> SUFFICES ASSUME NEW m \in walked.mids, Launched(s, m) = "live"
                       PROVE  \E i \in L : m = <<"mid", i>>
            OBVIOUS
          <6>1. PICK i \in 0 .. n - 1 : i \in ToldSpends(h, s) /\ m = <<"mid", i>> /\ h[i] # "none"
            BY <3>3
          <6>2. h[i] = "live"
            BY <6>1, LaunchesAreAlive
          <6> QED BY <6>1, <6>2
        <5>4. ASSUME NEW x \in live
              PROVE  x \in {<<"launcher", i>> : i \in L}
          <6>1. PICK m \in walked.mids : Launched(s, m) = "live" /\ x = Child(m, "launcher")
            OBVIOUS
          <6>2. PICK i \in L : m = <<"mid", i>>
            BY <5>3, <6>1
          <6> QED BY <5>2, <6>1, <6>2
        <5>5. ASSUME NEW i \in L
              PROVE  <<"launcher", i>> \in live
          <6>1. <<"mid", i>> \in walked.mids /\ Launched(s, <<"mid", i>>) = "live"
            BY <5>1
          <6> QED BY <5>2, <6>1
        <5> HIDE DEF live, L
        <5> QED BY <5>4, <5>5
      <4>4. Told(h, s) = {<<"launcher", i>> : i \in {j \in ToldSpends(h, s) : h[j] = "live"}}
        <5>1. \A i : <<"launcher", i>>[2] = i
          OBVIOUS
        <5>2. Alive(h) = {<<"launcher", i>> : i \in {j \in DOMAIN h : h[j] = "live"}}
          BY DEF Alive
        <5>3. \A i : <<"launcher", i>> \in Told(h, s) <=> i \in ToldSpends(h, s) /\ h[i] = "live"
          BY <5>1, <5>2 DEF Told, ToldSpends
        <5>4. \A l \in Told(h, s) : \E i : l = <<"launcher", i>>
          BY <5>2 DEF Told
        <5> QED BY <5>3, <5>4
      <4>5. IsFiniteSet(live)
        <5>1. L \in SUBSET DOMAIN h
          BY DEF ToldSpends
        <5> HIDE DEF L, live
        <5> QED BY <4>3, <5>1, FewLaunches
      <4>6. live \subseteq Told(h, s)
        <5> HIDE DEF live
        <5> QED BY <4>3, <4>4
      <4>7. ASSUME ~Hides(h, s)
            PROVE  live = Told(h, s)
        <5>1. ASSUME NEW i \in ToldSpends(h, s), h[i] = "live"
              PROVE  i \in L
          <6>1. <<"launcher", i>> \in Told(h, s) /\ i \in 0 .. n - 1
            BY <3>2, <4>4, <5>1 DEF ToldSpends
          <6>2. <<"launcher", i>>[2] = i
            OBVIOUS
          <6>3. s.spends[<<"mid", i>>] # Nothing /\ s.stores[<<"launcher", i>>] = "live"
            BY <4>7, <6>1, <6>2 DEF Hides
          <6>4. <<"mid", i>> \in walked.mids
            BY <3>1, <5>1 DEF MidsOf
          <6> QED BY <4>2, <5>1, <6>1, <6>3, <6>4, LaunchesAreAlive
        <5> HIDE DEF live
        <5>2. Told(h, s) \subseteq live
          BY <4>3, <4>4, <5>1
        <5> QED BY <4>6, <5>2
      <4> HIDE DEF live
      <4> QED BY <2>4, <4>1, <4>5, <4>6, <4>7, VerdictTells DEF Truthful, walked
    <3> QED BY <3>4, <3>5
  <2> QED BY <2>2, <2>3, <2>4
<1> QED BY <1>3, <1>4

(***************************************************************************)
(* The chain's own answers.                                                *)
(***************************************************************************)
(* An honest walk is under way, has counted every launch, or has counted   *)
(* more than it may.                                                       *)
HonestWalk(h, w, k) ==
  /\ w.end \in {"walking", "walked", "TooManyLaunches"}
  /\ w.end = "walking" =>
       /\ k \in 0 .. Length(h) /\ w.at = <<"did", k>> /\ w.visited = DidsTo(k)
       /\ w.mids = MidsOf(h, 0 .. k - 1) /\ Cardinality(w.mids) <= MaxLaunches
  /\ w.end = "walked" => w.mids = Mids(h) /\ Cardinality(Mids(h)) <= MaxLaunches
                           /\ w.visited = DidCoins(h)
  /\ w.end = "TooManyLaunches" => Cardinality(Mids(h)) > MaxLaunches

(* A step of an honest walk.                                               *)
LEMMA HonestSteps ==
  ASSUME NEW h, NEW n, Spans(h, n), NEW w, IsWalk(w), NEW k \in Nat, HonestWalk(h, w, k)
  PROVE  HonestWalk(h, Step(Honest(h), w), k + 1)
<1> DEFINE s     == Honest(h)
           spend == s.spends[w.at]
           next  == {Child(w.at, j) : j \in spend.creates} \cap s.lineage
           mids  == w.mids \cup (IF "mid" \in spend.creates THEN {Child(w.at, "mid")} ELSE {})
           on    == CHOOSE c \in next : TRUE
           v     == Step(s, w)
<1>1. /\ n \in Nat \ {0} /\ DOMAIN h = 0 .. n - 1 /\ Length(h) = n
      /\ w = [at |-> w.at, mids |-> w.mids, visited |-> w.visited, end |-> w.end]
  BY DEF Spans, IsWalk
<1>2. s.lineage = DidCoins(h) /\ \A c \in Coins(h) : s.spends[c] = TrueSpend(h, c)
  BY DEF Honest
<1>3. Mids(h) = MidsOf(h, 0 .. n - 1) /\ DidCoins(h) = DidsTo(n)
  BY <1>1 DEF Mids, MidsOf, DidCoins, DidsTo
<1> HIDE DEF s
<1>4. CASE w.end # "walking"
  <2>1. v = w
    BY <1>4 DEF Step
  <2> QED BY <1>4, <2>1 DEF HonestWalk, s
<1>5. CASE w.end = "walking"
  <2>1. /\ k \in 0 .. n /\ w.at = <<"did", k>> /\ w.visited = DidsTo(k)
        /\ w.mids = MidsOf(h, 0 .. k - 1) /\ Cardinality(w.mids) <= MaxLaunches
    BY <1>1, <1>5 DEF HonestWalk
  <2>2. spend = TrueSpend(h, w.at) /\ (w.at \in Spends(h) <=> k < n)
    BY <1>2, <2>1, TrueSpends
  <2>3. CASE k = n
    <3>1. spend = Nothing /\ Nothing # Failed
      BY <1>1, <2>2, <2>3 DEF TrueSpend, Nothing, Failed
    <3>2. v = [w EXCEPT !.end = "walked"]
      BY <1>5, <3>1 DEF Step
    <3>3. v = [at |-> w.at, mids |-> w.mids, visited |-> w.visited, end |-> "walked"]
      BY <1>1, <3>2
    <3> QED BY <1>3, <2>1, <2>3, <3>3 DEF HonestWalk, s
  <2>4. CASE k < n
    <3>1. k \in 0 .. n - 1 /\ k \in DOMAIN h
      BY <1>1, <2>1, <2>4
    <3>2. TrueSpend(h, <<"did", k>>)
            = SpendOf(<<"did", k>>, {"did"} \cup (IF h[k] = "none" THEN {} ELSE {"mid"}))
      BY <3>1, TrueSpends
    <3>3. /\ spend.of = w.at
          /\ spend.creates = {"did"} \cup (IF h[k] = "none" THEN {} ELSE {"mid"})
      BY <2>1, <2>2, <3>2 DEF SpendOf
    <3>4. spend # Nothing /\ spend # Failed
      BY <2>1, <3>3 DEF Nothing, Failed
    <3>5. Child(w.at, "did") = <<"did", k + 1>> /\ Child(w.at, "mid") = <<"mid", k>>
      BY <2>1 DEF Child
    <3>6. mids = w.mids \cup (IF h[k] = "none" THEN {} ELSE {<<"mid", k>>})
      BY <3>3, <3>5
    <3>7. mids = MidsOf(h, 0 .. k)
      <4>1. \A i \in 0 .. k : i \in 0 .. k - 1 \/ i = k
        OBVIOUS
      <4> QED BY <2>1, <3>1, <3>6, <4>1 DEF MidsOf
    <3>8. next = {<<"did", k + 1>>}
      <4>1. <<"did", k + 1>> \in DidCoins(h) /\ <<"mid", k>> \notin DidCoins(h)
        BY <1>1, <3>1 DEF DidCoins
      <4> QED BY <1>2, <3>3, <3>5, <4>1
    <3> HIDE DEF mids, next, spend
    <3>9. CASE Cardinality(mids) > MaxLaunches
      <4>1. v = [w EXCEPT !.end = "TooManyLaunches"]
        BY <1>5, <3>3, <3>4, <3>9 DEF Step, mids, spend
      <4>2. v = [at |-> w.at, mids |-> w.mids, visited |-> w.visited, end |-> "TooManyLaunches"]
        BY <1>1, <4>1
      <4>3. Cardinality(Mids(h)) > MaxLaunches
        <5>1. mids \subseteq Mids(h)
          BY <1>1, <1>3, <3>1, <3>7 DEF MidsOf
        <5>2. IsFiniteSet(Mids(h))
          BY <1>1, <1>3, FewLaunches
        <5>3. /\ Cardinality(mids) <= Cardinality(Mids(h))
              /\ Cardinality(mids) \in Nat /\ Cardinality(Mids(h)) \in Nat
          BY <5>1, <5>2, FS_Subset, FS_CardinalityType
        <5> QED BY <3>9, <5>3, LineageAssumption
      <4> QED BY <4>2, <4>3 DEF HonestWalk, s
    <3>10. CASE ~(Cardinality(mids) > MaxLaunches)
      <4>1. Cardinality(next) = 1 /\ next # {}
        BY <3>8, FS_Singleton
      <4>2. ~(next \subseteq w.visited)
        BY <2>1, <3>8 DEF DidsTo
      <4>3. on = <<"did", k + 1>>
        BY <3>8
      <4>4. v = [w EXCEPT !.at = on, !.mids = mids, !.visited = @ \cup next]
        BY <1>5, <3>3, <3>4, <3>10, <4>1, <4>2 DEF Step, mids, spend, next
      <4> HIDE DEF on
      <4>5. v = [at |-> <<"did", k + 1>>, mids |-> mids, visited |-> w.visited \cup next,
                 end |-> "walking"]
        BY <1>1, <1>5, <4>3, <4>4
      <4>6. DidsTo(k + 1) = w.visited \cup next
        <5>1. \A i \in 0 .. k + 1 : i \in 0 .. k \/ i = k + 1
          OBVIOUS
        <5>2. 0 .. k \subseteq 0 .. k + 1 /\ k + 1 \in 0 .. k + 1
          OBVIOUS
        <5> QED BY <2>1, <3>8, <5>1, <5>2 DEF DidsTo
      <4>7. Cardinality(mids) <= MaxLaunches
        <5>1. IsFiniteSet(mids)
          <6>1. 0 .. k \in SUBSET DOMAIN h
            BY <1>1, <3>1
          <6> QED BY <3>7, <6>1, FewLaunches
        <5>2. Cardinality(mids) \in Nat
          BY <5>1, FS_CardinalityType
        <5> QED BY <3>10, <5>2, LineageAssumption
      <4>8. k + 1 \in 0 .. Length(h) /\ 0 .. k = 0 .. (k + 1) - 1
        BY <1>1, <3>1
      <4> HIDE DEF v
      <4>9. v.end = "walking" /\ v.at = <<"did", k + 1>> /\ v.mids = mids
            /\ v.visited = w.visited \cup next
        BY <4>5
      <4> QED BY <3>7, <4>6, <4>7, <4>8, <4>9 DEF HonestWalk, v, s
    <3> QED BY <3>9, <3>10
  <2> QED BY <2>1, <2>3, <2>4, <1>1
<1> QED BY <1>4, <1>5

(* An honest walk ends with every launch counted, or with too many.        *)
LEMMA HonestWalks ==
  ASSUME NEW h, NEW n, Spans(h, n)
  PROVE  LET walked == Intermediates(Honest(h))
         IN  \/ walked.end = "found" /\ Cardinality(Mids(h)) <= MaxLaunches
             \/ walked.end = "TooManyLaunches" /\ Cardinality(Mids(h)) > MaxLaunches
<1> DEFINE s == Honest(h)
           w == Walk(s)
           N == Cardinality(s.lineage)
<1>1. Plausible(h, s)
  BY HonestIsPlausible
<1>2. s.lineage = DidCoins(h) /\ DidCoins(h) \in Lineages(h)
  <2>1. s.lineage = DidCoins(h)
    BY DEF Honest
  <2>2. s.lineage # {} /\ s.lineage # {Failed.of}
    <3>1. <<"did", 0>> \in DidCoins(h)
      BY DEF DidCoins, Spans
    <3> QED BY <2>1, <3>1 DEF Failed
  <2> QED BY <1>1, <2>1, <2>2 DEF Plausible
<1> HIDE DEF s
<1>3. Reached(h, s, w) /\ Lengthens(w, N)
  BY <1>1, <1>2, WalkReaches
<1>4. N \in Nat /\ IsFiniteSet(s.lineage)
  BY <1>2, LineagesHold, FS_CardinalityType
<1>5. PICK f : Goes(f, s, N) /\ w = f[N]
  BY <1>4, WalksExist DEF Walk, Goes
<1>6. Intermediates(s) =
        IF w.end \notin {"walking", "walked"} THEN [end |-> w.end, mids |-> {}]
        ELSE IF Cardinality(w.visited) # Cardinality(s.lineage)
             THEN [end |-> "Unparseable", mids |-> {}]
        ELSE [end |-> "found", mids |-> w.mids]
  BY DEF Intermediates
<1> HIDE DEF N, w
<1>7. f[0] = Start /\ \A k \in 0 .. N : k # 0 => f[k] = Step(s, f[k - 1])
  BY <1>4, <1>5 DEF Goes
<1> DEFINE P(k) == IsWalk(f[k]) /\ HonestWalk(h, f[k], k)
           wrong == {k \in 0 .. N : ~P(k)}
<1>8. P(0)
  <2>1. f[0] = [at |-> <<"did", 0>>, mids |-> {}, visited |-> {<<"did", 0>>}, end |-> "walking"]
    BY <1>7 DEF Start
  <2>2. DidsTo(0) = {<<"did", 0>>} /\ MidsOf(h, 0 .. 0 - 1) = {} /\ Cardinality({}) = 0
    BY FS_EmptySet DEF DidsTo, MidsOf
  <2>3. 0 \in 0 .. Length(h) /\ 0 <= MaxLaunches
    BY LineageAssumption DEF Spans
  <2>4. IsWalk(f[0])
    BY <2>1 DEF IsWalk
  <2>5. /\ f[0].at = <<"did", 0>> /\ f[0].mids = {} /\ f[0].visited = {<<"did", 0>>}
        /\ f[0].end = "walking"
    BY <2>1
  <2>6. HonestWalk(h, f[0], 0)
    BY <2>2, <2>3, <2>5 DEF HonestWalk
  <2> QED BY <2>4, <2>6
<1>9. ASSUME NEW k \in 0 .. N, k # 0, P(k - 1)
      PROVE  P(k)
  <2>1. f[k] = Step(s, f[k - 1]) /\ k - 1 \in Nat /\ (k - 1) + 1 = k
    BY <1>4, <1>7, <1>9
  <2>2. HonestWalk(h, Step(s, f[k - 1]), (k - 1) + 1)
    BY <1>9, <2>1, HonestSteps DEF s
  <2>3. IsWalk(f[k])
    <3>1. f[k - 1] = [at |-> f[k - 1].at, mids |-> f[k - 1].mids,
                      visited |-> f[k - 1].visited, end |-> f[k - 1].end]
      BY <1>9 DEF IsWalk
    <3>2. f[k].end \in {"walking", "walked"} \cup Stops
      BY <2>1, <2>2 DEF HonestWalk, Stops
    <3> DEFINE u == f[k - 1]
    <3>3. u = [at |-> u.at, mids |-> u.mids, visited |-> u.visited, end |-> u.end]
      BY <3>1
    <3> HIDE DEF u
    <3>4. Step(s, u) = [at |-> Step(s, u).at, mids |-> Step(s, u).mids,
                        visited |-> Step(s, u).visited, end |-> Step(s, u).end]
      BY <3>3, Zenon DEF Step
    <3> QED BY <2>1, <3>2, <3>4 DEF IsWalk, u
  <2> QED BY <2>1, <2>2, <2>3
<1>10. wrong = {}
  <2>1. SUFFICES ASSUME wrong # {}
                 PROVE  FALSE
    OBVIOUS
  <2>2. wrong \in SUBSET Nat
    BY <1>4
  <2>3. PICK k \in wrong : \A j \in wrong : k <= j
    BY <2>1, <2>2, LeastExists
  <2>4. k \in 0 .. N /\ ~P(k)
    OBVIOUS
  <2>5. k # 0
    BY <1>8, <2>4
  <2>6. k - 1 \in 0 .. N /\ ~(k <= k - 1)
    BY <1>4, <2>4, <2>5
  <2>7. P(k - 1)
    BY <2>3, <2>6
  <2> QED BY <1>9, <2>4, <2>5, <2>7
<1>11. HonestWalk(h, w, N)
  BY <1>4, <1>5, <1>10
<1>12. CASE w.end = "walking"
  <2>1. Cardinality(w.visited) = N + 1 /\ w.visited \subseteq s.lineage
    BY <1>3, <1>12 DEF Lengthens, Reached
  <2>2. Cardinality(w.visited) <= N
    BY <1>4, <2>1, FS_Subset DEF N
  <2> QED BY <1>4, <2>1, <2>2
<1>13. CASE w.end = "walked"
  BY <1>2, <1>6, <1>11, <1>13 DEF HonestWalk, s
<1>14. CASE w.end = "TooManyLaunches"
  BY <1>6, <1>11, <1>14 DEF HonestWalk, s
<1> QED BY <1>11, <1>12, <1>13, <1>14 DEF HonestWalk

(* The chain's own answers are heard, for no more launches than counted.   *)
LEMMA HonestIsHeard ==
  ASSUME NEW h, NEW n, Spans(h, n)
  PROVE  IF Cardinality(Mids(h)) > MaxLaunches
         THEN Resolve(Honest(h)) = Answer("TooManyLaunches", {})
         ELSE Tells(Resolve(Honest(h)), Alive(h))
<1> DEFINE s == Honest(h)
<1>1. /\ s.lineage = DidCoins(h) /\ s.known = DidCoins(h)
      /\ \A c \in Coins(h) : s.spends[c] = TrueSpend(h, c)
      /\ \A i \in DOMAIN h :
           s.stores[<<"launcher", i>>] = IF <<"launcher", i>> \in Alive(h) THEN "live" ELSE "gone"
  BY DEF Honest
<1>2. DOMAIN h = 0 .. n - 1 /\ n \in Nat \ {0} /\ Length(h) = n
  BY DEF Spans
<1>3. Plausible(h, s)
  BY HonestIsPlausible
<1>4. <<"did", 0>> \in DidCoins(h)
  BY <1>2 DEF DidCoins
<1>5. DidCoins(h) \in Lineages(h)
  BY <1>1, <1>3, <1>4 DEF Plausible, Failed
<1> HIDE DEF s
<1>6. CASE Cardinality(Mids(h)) > MaxLaunches
  <2>1. Cardinality(Mids(h)) \in Nat
    <3>1. Mids(h) = MidsOf(h, DOMAIN h)
      BY DEF Mids, MidsOf
    <3>2. DOMAIN h \in SUBSET DOMAIN h
      OBVIOUS
    <3> QED BY <3>1, <3>2, FewLaunches, FS_CardinalityType
  <2>2. ~(Cardinality(Mids(h)) <= MaxLaunches)
    BY <1>6, <2>1, LineageAssumption
  <2>3. Intermediates(s).end = "TooManyLaunches"
    BY <2>2, HonestWalks DEF s
  <2>4. Resolve(s) = Answer("TooManyLaunches", {})
    BY <1>1, <1>3, <1>4, <1>5, <2>3, ResolveIsTruthful
  <2> QED BY <1>6, <2>4 DEF s
<1>7. CASE ~(Cardinality(Mids(h)) > MaxLaunches)
  <2>1. Intermediates(s).end = "found"
    BY <1>7, HonestWalks DEF s
  <2>2. ASSUME NEW i \in 0 .. n - 1, h[i] # "none"
        PROVE  Launched(s, <<"mid", i>>) \in {"nothing", "live"}
    <3> DEFINE m == <<"mid", i>>
    <3>1. m \in Coins(h) /\ s.spends[m] = TrueSpend(h, m)
      BY <1>1, <1>2 DEF Coins
    <3>2. Nothing # Failed
      BY DEF Nothing, Failed
    <3>3. Child(m, "launcher") = <<"launcher", i>>
      BY DEF Child
    <3>4. s.stores[<<"launcher", i>>] \in {"live", "gone"}
      BY <1>1, <1>2
    <3>5. CASE m \notin Spends(h)
      BY <3>1, <3>2, <3>5, TrueSpends DEF Launched
    <3>6. CASE m \in Spends(h)
      <4>1. s.spends[m] = SpendOf(m, {"launcher"})
        BY <3>1, <3>6, TrueSpends
      <4>2. s.spends[m].of = m /\ s.spends[m].creates = {"launcher"}
        BY <4>1 DEF SpendOf
      <4>3. s.spends[m] # Failed
        BY <4>2 DEF Failed
      <4> QED BY <3>3, <3>4, <4>2, <4>3 DEF Launched
    <3> QED BY <3>5, <3>6
  <2>3. \A m \in Intermediates(s).mids : Launched(s, m) \in {"nothing", "live"}
    <3>1. Intermediates(s).mids = MidsOf(h, ToldSpends(h, s))
      BY <1>1, <1>3, <1>5, <2>1, AllAreReached DEF Stops
    <3> QED BY <1>2, <2>2, <3>1 DEF MidsOf, ToldSpends
  <2>4. Resolve(s).kind \notin Refusals
    BY <1>1, <1>3, <1>4, <1>5, <2>1, <2>3, ResolveIsTruthful
  <2>5. \A i \in DOMAIN h : <<"did", i>> \in s.lineage /\ <<"did", i + 1>> \in s.lineage
    BY <1>1, <1>2 DEF DidCoins
  <2>6. \A l \in Alive(h) : \E i \in DOMAIN h : l = <<"launcher", i>> /\ h[i] = "live"
    BY DEF Alive
  <2>7. Told(h, s) = Alive(h)
    BY <2>5, <2>6 DEF Told
  <2>8. ~Hides(h, s)
    <3> SUFFICES ASSUME NEW l \in Alive(h)
                 PROVE  s.spends[<<"mid", l[2]>>] # Nothing /\ s.stores[l] = "live"
      BY <2>7 DEF Hides
    <3>1. PICK i \in DOMAIN h : l = <<"launcher", i>> /\ h[i] = "live"
      BY <2>6
    <3>2. l[2] = i
      BY <3>1
    <3>3. <<"mid", i>> \in Coins(h)
      BY <3>1 DEF Coins
    <3>4. s.spends[<<"mid", i>>] = SpendOf(<<"mid", i>>, {"launcher"})
      BY <1>1, <1>2, <3>1, <3>3, TrueSpends
    <3>5. SpendOf(<<"mid", i>>, {"launcher"}) # Nothing
      BY DEF SpendOf, Nothing
    <3> QED BY <1>1, <3>1, <3>2, <3>4, <3>5
  <2> QED BY <1>3, <1>7, <2>4, <2>7, <2>8, ResolveIsTruthful DEF Truthful, s
<1> QED BY <1>6, <1>7

(* What an anchor's re-reading comes to.                                   *)
LEMMA SilenceIsNoAnswer == SilenceProvesNothing
<1>1. \A r \in Records :
        Reread(r) = IF r \in {"absent", "elsewhere"} THEN "Contradicted"
                    ELSE IF r = "height 1" THEN "Verified" ELSE "Unknown"
  BY DEF Records, Reread, ConfirmCoin
<1>2. \A r \in Records : \A v \in Vaguer(r) :
        v \in Records /\ (Reread(v) = Reread(r) \/ Reread(v) = "Unknown")
  BY <1>1 DEF Records, Vaguer
<1>3. \A d, e : VerifyAnchor(d, e) =
        IF "Contradicted" \in {d, e} THEN "Contradicted"
        ELSE IF d = "Verified" /\ e = "Verified" THEN "Verified" ELSE "Unknown"
  BY DEF VerifyAnchor
<1> SUFFICES ASSUME NEW did \in Records, NEW store \in Records
             PROVE  LET told == VerifyAnchor(Reread(did), Reread(store))
                    IN  /\ told = "Verified" <=> did = "height 1" /\ store = "height 1"
                        /\ told = "Contradicted" <=> {did, store} \cap {"absent", "elsewhere"} # {}
                        /\ \A d \in Vaguer(did), s \in Vaguer(store) :
                             VerifyAnchor(Reread(d), Reread(s)) \in {told, "Unknown"}
  BY DEF SilenceProvesNothing
<1>4. {did, store} \cap {"absent", "elsewhere"} # {}
        <=> did \in {"absent", "elsewhere"} \/ store \in {"absent", "elsewhere"}
  OBVIOUS
<1> DEFINE told == VerifyAnchor(Reread(did), Reread(store))
<1>5. told = "Verified" <=> did = "height 1" /\ store = "height 1"
  BY <1>1, <1>3
<1>6. told = "Contradicted" <=> {did, store} \cap {"absent", "elsewhere"} # {}
  BY <1>1, <1>3, <1>4
<1>7. ASSUME NEW d \in Vaguer(did), NEW s \in Vaguer(store)
      PROVE  VerifyAnchor(Reread(d), Reread(s)) \in {told, "Unknown"}
  <2>1. Reread(d) \in {Reread(did), "Unknown"} /\ Reread(s) \in {Reread(store), "Unknown"}
    BY <1>2
  <2> QED BY <1>1, <1>3, <2>1
<1> QED BY <1>5, <1>6, <1>7

(* However many answers of a source are wrong, and however they combine:   *)
(* a resolution names live stores of this DID only, and all that the       *)
(* source tells of, unless it hides the intermediate's spend or the store  *)
(* itself; a spend of the DID it withholds is refused and never read as an *)
(* absence (profile_resolve.rs profile_intermediates, its check that every *)
(* coin of the lineage was reached).                                       *)
THEOREM ErringSourcesAreRefused ==
  \A h \in Histories : \A s : Plausible(h, s) => Truthful(h, s, Resolve(s))
BY HistoriesSpan, ResolveIsTruthful

(* For every history of a DID and limit of launches: the stores a source   *)
(* is said to tell of are live stores of this DID, and all of them unless  *)
(* the source hides a launch outright; an honest source is refused only    *)
(* for too many launches; and silence never contradicts an anchor          *)
(* (profile_resolve.rs resolve_profile_store, registry/verify.rs).        *)
THEOREM ResolutionProven == Spec => []ResolutionIsTrue
<1>1. AnswersAreTrue
  <2> SUFFICES ASSUME NEW h \in Histories, NEW s \in Twice(h)
               PROVE  Truthful(h, s, Resolve(s))
    BY DEF AnswersAreTrue, Truthful
  <2>1. Plausible(h, s)
    BY SourcesArePlausible
  <2> QED BY <2>1, ErringSourcesAreRefused
<1>2. HonestSourcesAreHeard
  <2> SUFFICES ASSUME NEW h \in Histories
               PROVE  IF Cardinality(Mids(h)) > MaxLaunches
                      THEN Resolve(Honest(h)) = Answer("TooManyLaunches", {})
                      ELSE Tells(Resolve(Honest(h)), Alive(h))
    BY DEF HonestSourcesAreHeard
  <2>1. Spans(h, Length(h))
    BY HistoriesSpan
  <2> QED BY <2>1, HonestIsHeard
<1>3. ResolutionIsTrue
  BY <1>1, <1>2, SilenceIsNoAnswer DEF ResolutionIsTrue
<1> QED BY <1>3, PTL

=============================================================================
