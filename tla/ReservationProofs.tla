-------------------------- MODULE ReservationProofs --------------------------
(***************************************************************************)
(* Proofs about Reservation, for every set of builders, coins, requests    *)
(* and every TTL.  The argument: a thread's clock reading is never ahead   *)
(* of the clock, so its sweep removes only entries that have lapsed;       *)
(* handles are unique, so a release removes only its own entry; hence a    *)
(* grant that has not lapsed is still in the table, and the table's        *)
(* entries never share a coin.                                             *)
(***************************************************************************)
EXTENDS SelectionReference, SumProofs

ReadingsArePast == \A b \in Builders : build[b].seen <= clock

EntriesDisjoint == \A e, f \in entries : e # f => e.coins \cap f.coins = {}

HandlesAreUnique ==
  /\ \A g \in grants : g.id < nextId
  /\ \A g, h \in grants : g.id = h.id => g = h

(* The inductive invariant.                                                *)
IInv ==
  /\ TypeOK
  /\ ReadingsArePast
  /\ EntriesDisjoint
  /\ HandlesAreUnique
  /\ NoOrphanReservation
  /\ LiveGrantIsHeld

(***************************************************************************)
(* The selectors choose among the coins of the listing.                    *)
(***************************************************************************)
Answer == [verdict : STRING, coins : SUBSET Coins]

(* A selection of many coins chooses among those listed.                   *)
LEMMA ManyAmongListed ==
  ASSUME NEW pool \in SUBSET Coins, NEW reserved, NEW required, NEW shortfall,
         NEW a \in SelectMany(ListingOf(pool), reserved, required, shortfall)
  PROVE  a.coins \subseteq pool
<1> DEFINE free == Spendable(ListingOf(pool)) \ reserved
<1>1. free \subseteq pool
  BY DEF Spendable, ListingOf
<1>2. CASE a \in FewestInputs(ListingOf(pool), free, required)
  BY <1>1, <1>2 DEF FewestInputs, SmallestCovering, Covering, LargestFirst, Chosen, Refused
<1>3. CASE a \notin FewestInputs(ListingOf(pool), free, required)
  BY <1>3 DEF SelectMany, Refused
<1> QED BY <1>2, <1>3

(* A selection of one coin chooses among those listed.                     *)
LEMMA OneAmongListed ==
  ASSUME NEW pool \in SUBSET Coins, NEW reserved, NEW required,
         NEW a \in SelectOne(ListingOf(pool), reserved, required)
  PROVE  a.coins \subseteq pool
<1> DEFINE free == Spendable(ListingOf(pool)) \ reserved
<1>1. free \subseteq pool
  BY DEF Spendable, ListingOf
<1> QED BY <1>1 DEF SelectOne, SmallestCovering, Covering, Chosen, Refused

(* Whatever is asked for, a selector's answer is a set of the wallet's     *)
(* coins (empty when it refuses).                                          *)
LEMMA SelectionsAreCoins ==
  ASSUME NEW r, NEW reserved, NEW a \in Selections(r, reserved)
  PROVE  a.coins \subseteq Coins
<1> USE ReservationAssumption
<1>1. \A x \in TransferSelect(Xch, reserved, Required(r)) : x.coins \subseteq Coins
  BY ManyAmongListed DEF TransferSelect, Xch
<1>2. \A x \in FundingSelect(Xch, reserved, Required(r)) : x.coins \subseteq Coins
  BY OneAmongListed DEF FundingSelect, Xch
<1>3. \A x \in CatAndFee(r, reserved) : x.coins \subseteq Coins
  <2>1. \A x \in CatSelect(Cat, reserved, r.amount) : x.coins \subseteq Coins
    BY ManyAmongListed DEF CatSelect, Cat
  <2>2. \A x \in FeeSelect(Xch, reserved, r.fee) : x.coins \subseteq Coins
    BY OneAmongListed DEF FeeSelect, Xch, Chosen, Refused
  <2> QED BY <2>1, <2>2 DEF CatAndFee, Chosen
<1> QED BY <1>1, <1>2, <1>3 DEF Selections

(***************************************************************************)
(* The inductive invariant.                                                *)
(***************************************************************************)
LEMMA InitIInv == Init => IInv
  BY ReservationAssumption
  DEF Init, IInv, TypeOK, Build, Idle, Stages, ReadingsArePast, EntriesDisjoint,
      HandlesAreUnique, NoOrphanReservation, LiveGrantIsHeld

(* A sweep with any reading a thread can have removes only lapsed entries. *)
LEMMA SweepKeepsTheLive ==
  ASSUME IInv, NEW b \in Builders
  PROVE  \A g \in entries : Live(g) => g \in Unlapsed(build[b].seen)
  BY DEF IInv, TypeOK, ReadingsArePast, Entry, Build, Live, Unlapsed

(* Steps that change no reservation.                                       *)
LEMMA QuietStep ==
  ASSUME IInv, TypeOK', ReadingsArePast',
         UNCHANGED <<clock, entries, nextId, grants>>
  PROVE  IInv'
  BY DEF IInv, EntriesDisjoint, HandlesAreUnique, NoOrphanReservation,
         LiveGrantIsHeld, Live

(* Steps in which the table is swept and nothing else changes.             *)
LEMMA SweepStep ==
  ASSUME IInv, TypeOK', ReadingsArePast', NEW b \in Builders,
         entries' = Unlapsed(build[b].seen),
         UNCHANGED <<clock, nextId, grants>>
  PROVE  IInv'
<1>1. \A g \in entries : Live(g) => g \in entries'
  BY SweepKeepsTheLive
<1>2. entries' \subseteq entries
  BY DEF Unlapsed
<1> QED
  BY <1>1, <1>2 DEF IInv, EntriesDisjoint, HandlesAreUnique, NoOrphanReservation,
                    LiveGrantIsHeld, Live

(* Steps in which the owner of a handle gives it up.                       *)
LEMMA GiveUpStep ==
  ASSUME IInv, TypeOK', ReadingsArePast', NEW id,
         entries' = Without(entries, id),
         grants' = Without(grants, id),
         UNCHANGED <<clock, nextId>>
  PROVE  IInv'
  BY DEF IInv, Without, EntriesDisjoint, HandlesAreUnique, NoOrphanReservation,
         LiveGrantIsHeld, Live

(* One thread's record is replaced by a record of the type, whose reading  *)
(* of the clock is not ahead of it.                                        *)
LEMMA OneBuildChanges ==
  ASSUME TypeOK, ReadingsArePast, clock' = clock,
         NEW b \in Builders, NEW r \in Build, r.seen <= clock,
         build' = [build EXCEPT ![b] = r]
  PROVE  build' \in [Builders -> Build] /\ ReadingsArePast'
<1>1. build \in [Builders -> Build]
  BY DEF TypeOK
<1>2. build' \in [Builders -> Build]
  BY <1>1
<1>3. \A x \in Builders : build'[x] = IF x = b THEN r ELSE build[x]
  BY <1>1
<1>4. ReadingsArePast'
  BY <1>3 DEF ReadingsArePast
<1> QED BY <1>2, <1>4

(* The builder of b returns.                                               *)
LEMMA ReturnKeeps ==
  ASSUME TypeOK, ReadingsArePast, clock' = clock, NEW b \in Builders, Return(b)
  PROVE  build' \in [Builders -> Build] /\ ReadingsArePast'
<1>1. Idle \in Build /\ Idle.seen = 0
  BY DEF Idle, Build, Stages
<1>2. clock \in Nat
  BY DEF TypeOK
<1>3. build' = [build EXCEPT ![b] = Idle]
  BY DEF Return
<1>4. Idle.seen <= clock
  BY <1>1, <1>2
<1> HIDE DEF Idle
<1> QED BY <1>1, <1>3, <1>4, OneBuildChanges

(* A builder's step keeps the invariant.                                   *)
LEMMA BuilderStepIInv ==
  ASSUME IInv, NEW b \in Builders, BuilderStep(b)
  PROVE  IInv'
<1> USE ReservationAssumption
<1>1. TypeOK /\ ReadingsArePast
  BY DEF IInv
<1>2. build[b] \in Build /\ build[b].seen <= clock /\ clock \in Nat
  BY <1>1 DEF TypeOK, ReadingsArePast
<1>3. Unlapsed(build[b].seen) \subseteq entries
  BY DEF Unlapsed
<1>4. HeldIn(Unlapsed(build[b].seen)) \subseteq Coins
  BY <1>1, <1>3 DEF HeldIn, TypeOK, Entry
<1>5. CASE Held(b)
  <2> DEFINE r == [build[b] EXCEPT !.stage = "selecting",
                                   !.excluded = HeldIn(Unlapsed(build[b].seen))]
  <2>1. build' = [build EXCEPT ![b] = r]
    BY <1>5 DEF Held
  <2>2. r \in Build /\ r.seen <= clock
    BY <1>2, <1>4 DEF Build, Stages
  <2>3. clock' = clock
    BY <1>5 DEF Held
  <2> HIDE DEF r
  <2>4. build' \in [Builders -> Build] /\ ReadingsArePast'
    BY <1>1, <2>1, <2>2, <2>3, OneBuildChanges
  <2>5. TypeOK'
    BY <1>1, <1>3, <1>5, <2>4 DEF Held, TypeOK, chain
  <2> QED BY <2>4, <2>5, <1>5, SweepStep DEF Held
<1>6. CASE Select(b)
  <2>1. PICK answer \in Selections(build[b].request, build[b].excluded) :
          build' = [build EXCEPT ![b].stage = "confirming", ![b].chosen = answer.coins]
    BY <1>6 DEF Select
  <2> DEFINE r == [build[b] EXCEPT !.stage = "confirming", !.chosen = answer.coins]
  <2>2. answer.coins \subseteq Coins
    BY SelectionsAreCoins
  <2>3. build' = [build EXCEPT ![b] = r]
    BY <2>1
  <2>4. r \in Build /\ r.seen <= clock
    BY <1>2, <2>2 DEF Build, Stages
  <2>5. clock' = clock
    BY <1>6 DEF Select
  <2> HIDE DEF r
  <2>6. build' \in [Builders -> Build] /\ ReadingsArePast'
    BY <1>1, <2>3, <2>4, <2>5, OneBuildChanges
  <2>7. TypeOK'
    BY <1>1, <1>6, <2>6 DEF Select, TypeOK, store, chain
  <2> QED BY <2>6, <2>7, <1>6, QuietStep DEF Select, store
<1>7. CASE SelectRefused(b) \/ Commit(b)
  <2>1. Return(b) /\ UNCHANGED <<clock, store, grants, chain>>
    BY <1>7 DEF SelectRefused, Commit
  <2>2. build' \in [Builders -> Build] /\ ReadingsArePast'
    BY <1>1, <2>1, ReturnKeeps
  <2>3. TypeOK'
    BY <1>1, <2>1, <2>2 DEF TypeOK, store, chain
  <2> QED BY <2>1, <2>2, <2>3, QuietStep DEF store
<1>8. CASE ConfirmByName(b)
  <2>1. UNCHANGED <<clock, store, grants, chain>>
    BY <1>8 DEF ConfirmByName
  <2>2. build' \in [Builders -> Build] /\ ReadingsArePast'
    <3>1. CASE Return(b)
      BY <1>1, <2>1, <3>1, ReturnKeeps
    <3>2. CASE build' = [build EXCEPT ![b].stage = "timing"]
      <4> DEFINE r == [build[b] EXCEPT !.stage = "timing"]
      <4>1. build' = [build EXCEPT ![b] = r]
        BY <3>2
      <4>2. r \in Build /\ r.seen <= clock
        BY <1>2 DEF Build, Stages
      <4> HIDE DEF r
      <4> QED BY <1>1, <2>1, <4>1, <4>2, OneBuildChanges
    <3> QED BY <1>8, <3>1, <3>2 DEF ConfirmByName
  <2>3. TypeOK'
    BY <1>1, <2>1, <2>2 DEF TypeOK, store, chain
  <2> QED BY <2>1, <2>2, <2>3, QuietStep DEF store
<1>9. CASE ReadClock(b)
  <2> DEFINE r == [build[b] EXCEPT !.stage = "reserving", !.seen = clock]
  <2>1. build' = [build EXCEPT ![b] = r] /\ UNCHANGED <<clock, store, grants, chain>>
    BY <1>9 DEF ReadClock
  <2>2. r \in Build /\ r.seen <= clock
    <3>1. r.seen = clock
      BY <1>2 DEF Build
    <3>2. clock <= clock
      BY <1>2
    <3>3. r \in Build
      BY <1>2 DEF Build, Stages
    <3> HIDE DEF r
    <3> QED BY <3>1, <3>2, <3>3
  <2> HIDE DEF r
  <2>3. build' \in [Builders -> Build] /\ ReadingsArePast'
    BY <1>1, <2>1, <2>2, OneBuildChanges
  <2>4. TypeOK'
    BY <1>1, <2>1, <2>3 DEF TypeOK, store, chain
  <2> QED BY <2>1, <2>3, <2>4, QuietStep DEF store
<1>10. CASE Reserve(b)
  <2> DEFINE new == Granted(b)
             r == [Idle EXCEPT !.stage = "guarding", !.guard = nextId]
  <2>1. new \in Entry /\ new.id = nextId /\ new.coins = build[b].chosen
    <3>1. nextId \in Nat
      BY <1>1 DEF TypeOK
    <3>2. build[b].chosen \in SUBSET Coins /\ build[b].seen + Ttl \in Nat
      BY <1>2 DEF Build
    <3> QED BY <3>1, <3>2 DEF Granted, Entry
  <2>2. entries' = Unlapsed(build[b].seen) \cup {new}
    BY <1>10 DEF Reserve
  <2>3. grants' = grants \cup {new} /\ nextId' = nextId + 1 /\ clock' = clock
    BY <1>10 DEF Reserve
  <2>4. TypeOK' /\ ReadingsArePast'
    <3>1. build' = [build EXCEPT ![b] = r]
      BY <1>10 DEF Reserve
    <3>2. r \in Build /\ r.seen <= clock
      <4>1. nextId \in Nat
        BY <1>1 DEF TypeOK
      <4>2. r \in Build
        BY <4>1 DEF Idle, Build, Stages
      <4>3. r.seen = 0
        BY DEF Idle
      <4>4. 0 <= clock
        BY <1>2
      <4> HIDE DEF r
      <4> QED BY <4>2, <4>3, <4>4
    <3> HIDE DEF new, r
    <3>3. build' \in [Builders -> Build] /\ ReadingsArePast'
      BY <1>1, <2>3, <3>1, <3>2, OneBuildChanges
    <3>4. entries' \subseteq Entry /\ grants' \subseteq Entry
      BY <1>1, <1>3, <2>1, <2>2, <2>3 DEF TypeOK
    <3> QED BY <1>1, <1>10, <2>3, <3>3, <3>4 DEF Reserve, TypeOK, chain
  <2>5. EntriesDisjoint'
    <3>1. \A e \in Unlapsed(build[b].seen) : e.coins \cap new.coins = {}
      BY <1>10, <2>1 DEF Reserve, HeldIn
    <3> HIDE DEF new
    <3> QED BY <1>3, <2>2, <3>1 DEF IInv, EntriesDisjoint
  <2>6. HandlesAreUnique'
    <3> HIDE DEF new
    <3>1. \A g \in grants : g.id \in Nat /\ g.id < nextId
      BY <1>1 DEF IInv, HandlesAreUnique, TypeOK, Entry
    <3>2. nextId \in Nat
      BY <1>1 DEF TypeOK
    <3> QED BY <2>1, <2>3, <3>1, <3>2 DEF IInv, HandlesAreUnique
  <2>7. NoOrphanReservation'
    <3> HIDE DEF new
    <3> QED BY <1>3, <2>2, <2>3 DEF IInv, NoOrphanReservation
  <2>8. LiveGrantIsHeld'
    <3>1. \A g \in grants : Live(g) => g \in Unlapsed(build[b].seen)
      BY SweepKeepsTheLive DEF IInv, LiveGrantIsHeld
    <3> HIDE DEF new
    <3> QED BY <2>2, <2>3, <3>1 DEF LiveGrantIsHeld, Live
  <2> QED BY <2>4, <2>5, <2>6, <2>7, <2>8 DEF IInv
<1>11. CASE ReserveConflict(b)
  <2>1. PICK clash \in build[b].chosen \cap HeldIn(Unlapsed(build[b].seen)) :
          IF build[b].tries + 1 < MaxAttempts
          THEN build' = [build EXCEPT ![b].stage = "selecting",
                                      ![b].excluded = @ \cup {clash},
                                      ![b].tries = @ + 1]
          ELSE Return(b)
    BY <1>11 DEF ReserveConflict
  <2>2. entries' = Unlapsed(build[b].seen) /\ UNCHANGED <<clock, nextId, grants, chain>>
    BY <1>11 DEF ReserveConflict
  <2>3. build' \in [Builders -> Build] /\ ReadingsArePast'
    <3>1. CASE Return(b)
      BY <1>1, <2>2, <3>1, ReturnKeeps
    <3>2. CASE build' = [build EXCEPT ![b].stage = "selecting",
                                      ![b].excluded = @ \cup {clash},
                                      ![b].tries = @ + 1]
      <4> DEFINE r == [build[b] EXCEPT !.stage = "selecting",
                                       !.excluded = build[b].excluded \cup {clash},
                                       !.tries = build[b].tries + 1]
      <4>1. build' = [build EXCEPT ![b] = r]
        BY <3>2
      <4>2. clash \in Coins
        BY <1>4
      <4>3. build[b].excluded \cup {clash} \in SUBSET Coins /\ build[b].tries + 1 \in Nat
        BY <1>2, <4>2 DEF Build
      <4>4. r \in Build
        BY <1>2, <4>3 DEF Build, Stages
      <4>5. r.seen <= clock
        BY <1>2 DEF Build
      <4> HIDE DEF r
      <4> QED BY <1>1, <2>2, <4>1, <4>4, <4>5, OneBuildChanges
    <3> QED BY <2>1, <3>1, <3>2
  <2>4. TypeOK'
    BY <1>1, <1>3, <2>2, <2>3 DEF TypeOK, chain
  <2> QED BY <2>2, <2>3, <2>4, SweepStep
<1>12. CASE Drop(b)
  <2>1. Return(b) /\ UNCHANGED <<clock, nextId, chain>>
    BY <1>12 DEF Drop
  <2>2. build' \in [Builders -> Build] /\ ReadingsArePast'
    BY <1>1, <2>1, ReturnKeeps
  <2>3. TypeOK'
    BY <1>1, <1>12, <2>1, <2>2 DEF Drop, TypeOK, chain, Without
  <2> QED BY <2>2, <2>3, <1>12, GiveUpStep DEF Drop
<1> QED
  BY <1>5, <1>6, <1>7, <1>8, <1>9, <1>10, <1>11, <1>12 DEF BuilderStep

(* The start of a build keeps the invariant.                               *)
LEMMA StartIInv ==
  ASSUME IInv, NEW b \in Builders, NEW r \in Requests, Start(b, r)
  PROVE  IInv'
<1>1. build' = [build EXCEPT ![b] = [stage |-> "holding", request |-> r, seen |-> clock,
                                     excluded |-> {}, chosen |-> {}, tries |-> 0, guard |-> 0]]
  BY DEF Start
<1>2. build' \in [Builders -> Build]
  BY <1>1 DEF IInv, TypeOK, Build, Stages
<1>3. TypeOK' /\ ReadingsArePast'
  BY <1>1, <1>2 DEF Start, IInv, TypeOK, ReadingsArePast, store, chain
<1> QED BY <1>3, QuietStep DEF Start, store

(* The host's, the chain's and the clock's steps keep it.                  *)
LEMMA HostStepIInv ==
  ASSUME IInv, NEW g, \/ g \in grants /\ (Push(g) \/ Release(g))
                      \/ g \in mempool /\ Include(g)
  PROVE  IInv'
<1>1. CASE Push(g)
  <2>1. TypeOK' /\ ReadingsArePast'
    BY <1>1 DEF Push, Plans, IInv, TypeOK, ReadingsArePast, store
  <2> QED BY <2>1, <1>1, QuietStep DEF Push, store
<1>2. CASE Include(g)
  <2>1. TypeOK' /\ ReadingsArePast'
    BY <1>2 DEF Include, IInv, TypeOK, ReadingsArePast, Entry, store
  <2> QED BY <2>1, <1>2, QuietStep DEF Include, store
<1>3. CASE g \in grants /\ Release(g)
  <2>1. TypeOK' /\ ReadingsArePast'
    BY <1>3 DEF Release, IInv, TypeOK, ReadingsArePast, Without, chain
  <2>2. grants' = Without(grants, g.id)
    BY <1>3 DEF Release, Without, IInv, HandlesAreUnique
  <2> QED BY <2>1, <2>2, <1>3, GiveUpStep DEF Release
<1> QED BY <1>1, <1>2, <1>3

(* The invariant is kept by every step.                                    *)
LEMMA NextIInv == IInv /\ [Next]_vars => IInv'
<1> SUFFICES ASSUME IInv, [Next]_vars PROVE IInv'
  OBVIOUS
<1>1. ASSUME NEW b \in Builders, BuilderStep(b) PROVE IInv'
  BY <1>1, BuilderStepIInv
<1>2. ASSUME NEW b \in Builders, NEW r \in Requests, Start(b, r) PROVE IInv'
  BY <1>2, StartIInv
<1>3. ASSUME NEW g \in grants, Push(g) \/ Release(g) PROVE IInv'
  BY <1>3, HostStepIInv
<1>4. ASSUME NEW g \in mempool, Include(g) PROVE IInv'
  BY <1>4, HostStepIInv
<1>5. CASE Tick
  <2>1. clock' = clock + 1 /\ UNCHANGED <<store, grants, build, chain>>
    BY <1>5 DEF Tick
  <2>2. TypeOK' /\ ReadingsArePast'
    BY <2>1 DEF IInv, TypeOK, ReadingsArePast, Build, store, chain
  <2>3. \A g \in grants : Live(g)' => Live(g)
    BY <2>1 DEF IInv, TypeOK, Entry, Live
  <2> QED BY <2>1, <2>2, <2>3
      DEF IInv, EntriesDisjoint, HandlesAreUnique, NoOrphanReservation, LiveGrantIsHeld, store
<1>6. CASE Restart
  BY <1>6, ReservationAssumption
  DEF Restart, IInv, TypeOK, ReadingsArePast, Build, Stages, Idle, EntriesDisjoint,
      HandlesAreUnique, NoOrphanReservation, LiveGrantIsHeld, chain
<1>7. CASE UNCHANGED vars
  <2>1. TypeOK' /\ ReadingsArePast'
    BY <1>7 DEF vars, IInv, TypeOK, ReadingsArePast
  <2> QED BY <2>1, <1>7, QuietStep DEF vars
<1> QED
  BY <1>1, <1>2, <1>3, <1>4, <1>5, <1>6, <1>7 DEF Next

(* In every behaviour, every conjunct of the inductive invariant holds; in *)
(* particular the table never holds a coin twice.                          *)
THEOREM Invariance == Spec => []IInv
  BY InitIInv, NextIInv, PTL DEF Spec

(* Every variable of the store, its users and the chain keeps its type.    *)
THEOREM TypeCorrect == Spec => []TypeOK
  BY Invariance, PTL DEF IInv

(* A reservation that has not lapsed is in the table until its owner gives *)
(* it up, whatever other threads sweep or release.                         *)
THEOREM LiveGrantsAreHeld == Spec => []LiveGrantIsHeld
  BY Invariance, PTL DEF IInv

(* No entry of the table is without an owner that can release it.          *)
THEOREM NoOrphans == Spec => []NoOrphanReservation
  BY Invariance, PTL DEF IInv

(* Two spends whose reservations have not lapsed never share a coin.       *)
THEOREM NoDoubleSelect == Spec => []LiveGrantsDisjoint
<1>1. IInv => LiveGrantsDisjoint
  BY DEF IInv, EntriesDisjoint, LiveGrantIsHeld, LiveGrantsDisjoint
<1> QED BY <1>1, Invariance, PTL

(***************************************************************************)
(* Steps                                                                   *)
(***************************************************************************)
(* Only reserve_all creates a grant, and it does so over coins of no grant *)
(* that is live.                                                           *)
LEMMA NewGrants ==
  ASSUME IInv, [Next]_vars, NEW h \in grants' \ grants
  PROVE  /\ clock' = clock
         /\ grants' = grants \cup {h}
         /\ \A g \in grants : g.id # h.id
         /\ \A g \in grants : Live(g) => g.coins \cap h.coins = {}
<1>1. PICK b \in Builders : Reserve(b)
  BY DEF Next, BuilderStep, Held, Select, SelectRefused, ConfirmByName, ReadClock,
         ReserveConflict, Commit, Drop, Start, Push, Release, Include, Tick, Restart,
         Without, vars, store
<1>2. grants' = grants \cup {Granted(b)} /\ h = Granted(b) /\ clock' = clock
  BY <1>1 DEF Reserve
<1>3. \A g \in grants : g.id # h.id
  BY <1>2 DEF IInv, TypeOK, HandlesAreUnique, Granted
<1>4. ASSUME NEW g \in grants, Live(g) PROVE g.coins \cap h.coins = {}
  <2>1. g \in Unlapsed(build[b].seen)
    BY <1>4, SweepKeepsTheLive DEF IInv, LiveGrantIsHeld
  <2> QED BY <1>1, <1>2, <2>1 DEF Reserve, HeldIn, Granted
<1> QED BY <1>2, <1>3, <1>4

(* A coin somebody relies on is granted again only after that reservation  *)
(* has lapsed by the clock.                                                *)
THEOREM OnlyLapsedCoinsAreRetaken == Spec => RetakenOnlyAfterLapse
<1>1. IInv /\ [Next]_vars =>
        [\A h \in grants' \ grants, g \in grants :
            g.coins \cap h.coins # {} => ~Live(g)]_vars
  BY NewGrants
<1> QED BY <1>1, Invariance, PTL DEF Spec, RetakenOnlyAfterLapse

(***************************************************************************)
(* A build ends.                                                           *)
(***************************************************************************)
(* An attempt that was lost was counted before the next one began.         *)
TriesAreCounted == \A b \in Builders : build[b].tries < MaxAttempts

(* The step of one builder that puts a call r in its place.                *)
LEMMA OneCallChanges ==
  ASSUME TypeOK, NEW b \in Builders, NEW r, build' = [build EXCEPT ![b] = r]
  PROVE  build'[b] = r /\ \A x \in Builders \ {b} : build'[x] = build[x]
  BY DEF TypeOK

(* What a builder's own step makes of its call.                            *)
LEMMA CallsRunDown ==
  ASSUME TypeOK, TriesAreCounted, NEW b \in Builders, BuilderStep(b)
  PROVE  /\ build'[b].tries < MaxAttempts
         /\ build[b].stage # "idle"
         /\ StepsLeft(build'[b]) \in 0 .. StepsLeft(build[b]) - 1
         /\ \A x \in Builders \ {b} : build'[x] = build[x]
<1> USE ReservationAssumption
<1>1. build \in [Builders -> Build] /\ build[b] \in Build
  BY DEF TypeOK
<1>2. build[b].tries \in Nat /\ build[b].tries < MaxAttempts /\ MaxAttempts \in Nat
  BY <1>1 DEF Build, TriesAreCounted
<1>3. ASSUME NEW r \in Build, build' = [build EXCEPT ![b] = r], r.tries = build[b].tries,
             \/ build[b].stage = "holding" /\ r.stage = "selecting"
             \/ build[b].stage = "selecting" /\ r.stage = "confirming"
             \/ build[b].stage = "confirming" /\ r.stage = "timing"
             \/ build[b].stage = "timing" /\ r.stage = "reserving"
      PROVE  /\ build'[b].tries < MaxAttempts
             /\ build[b].stage # "idle"
             /\ StepsLeft(build'[b]) \in 0 .. StepsLeft(build[b]) - 1
             /\ \A x \in Builders \ {b} : build'[x] = build[x]
  BY <1>1, <1>2, <1>3 DEF StepsLeft
<1>4. ASSUME NEW r, build' = [build EXCEPT ![b] = r],
             r.tries = 0,
             \/ r.stage = "idle" /\ build[b].stage \in Stages \ {"idle"}
             \/ r.stage = "guarding" /\ build[b].stage = "reserving"
      PROVE  /\ build'[b].tries < MaxAttempts
             /\ build[b].stage # "idle"
             /\ StepsLeft(build'[b]) \in 0 .. StepsLeft(build[b]) - 1
             /\ \A x \in Builders \ {b} : build'[x] = build[x]
  BY <1>1, <1>2, <1>4 DEF StepsLeft, Stages
<1>5. ASSUME Return(b), build[b].stage # "idle"
      PROVE  /\ build'[b].tries < MaxAttempts
             /\ build[b].stage # "idle"
             /\ StepsLeft(build'[b]) \in 0 .. StepsLeft(build[b]) - 1
             /\ \A x \in Builders \ {b} : build'[x] = build[x]
  <2>1. build' = [build EXCEPT ![b] = Idle] /\ Idle.tries = 0 /\ Idle.stage = "idle"
    BY <1>5 DEF Return, Idle
  <2>2. build[b].stage \in Stages \ {"idle"}
    BY <1>1, <1>5 DEF Build
  <2> QED BY <1>4, <2>1, <2>2
<1>6. CASE Held(b)
  <2> DEFINE r == [build[b] EXCEPT !.stage = "selecting",
                                   !.excluded = HeldIn(Unlapsed(build[b].seen))]
  <2>1. HeldIn(Unlapsed(build[b].seen)) \subseteq Coins
    BY DEF HeldIn, Unlapsed, TypeOK, Entry
  <2>2. r \in Build /\ r.tries = build[b].tries /\ r.stage = "selecting"
    BY <1>1, <2>1 DEF Build, Stages
  <2>3. build' = [build EXCEPT ![b] = r] /\ build[b].stage = "holding"
    BY <1>6 DEF Held
  <2> HIDE DEF r
  <2> QED BY <1>3, <2>2, <2>3
<1>7. CASE Select(b)
  <2>1. PICK answer \in Selections(build[b].request, build[b].excluded) :
          build' = [build EXCEPT ![b].stage = "confirming", ![b].chosen = answer.coins]
    BY <1>7 DEF Select
  <2> DEFINE r == [build[b] EXCEPT !.stage = "confirming", !.chosen = answer.coins]
  <2>2. answer.coins \subseteq Coins
    BY SelectionsAreCoins
  <2>3. r \in Build /\ r.tries = build[b].tries /\ r.stage = "confirming"
    BY <1>1, <2>2 DEF Build, Stages
  <2>4. build' = [build EXCEPT ![b] = r] /\ build[b].stage = "selecting"
    BY <1>7, <2>1 DEF Select
  <2> HIDE DEF r
  <2> QED BY <1>3, <2>3, <2>4
<1>8. CASE SelectRefused(b)
  BY <1>5, <1>8 DEF SelectRefused
<1>9. CASE ConfirmByName(b)
  <2> DEFINE r == [build[b] EXCEPT !.stage = "timing"]
  <2>1. r \in Build /\ r.tries = build[b].tries /\ r.stage = "timing"
    BY <1>1 DEF Build, Stages
  <2>2. build[b].stage = "confirming" /\ (build' = [build EXCEPT ![b] = r] \/ Return(b))
    BY <1>9 DEF ConfirmByName
  <2> HIDE DEF r
  <2> QED BY <1>3, <1>5, <2>1, <2>2
<1>10. CASE ReadClock(b)
  <2> DEFINE r == [build[b] EXCEPT !.stage = "reserving", !.seen = clock]
  <2>1. r \in Build /\ r.tries = build[b].tries /\ r.stage = "reserving"
    BY <1>1 DEF Build, Stages, TypeOK
  <2>2. build' = [build EXCEPT ![b] = r] /\ build[b].stage = "timing"
    BY <1>10 DEF ReadClock
  <2> HIDE DEF r
  <2> QED BY <1>3, <2>1, <2>2
<1>11. CASE Reserve(b)
  <2> DEFINE r == [Idle EXCEPT !.stage = "guarding", !.guard = nextId]
  <2>1. r.tries = 0 /\ r.stage = "guarding"
    BY DEF Idle
  <2>2. build' = [build EXCEPT ![b] = r] /\ build[b].stage = "reserving"
    BY <1>11 DEF Reserve
  <2> HIDE DEF r
  <2> QED BY <1>4, <2>1, <2>2
<1>12. CASE ReserveConflict(b)
  <2>1. build[b].stage = "reserving"
    BY <1>12 DEF ReserveConflict
  <2>2. CASE Return(b)
    BY <1>5, <2>1, <2>2
  <2>3. CASE ~Return(b)
    <3>1. PICK clash \in Coins :
            /\ build[b].tries + 1 < MaxAttempts
            /\ build' = [build EXCEPT ![b].stage = "selecting",
                                      ![b].excluded = @ \cup {clash},
                                      ![b].tries = @ + 1]
      BY <1>1, <1>12, <2>3 DEF ReserveConflict, Build
    <3> DEFINE r == [build[b] EXCEPT !.stage = "selecting",
                                     !.excluded = build[b].excluded \cup {clash},
                                     !.tries = build[b].tries + 1]
    <3>2. build' = [build EXCEPT ![b] = r]
      BY <3>1
    <3>3. r.stage = "selecting" /\ r.tries = build[b].tries + 1
      BY <1>1 DEF Build
    <3> HIDE DEF r
    <3>4. build'[b] = r /\ \A x \in Builders \ {b} : build'[x] = build[x]
      BY <3>2, OneCallChanges
    <3>5. StepsLeft(r) = 5 * (MaxAttempts - (build[b].tries + 1)) + 5
      BY <3>3 DEF StepsLeft
    <3>6. StepsLeft(build[b]) = 5 * (MaxAttempts - build[b].tries) + 2
      BY <2>1 DEF StepsLeft
    <3>7. StepsLeft(r) \in 0 .. StepsLeft(build[b]) - 1
      <4>1. \A t \in Nat, m \in Nat :
               t + 1 < m => 5 * (m - (t + 1)) + 5 \in 0 .. (5 * (m - t) + 2) - 1
        OBVIOUS
      <4> QED BY <1>2, <3>1, <3>5, <3>6, <4>1
    <3>8. build'[b].tries < MaxAttempts
      BY <3>1, <3>3, <3>4
    <3>9. StepsLeft(build'[b]) = StepsLeft(r)
      BY <3>4
    <3> QED BY <2>1, <3>4, <3>7, <3>8, <3>9, Zenon
  <2> QED BY <2>2, <2>3
<1>13. CASE Commit(b)
  BY <1>5, <1>13 DEF Commit
<1>14. CASE Drop(b)
  BY <1>5, <1>14 DEF Drop
<1> QED BY <1>6, <1>7, <1>8, <1>9, <1>10, <1>11, <1>12, <1>13, <1>14 DEF BuilderStep

(* What any step makes of the calls that are under way.                    *)
LEMMA EveryStepRunsDown ==
  ASSUME TypeOK, TriesAreCounted, [Next]_vars
  PROVE  /\ TriesAreCounted'
         /\ \A b \in Builders :
              (build[b].stage # "idle" /\ build'[b] # build[b])
                => StepsLeft(build'[b]) \in 0 .. StepsLeft(build[b]) - 1
<1> USE ReservationAssumption
<1>1. CASE \E b \in Builders : BuilderStep(b)
  <2>1. PICK b \in Builders : BuilderStep(b)
    BY <1>1
  <2>2. /\ build'[b].tries < MaxAttempts
        /\ StepsLeft(build'[b]) \in 0 .. StepsLeft(build[b]) - 1
        /\ \A x \in Builders \ {b} : build'[x] = build[x]
    BY <2>1, CallsRunDown
  <2> QED BY <2>2 DEF TriesAreCounted
<1>2. CASE \E b \in Builders, r \in Requests : Start(b, r)
  <2>1. PICK b \in Builders, r \in Requests : Start(b, r)
    BY <1>2
  <2> DEFINE c == [stage |-> "holding", request |-> r, seen |-> clock, excluded |-> {},
                   chosen |-> {}, tries |-> 0, guard |-> 0]
  <2>2. build' = [build EXCEPT ![b] = c] /\ build[b].stage = "idle" /\ c.tries = 0
    BY <2>1 DEF Start
  <2> HIDE DEF c
  <2>3. build'[b] = c /\ \A x \in Builders \ {b} : build'[x] = build[x]
    BY <2>2, OneCallChanges
  <2> QED BY <2>2, <2>3 DEF TriesAreCounted
<1>3. CASE Restart
  <2>1. \A b \in Builders : build'[b].stage = "idle" /\ build'[b].tries = 0
    BY <1>3 DEF Restart, Idle
  <2>2. ASSUME NEW b \in Builders, build[b].stage # "idle"
        PROVE  StepsLeft(build'[b]) \in 0 .. StepsLeft(build[b]) - 1
    <3>1. StepsLeft(build'[b]) = 0
      BY <2>1 DEF StepsLeft
    <3>2. build[b] \in Build /\ build[b].tries < MaxAttempts
      BY DEF TypeOK, TriesAreCounted
    <3>3. StepsLeft(build[b]) \in Nat \ {0}
      BY <2>2, <3>2 DEF StepsLeft, Build, Stages
    <3> QED BY <3>1, <3>3
  <2> QED BY <2>1, <2>2 DEF TriesAreCounted
<1>4. CASE build' = build
  BY <1>4 DEF TriesAreCounted
<1> QED
  BY <1>1, <1>2, <1>3, <1>4, Zenon DEF Next, Push, Release, Include, Tick, vars

(* A build ends: whatever other builders hold, release or let lapse, its   *)
(* own steps are numbered down to its return.                              *)
THEOREM BuildsEnd == Spec => BuildsRunDown
<1>1. Init => TriesAreCounted
  BY ReservationAssumption DEF Init, Idle, TriesAreCounted
<1>2. TypeOK /\ TriesAreCounted /\ [Next]_vars => TriesAreCounted'
  BY EveryStepRunsDown
<1>3. TypeOK /\ TriesAreCounted /\ [Next]_vars =>
        [\A b \in Builders :
            (build[b].stage # "idle" /\ build'[b] # build[b]) =>
              StepsLeft(build'[b]) \in 0 .. StepsLeft(build[b]) - 1]_vars
  BY EveryStepRunsDown
<1> QED BY <1>1, <1>2, <1>3, TypeCorrect, PTL DEF Spec, BuildsRunDown

(***************************************************************************)
(* Reservation implements CoinLock.                                        *)
(***************************************************************************)
Locked == {[id |-> g.id, coins |-> g.coins] : g \in {h \in grants : Live(h)}}

(* Every step is one of the abstract lock, or changes none of it.          *)
LEMMA LockStep ==
  ASSUME IInv, [Next]_vars
  PROVE  [Lock!Next]_Locked
<1> USE DEF Locked
<1>1. CASE grants' \subseteq grants
  <2>1. clock <= clock'
    <3>1. CASE Tick
      BY <3>1 DEF Tick, IInv, TypeOK
    <3>2. CASE \E b \in Builders : ReserveConflict(b)
      BY <3>2 DEF ReserveConflict, IInv, TypeOK
    <3>3. CASE ~Tick /\ ~\E b \in Builders : ReserveConflict(b)
      <4>1. clock' = clock
        BY <3>3, Zenon DEF Next, BuilderStep, Held, Select, SelectRefused, ConfirmByName,
           ReadClock, Reserve, Commit, Drop, Start, Push, Release, Include, Restart, vars
      <4> QED BY <4>1 DEF IInv, TypeOK
    <3> QED BY <3>1, <3>2, <3>3
  <2>2. \A g \in grants' : Live(g)' => Live(g)
    BY <1>1, <2>1, NextIInv DEF IInv, TypeOK, Entry, Live
  <2>3. Locked' \subseteq Locked
    BY <1>1, <2>2
  <2> QED BY <2>3 DEF Lock!Next, Lock!Free
<1>2. CASE ~(grants' \subseteq grants)
  <2>1. PICK h \in grants' : h \notin grants
    BY <1>2
  <2>2. /\ clock' = clock
        /\ grants' = grants \cup {h}
        /\ \A g \in grants : g.id # h.id
        /\ \A g \in grants : Live(g) => g.coins \cap h.coins = {}
    BY <2>1, NewGrants
  <2> DEFINE l == [id |-> h.id, coins |-> h.coins]
  <2>3. CASE Live(h)
    <3>1. Locked' = Locked \cup {l}
      BY <2>2, <2>3 DEF Live
    <3>2. l \notin Locked
      BY <2>2
    <3>3. \A m \in Locked : m.coins \cap l.coins = {} /\ m.id # l.id
      BY <2>2
    <3> HIDE DEF l, Locked
    <3> QED BY <3>1, <3>2, <3>3 DEF Lock!Next, Lock!Acquire, Locked
  <2>4. CASE ~Live(h)
    <3>1. Locked' = Locked
      BY <2>2, <2>4 DEF Live
    <3> QED BY <3>1
  <2> QED BY <2>3, <2>4
<1> QED BY <1>1, <1>2

(* The reservations that have not lapsed are, to the rest of the wallet, a *)
(* lock taken atomically on all of its coins and given up whole.           *)
THEOREM Refinement == Spec => ImplementsLock
<1>1. Init => Lock!Init
  BY DEF Init, Lock!Init
<1>2. IInv /\ [Next]_vars => [Lock!Next]_Locked
  BY LockStep
<1> QED BY <1>1, <1>2, Invariance, PTL DEF Spec, ImplementsLock, Lock!Spec, Locked

(***************************************************************************)
(* The rules of selection, on coins of their own                           *)
(***************************************************************************)
(* What the coins of a listing are worth.                                  *)
Worth(listing) == [c \in SampleCoins |-> listing[c].amount]

LEMMA TotalIsSum ==
  ASSUME NEW listing \in [SampleCoins -> Records], NEW S \in SUBSET SampleCoins
  PROVE  /\ IsFiniteSet(S) /\ Weighs(Worth(listing), S)
         /\ Total(listing, S) = SumOf(Worth(listing), S)
         /\ Total(listing, S) \in Nat
<1> DEFINE f == Worth(listing)
           IsSum(g) == g = [s \in SUBSET S |->
                    IF s = {} THEN 0
                    ELSE listing[CHOOSE x \in s : TRUE].amount + g[s \ {CHOOSE x \in s : TRUE}]]
           add == CHOOSE g : IsSum(g)
<1>1. IsFiniteSet(S)
  BY FS_Subset, SamplesAssumption
<1>2. \A c \in SampleCoins : listing[c].amount \in Nat
  BY SamplesAssumption DEF Records
<1>3. Weighs(f, S)
  BY <1>2 DEF Weighs, Worth
<1>4. Total(listing, S) = add[S]
  BY DEF Total, MapThenSumSet, MapThenFoldSet
<1>5. \A s \in SUBSET S : s # {} =>
        f[CHOOSE x \in s : TRUE] = listing[CHOOSE x \in s : TRUE].amount
  <2>1. \A s \in SUBSET S : s # {} => (CHOOSE x \in s : TRUE) \in SampleCoins
    OBVIOUS
  <2> QED BY <2>1 DEF Worth
<1> HIDE DEF f
<1>6. \A g : IsSum(g) <=> Adds(g, f, S)
  <2> SUFFICES ASSUME NEW g
               PROVE  IsSum(g) <=> Adds(g, f, S)
    OBVIOUS
  <2>3. [s \in SUBSET S |->
                    IF s = {} THEN 0
                    ELSE listing[CHOOSE x \in s : TRUE].amount + g[s \ {CHOOSE x \in s : TRUE}]]
             = [s \in SUBSET S |->
                    IF s = {} THEN 0
                    ELSE f[CHOOSE x \in s : TRUE] + g[s \ {CHOOSE x \in s : TRUE}]]
    BY <1>5
  <2> QED BY <2>3, Zenon DEF Adds
<1>7. PICK g : Adds(g, f, S)
  BY <1>1, <1>3, AddingUp, Zenon
<1>8. Adds(add, f, S)
  <2> HIDE DEF IsSum
  <2> QED BY <1>6, <1>7, Zenon
<1> HIDE DEF add, IsSum
<1>9. add[S] = SumOf(f, S)
  BY <1>1, <1>3, <1>8, AddingUp, Zenon
<1>10. SumOf(f, S) \in Nat
  BY <1>1, <1>3, SumIsNat
<1> QED BY <1>1, <1>3, <1>4, <1>9, <1>10 DEF f

(* More coins are worth no less; one is worth its amount, none nothing.    *)
LEMMA MoreIsWorthMore ==
  ASSUME NEW listing \in [SampleCoins -> Records]
  PROVE  /\ \A S \in SUBSET SampleCoins : \A P \in SUBSET S :
              Total(listing, P) <= Total(listing, S)
         /\ \A c \in SampleCoins : /\ listing[c].amount \in Nat
                                   /\ Total(listing, {c}) = listing[c].amount
         /\ Total(listing, {}) = 0
<1> DEFINE f == Worth(listing)
<1>1. ASSUME NEW S \in SUBSET SampleCoins, NEW P \in SUBSET S
      PROVE  Total(listing, P) <= Total(listing, S)
  <2>1. P \in SUBSET SampleCoins
    OBVIOUS
  <2>2. IsFiniteSet(S) /\ Weighs(f, S) /\ Total(listing, S) = SumOf(f, S)
    BY TotalIsSum
  <2>3. IsFiniteSet(P) /\ Weighs(f, P) /\ Total(listing, P) = SumOf(f, P)
    BY <2>1, TotalIsSum
  <2>4. \A x \in P : f[x] <= f[x]
    BY <2>3 DEF Weighs
  <2> HIDE DEF f
  <2>5. SumOf(f, P) <= SumOf(f, S)
    BY <2>2, <2>3, <2>4, SumGrows
  <2> QED BY <2>2, <2>3, <2>5
<1>2. ASSUME NEW c \in SampleCoins
      PROVE  listing[c].amount \in Nat /\ Total(listing, {c}) = listing[c].amount
  <2>1. listing[c].amount \in Nat
    BY SamplesAssumption DEF Records
  <2>2. f[c] = listing[c].amount
    BY DEF Worth
  <2>3. Total(listing, {c}) = SumOf(f, {c})
    BY TotalIsSum
  <2> HIDE DEF f
  <2> QED BY <2>1, <2>2, <2>3, SumOfOne
<1>3. Total(listing, {}) = 0
  <2>1. Total(listing, {}) = SumOf(f, {})
    BY TotalIsSum
  <2> QED BY <2>1, SumOfNothing
<1> QED BY <1>1, <1>2, <1>3

(* Largest first takes no more coins than any set that covers: a set of    *)
(* fewer is no heavier than the prefix without its last coin, which did    *)
(* not cover yet.                                                          *)
LEMMA LargestFirstIsFewest ==
  ASSUME NEW listing \in [SampleCoins -> Records],
         NEW S \in SUBSET SampleCoins, NEW required \in Nat,
         NEW P \in LargestFirst(listing, S, required),
         NEW Q \in SUBSET S, Total(listing, Q) >= required
  PROVE  Cardinality(P) <= Cardinality(Q)
<1> DEFINE f == Worth(listing)
<1>1. /\ P \in SUBSET S
      /\ \A c \in P, d \in S \ P : listing[c].amount >= listing[d].amount
  BY DEF LargestFirst
<1>2. PICK last \in P : /\ \A c \in P : listing[last].amount <= listing[c].amount
                        /\ Total(listing, P \ {last}) < required
  BY DEF LargestFirst
<1> DEFINE T == P \ {last}
           m == listing[last].amount
<1>3. T \in SUBSET SampleCoins /\ Q \in SUBSET SampleCoins /\ P \in SUBSET SampleCoins
  BY <1>1
<1>4. m \in Nat
  BY <1>1, <1>2, MoreIsWorthMore
<1>5. /\ IsFiniteSet(T) /\ Weighs(f, T) /\ Total(listing, T) = SumOf(f, T)
      /\ IsFiniteSet(Q) /\ Weighs(f, Q) /\ Total(listing, Q) = SumOf(f, Q)
      /\ Total(listing, T) \in Nat /\ Total(listing, Q) \in Nat
      /\ IsFiniteSet(P)
  BY <1>3, TotalIsSum
<1>6. \A x \in Q \ T : f[x] <= m
  <2>1. ASSUME NEW x \in Q \ T
        PROVE  listing[x].amount <= m
    <3>1. CASE x = last
      BY <1>4, <3>1
    <3>2. CASE x # last
      BY <1>1, <1>2, <1>4, <3>2, MoreIsWorthMore
    <3> QED BY <3>1, <3>2
  <2> QED BY <2>1, <1>3 DEF Worth
<1>7. \A x \in T \ Q : m <= f[x]
  BY <1>2, <1>3 DEF Worth
<1>8. Cardinality(T) = Cardinality(P) - 1
  BY <1>2, <1>5, FS_RemoveElement
<1>9. Cardinality(T) \in Nat /\ Cardinality(P) \in Nat /\ Cardinality(Q) \in Nat
  BY <1>5, FS_CardinalityType
<1> HIDE DEF T, m, f
<1>10. ~(Cardinality(Q) <= Cardinality(T))
  <2>1. SUFFICES ASSUME Cardinality(Q) <= Cardinality(T)
                 PROVE  FALSE
    OBVIOUS
  <2>2. SumOf(f, Q) <= SumOf(f, T)
    BY <1>4, <1>5, <1>6, <1>7, <2>1, FewerAndLighter
  <2>3. Total(listing, T) < required
    BY <1>2 DEF T
  <2> QED BY <1>5, <2>2, <2>3
<1> QED BY <1>8, <1>9, <1>10

(* What an answer of many coins, or of one, comes to.                      *)
IsFewest(listing, free, required, most, a) ==
  /\ a.verdict = "Chosen" =>
       /\ a.coins \in SUBSET free
       /\ Total(listing, a.coins) >= required
       /\ Cardinality(a.coins) <= most
       /\ \A P \in SUBSET free :
            Total(listing, P) >= required => Cardinality(a.coins) <= Cardinality(P)
  /\ a.verdict \notin {"Chosen", "BalanceUnjudgeable"} =>
       \A P \in SUBSET free :
         Total(listing, P) >= required => ~(Cardinality(P) <= most)

(* One coin that covers is as few as there can be.                         *)
LEMMA OneIsFewest ==
  ASSUME NEW listing \in [SampleCoins -> Records],
         NEW S \in SUBSET SampleCoins, NEW required \in Nat \ {0}, NEW most \in Nat \ {0},
         NEW c \in SmallestCovering(listing, S, required)
  PROVE  IsFewest(listing, S, required, most, Chosen({c}))
<1>1. c \in S /\ listing[c].amount >= required
  BY DEF SmallestCovering, Covering
<1>2. Total(listing, {c}) >= required
  BY <1>1, MoreIsWorthMore
<1>3. Cardinality({c}) = 1
  BY FS_Singleton
<1>4. ASSUME NEW P \in SUBSET S, Total(listing, P) >= required
      PROVE  1 <= Cardinality(P)
  <2>1. P # {}
    BY <1>4, MoreIsWorthMore
  <2>2. IsFiniteSet(P)
    BY TotalIsSum
  <2>3. Cardinality(P) \in Nat /\ Cardinality(P) # 0
    BY <2>1, <2>2, FS_CardinalityType, FS_EmptySet
  <2> QED BY <2>3
<1> QED BY <1>1, <1>2, <1>3, <1>4 DEF IsFewest, Chosen

(* The rule of transfers finds the fewest coins there are, or there are    *)
(* none to find.                                                           *)
LEMMA ManyIsFewest ==
  ASSUME NEW listing \in [SampleCoins -> Records],
         NEW reserved, NEW required \in Nat \ {0},
         NEW shortfall \in {"InsufficientFunds", "SpendabilityUnknown"},
         NEW a \in SelectMany(listing, reserved, required, shortfall)
  PROVE  /\ IsFewest(listing, Spendable(listing) \ reserved, required, MaxInputs, a)
         /\ a.verdict \in {"InsufficientFunds", "SpendabilityUnknown"} =>
              \A P \in SUBSET Spendable(listing) : ~(Total(listing, P) >= required)
         /\ a.verdict = "CoinsReserved" =>
              Total(listing, Spendable(listing)) >= required
<1> DEFINE owned == Spendable(listing)
           free  == owned \ reserved
<1>1. owned \in SUBSET SampleCoins /\ free \in SUBSET SampleCoins /\ free \in SUBSET owned
  BY DEF Spendable
<1>2. Total(listing, owned) \in Nat /\ Total(listing, free) \in Nat
  BY <1>1, TotalIsSum
<1>3. ASSUME NEW S \in SUBSET SampleCoins, Total(listing, S) < required,
             NEW P \in SUBSET S
      PROVE  ~(Total(listing, P) >= required)
  <2>1. P \in SUBSET SampleCoins
    OBVIOUS
  <2>2. Total(listing, P) \in Nat /\ Total(listing, S) \in Nat
    BY <2>1, TotalIsSum
  <2>3. Total(listing, P) <= Total(listing, S)
    BY MoreIsWorthMore
  <2> QED BY <1>3, <2>2, <2>3
<1> HIDE DEF owned, free
<1>4. \/ a = Refused("BalanceUnjudgeable")
      \/ Total(listing, owned) < required /\ a = Refused(shortfall)
      \/ /\ ~(Total(listing, owned) < required) /\ Total(listing, free) < required
         /\ a = Refused("CoinsReserved")
      \/ a \in FewestInputs(listing, free, required)
  BY Zenon DEF SelectMany, owned, free
<1>5. CASE a = Refused("BalanceUnjudgeable")
  BY <1>5 DEF Refused, IsFewest
<1>6. CASE Total(listing, owned) < required /\ a = Refused(shortfall)
  <2>1. \A P \in SUBSET owned : ~(Total(listing, P) >= required)
    BY <1>1, <1>3, <1>6
  <2>2. \A P \in SUBSET free : ~(Total(listing, P) >= required)
    BY <1>1, <2>1
  <2>3. a.verdict # "Chosen" /\ a.verdict # "CoinsReserved"
    BY <1>6 DEF Refused
  <2> QED BY <2>1, <2>2, <2>3 DEF IsFewest, owned, free
<1>7. CASE /\ ~(Total(listing, owned) < required) /\ Total(listing, free) < required
           /\ a = Refused("CoinsReserved")
  <2>1. \A P \in SUBSET free : ~(Total(listing, P) >= required)
    BY <1>1, <1>3, <1>7
  <2>2. a.verdict = "CoinsReserved"
    BY <1>7 DEF Refused
  <2>3. Total(listing, owned) >= required
    BY <1>2, <1>7
  <2> QED BY <2>1, <2>2, <2>3 DEF IsFewest, owned, free
<1>8. CASE a \in FewestInputs(listing, free, required)
  <2>1. CASE Covering(listing, free, required) # {}
    <3>1. PICK c \in SmallestCovering(listing, free, required) : a = Chosen({c})
      BY <1>8, <2>1 DEF FewestInputs
    <3>2. IsFewest(listing, free, required, MaxInputs, a)
      BY <1>1, <3>1, OneIsFewest, SelectionAssumption
    <3>3. a.verdict = "Chosen"
      BY <3>1 DEF Chosen
    <3> QED BY <3>2, <3>3 DEF owned, free
  <2>2. CASE Covering(listing, free, required) = {}
    <3>1. PICK P \in LargestFirst(listing, free, required) :
            a = IF Cardinality(P) > MaxInputs THEN Refused("TooManyInputCoins") ELSE Chosen(P)
      BY <1>8, <2>2 DEF FewestInputs
    <3>2. P \in SUBSET free /\ Total(listing, P) >= required
      BY <3>1 DEF LargestFirst
    <3>3. \A Q \in SUBSET free :
            Total(listing, Q) >= required => Cardinality(P) <= Cardinality(Q)
      BY <1>1, <3>1, LargestFirstIsFewest
    <3>4. \A Q \in SUBSET free : Cardinality(Q) \in Nat
      BY <1>1, TotalIsSum, FS_CardinalityType
    <3>5. CASE Cardinality(P) > MaxInputs
      <4>1. a = Refused("TooManyInputCoins")
        BY <3>1, <3>5
      <4>2. a.verdict = "TooManyInputCoins"
        BY <4>1 DEF Refused
      <4>3. \A Q \in SUBSET free :
              Total(listing, Q) >= required => ~(Cardinality(Q) <= MaxInputs)
        BY <3>2, <3>3, <3>4, <3>5, SelectionAssumption
      <4> QED BY <4>2, <4>3 DEF IsFewest, owned, free
    <3>6. CASE ~(Cardinality(P) > MaxInputs)
      <4>1. a = Chosen(P)
        BY <3>1, <3>6
      <4>2. a.verdict = "Chosen" /\ a.coins = P
        BY <4>1 DEF Chosen
      <4>3. Cardinality(P) <= MaxInputs
        BY <3>2, <3>4, <3>6, SelectionAssumption
      <4> QED BY <3>2, <3>3, <4>2, <4>3 DEF IsFewest, owned, free
    <3> QED BY <3>5, <3>6
  <2> QED BY <2>1, <2>2
<1> QED BY <1>4, <1>5, <1>6, <1>7, <1>8

(* The rule of a fee and of a funding coin, the same of one coin.          *)
LEMMA OneIsOptimal ==
  ASSUME NEW listing \in [SampleCoins -> Records],
         NEW reserved, NEW required \in Nat \ {0},
         NEW a \in SelectOne(listing, reserved, required)
  PROVE  /\ IsFewest(listing, Spendable(listing) \ reserved, required, 1, a)
         /\ a.verdict = "InsufficientFunds" =>
              \A P \in SUBSET Spendable(listing) :
                ~(Total(listing, P) >= required /\ Cardinality(P) <= 1)
         /\ a.verdict = "CoinsReserved" =>
              \E c \in Spendable(listing) : Total(listing, {c}) >= required
         /\ a.verdict # "SpendabilityUnknown"
<1> DEFINE owned == Spendable(listing)
           free  == owned \ reserved
<1>1. owned \in SUBSET SampleCoins /\ free \in SUBSET SampleCoins /\ free \in SUBSET owned
  BY DEF Spendable
<1>2. ASSUME NEW S \in SUBSET SampleCoins, Covering(listing, S, required) = {},
             NEW P \in SUBSET S, Total(listing, P) >= required
      PROVE  ~(Cardinality(P) <= 1)
  <2>1. IsFiniteSet(P) /\ Cardinality(P) \in Nat
    BY TotalIsSum, FS_CardinalityType
  <2>2. P # {}
    BY <1>2, MoreIsWorthMore
  <2>3. Cardinality(P) # 0
    BY <2>1, <2>2, FS_EmptySet
  <2>4. ASSUME Cardinality(P) = 1 PROVE FALSE
    <3>1. PICK x : P = {x}
      BY <2>1, <2>4, FS_Singleton
    <3>2. x \in S /\ listing[x].amount >= required
      BY <1>2, <3>1, MoreIsWorthMore
    <3> QED BY <1>2, <3>2 DEF Covering
  <2> QED BY <2>1, <2>3, <2>4
<1> HIDE DEF owned, free
<1>3. \/ \E c \in SmallestCovering(listing, free, required) : a = Chosen({c})
      \/ /\ Covering(listing, free, required) = {} /\ Covering(listing, owned, required) # {}
         /\ a = Refused("CoinsReserved")
      \/ /\ Covering(listing, free, required) = {} /\ Covering(listing, owned, required) = {}
         /\ a = Refused("InsufficientFunds")
  BY DEF SelectOne, owned, free
<1>4. CASE \E c \in SmallestCovering(listing, free, required) : a = Chosen({c})
  <2>1. PICK c \in SmallestCovering(listing, free, required) : a = Chosen({c})
    BY <1>4
  <2>2. IsFewest(listing, free, required, 1, a)
    BY <1>1, <2>1, OneIsFewest
  <2>3. a.verdict = "Chosen"
    BY <2>1 DEF Chosen
  <2> QED BY <2>2, <2>3 DEF owned, free
<1>5. CASE /\ Covering(listing, free, required) = {} /\ Covering(listing, owned, required) # {}
           /\ a = Refused("CoinsReserved")
  <2>1. \A P \in SUBSET free : Total(listing, P) >= required => ~(Cardinality(P) <= 1)
    BY <1>1, <1>2, <1>5
  <2>2. PICK c \in owned : listing[c].amount >= required
    BY <1>5 DEF Covering
  <2>3. Total(listing, {c}) >= required
    BY <1>1, <2>2, MoreIsWorthMore
  <2>4. a.verdict = "CoinsReserved"
    BY <1>5 DEF Refused
  <2> QED BY <2>1, <2>3, <2>4 DEF IsFewest, owned, free
<1>6. CASE /\ Covering(listing, free, required) = {} /\ Covering(listing, owned, required) = {}
           /\ a = Refused("InsufficientFunds")
  <2>1. \A P \in SUBSET free : Total(listing, P) >= required => ~(Cardinality(P) <= 1)
    BY <1>1, <1>2, <1>6
  <2>2. \A P \in SUBSET owned : Total(listing, P) >= required => ~(Cardinality(P) <= 1)
    BY <1>1, <1>2, <1>6
  <2>3. a.verdict = "InsufficientFunds"
    BY <1>6 DEF Refused
  <2> QED BY <2>1, <2>2, <2>3 DEF IsFewest, owned, free
<1> QED BY <1>3, <1>4, <1>5, <1>6

(* What is answered to a question is among the answers of its rule.        *)
LEMMA AnswersComeOfARule ==
  ASSUME NEW listing \in [SampleCoins -> Records], NEW reserved, NEW q \in Questions,
         NEW a \in Answers(listing, reserved, q)
  PROVE  \/ /\ Many(q) /\ q.required \in Nat \ {0}
            /\ \E shortfall \in {"InsufficientFunds", "SpendabilityUnknown"} :
                 a \in SelectMany(listing, reserved, q.required, shortfall)
         \/ /\ ~Many(q) /\ q.required \in Nat \ {0}
            /\ \/ a \in SelectOne(listing, reserved, q.required)
               \/ a = Refused("BalanceUnjudgeable")
         \/ ~Many(q) /\ q.required = 0 /\ a = Chosen({})
<1>1. /\ q.rule \in {"transfer", "cat", "funding", "fee"}
      /\ q.required \in Nat /\ (q.rule # "fee" => q.required # 0)
  BY SamplesAssumption DEF Questions
<1>2. CASE q.rule = "transfer"
  BY <1>1, <1>2 DEF Answers, Many, TransferSelect
<1>3. CASE q.rule = "cat"
  BY <1>1, <1>3 DEF Answers, Many, CatSelect
<1>4. CASE q.rule = "funding"
  BY <1>1, <1>4 DEF Answers, Many, FundingSelect
<1>5. CASE q.rule = "fee"
  BY <1>1, <1>5 DEF Answers, Many, FeeSelect
<1> QED BY <1>1, <1>2, <1>3, <1>4, <1>5

(* Nothing is as few coins as there can be, when nothing is asked for.     *)
LEMMA NothingIsFewest ==
  ASSUME NEW listing \in [SampleCoins -> Records], NEW S \in SUBSET SampleCoins,
         NEW most \in Nat \ {0}
  PROVE  IsFewest(listing, S, 0, most, Chosen({}))
<1>1. Total(listing, {}) = 0
  BY MoreIsWorthMore
<1>2. Cardinality({}) = 0
  BY FS_EmptySet
<1>3. \A P \in SUBSET S : Cardinality(P) \in Nat
  BY TotalIsSum, FS_CardinalityType
<1> QED BY <1>1, <1>2, <1>3 DEF IsFewest, Chosen

(* The rules of selection, together.                                       *)
LEMMA EveryAnswerIsOptimal ==
  ASSUME NEW listing \in [SampleCoins -> Records], NEW reserved \in SUBSET SampleCoins,
         NEW q \in Questions, NEW a \in Answers(listing, reserved, q)
  PROVE  /\ IsFewest(listing, Usable(listing) \ reserved, q.required,
                     IF Many(q) THEN MaxInputs ELSE 1, a)
         /\ a.verdict \in {"InsufficientFunds", "SpendabilityUnknown"} =>
              \A P \in SUBSET Usable(listing) :
                ~(Total(listing, P) >= q.required /\ (Many(q) \/ Cardinality(P) <= 1))
         /\ a.verdict = "CoinsReserved" =>
              \E P \in SUBSET Usable(listing) :
                Total(listing, P) >= q.required /\ (Many(q) \/ Cardinality(P) <= 1)
<1>1. Usable(listing) = Spendable(listing) /\ Usable(listing) \in SUBSET SampleCoins
  BY DEF Usable, Spendable
<1>2. CASE Many(q) /\ q.required \in Nat \ {0}
             /\ \E shortfall \in {"InsufficientFunds", "SpendabilityUnknown"} :
                  a \in SelectMany(listing, reserved, q.required, shortfall)
  BY <1>1, <1>2, ManyIsFewest
<1>3. CASE ~Many(q) /\ q.required \in Nat \ {0} /\ a \in SelectOne(listing, reserved, q.required)
  <2>1. /\ IsFewest(listing, Usable(listing) \ reserved, q.required, 1, a)
        /\ a.verdict = "InsufficientFunds" =>
              \A P \in SUBSET Usable(listing) :
                ~(Total(listing, P) >= q.required /\ Cardinality(P) <= 1)
        /\ a.verdict = "CoinsReserved" =>
              \E c \in Usable(listing) : Total(listing, {c}) >= q.required
        /\ a.verdict # "SpendabilityUnknown"
    BY <1>1, <1>3, OneIsOptimal
  <2>2. \A c : Cardinality({c}) = 1
    BY FS_Singleton
  <2>3. a.verdict = "CoinsReserved" =>
          \E P \in SUBSET Usable(listing) :
            Total(listing, P) >= q.required /\ Cardinality(P) <= 1
    <3> SUFFICES ASSUME a.verdict = "CoinsReserved"
                 PROVE  \E P \in SUBSET Usable(listing) :
                          Total(listing, P) >= q.required /\ Cardinality(P) <= 1
      OBVIOUS
    <3>1. PICK c \in Usable(listing) : Total(listing, {c}) >= q.required
      BY <2>1
    <3>2. Cardinality({c}) = 1
      BY <2>2, Zenon
    <3> QED BY <3>1, <3>2
  <2> QED BY <1>3, <2>1, <2>3
<1>4. CASE ~Many(q) /\ a = Refused("BalanceUnjudgeable")
  BY <1>4 DEF Refused, IsFewest
<1>5. CASE ~Many(q) /\ q.required = 0 /\ a = Chosen({})
  <2>1. IsFewest(listing, Usable(listing) \ reserved, 0, 1, Chosen({}))
    BY <1>1, NothingIsFewest
  <2>2. a.verdict = "Chosen"
    BY <1>5 DEF Chosen
  <2> QED BY <1>5, <2>1, <2>2
<1> QED BY <1>2, <1>3, <1>4, <1>5, AnswersComeOfARule

(* No permitted set of free coins is missed, none chosen is larger than it *)
(* need be, and a wallet is told the right reason, whatever a source lists *)
(* and whatever is reserved (select_input_coins, select_cat_coins,         *)
(* select_fee_coins, select_funding_coin).                                 *)
THEOREM SelectionProven == Spec => []SelectionIsOptimal
<1>1. SelectionsAreOptimal
  <2> SUFFICES ASSUME NEW listing \in [SampleCoins -> Records],
                      NEW reserved \in SUBSET SampleCoins,
                      NEW q \in Questions, NEW a \in Answers(listing, reserved, q)
               PROVE  LET solutions == Solutions(listing, Usable(listing) \ reserved, q)
                      IN  CASE a.verdict = "Chosen" ->
                                 /\ a.coins \in solutions
                                 /\ \A P \in solutions : Cardinality(a.coins) <= Cardinality(P)
                            [] a.verdict = "BalanceUnjudgeable" -> TRUE
                            [] OTHER -> solutions = {}
    BY DEF SelectionsAreOptimal, OfEveryAnswer
  <2> DEFINE free == Usable(listing) \ reserved
             most == IF Many(q) THEN MaxInputs ELSE 1
  <2>1. IsFewest(listing, free, q.required, most, a)
    BY EveryAnswerIsOptimal, Zenon
  <2>2. Solutions(listing, free, q)
          = {P \in SUBSET free : Total(listing, P) >= q.required /\ Cardinality(P) <= most}
    BY DEF Solutions
  <2> HIDE DEF free, most
  <2> QED BY <2>1, <2>2 DEF IsFewest, free
<1>2. ShortfallsAreHonest
  <2> SUFFICES ASSUME NEW listing \in [SampleCoins -> Records],
                      NEW reserved \in SUBSET SampleCoins,
                      NEW q \in Questions, NEW a \in Answers(listing, reserved, q)
               PROVE  LET affordable == \E P \in SUBSET Usable(listing) :
                                           /\ Total(listing, P) >= q.required
                                           /\ Many(q) \/ Cardinality(P) <= 1
                      IN  /\ a.verdict \in {"InsufficientFunds", "SpendabilityUnknown"} => ~affordable
                          /\ a.verdict = "CoinsReserved" => affordable
    BY DEF ShortfallsAreHonest, OfEveryAnswer
  <2> QED BY EveryAnswerIsOptimal
<1>3. SelectionIsOptimal
  BY <1>1, <1>2 DEF SelectionIsOptimal
<1> QED BY <1>3, PTL
=============================================================================
