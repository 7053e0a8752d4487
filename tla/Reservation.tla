----------------------------- MODULE Reservation -----------------------------
(***************************************************************************)
(* In-flight coin reservation: LocalReservations, the CoinReservations     *)
(* clock-and-TTL view of it, select_and_reserve and the HeldCoins guard,   *)
(* with the builders (threads of one process) that use them and the chain  *)
(* they read.                                                              *)
(*                                                                         *)
(* A builder runs build_transfer, build_cat_transfer or the funding step   *)
(* of a mint.  Every place where it can be overtaken by another builder,   *)
(* by the host, by a block or by the clock is a step of its own:           *)
(*                                                                         *)
(*   read clock -> held() -> list, select -> confirm by name ->            *)
(*     read clock -> reserve_all() -> (guard) build -> commit | drop       *)
(*                                                                         *)
(* held, reserve_all and release each run under the store's mutex, so each *)
(* is one step.  The clock is read BEFORE the mutex is taken: a builder    *)
(* may arrive with an old reading.                                         *)
(***************************************************************************)
EXTENDS Naturals, FiniteSets, CoinSelection

CONSTANTS
  Builders,     \* threads of the process
  Coins,        \* coins of the wallet
  CatCoins,     \* those that are CAT coins; the others are XCH
  Amount,       \* what each is worth
  Requests,     \* the spends that may be asked for
  NoRequest,    \* what a builder that is not building is asked for
  Ttl,          \* reservation TTL in seconds
  MaxAttempts,  \* MAX_RESERVATION_ATTEMPTS
  MaxClock,     \* bound: the clock stops here
  MaxId         \* bound: reservations taken per run of the process

(* A request is [kind, amount, fee]: a "transfer" of XCH, a "cat" transfer *)
(* with an XCH fee, or the "funding" of a mint.                            *)
Request == [kind : {"transfer", "cat", "funding"}, amount : Nat \ {0}, fee : Nat]

(* CoinReservations::with_ttl_secs refuses a TTL of zero.                  *)
ASSUME ReservationAssumption ==
  /\ CatCoins \subseteq Coins
  /\ Amount \in [Coins -> Nat]
  /\ Requests \subseteq Request
  /\ Ttl \in Nat \ {0}
  /\ MaxAttempts \in Nat \ {0}
  /\ MaxClock \in Nat
  /\ MaxId \in Nat

VARIABLES
  clock,    \* what Clock::now_unix answers
  entries,  \* LocalReservations.entries: live and lapsed reservations
  nextId,   \* LocalReservations.next_id
  grants,   \* reservations somebody still relies on: guards and plans
  build,    \* the locals of each builder's call
  mempool,  \* grants whose bundle was pushed and is neither in nor dead
  spent     \* coins the chain reports spent

store == <<entries, nextId>>
chain == <<mempool, spent>>
vars  == <<clock, entries, nextId, grants, build, mempool, spent>>

Entry == [id : Nat, coins : SUBSET Coins, expires : Nat]

Stages == {"idle", "holding", "selecting", "confirming", "timing",
           "reserving", "guarding"}

(* seen: the last reading of the clock; excluded: the coins the selector   *)
(* must not choose; chosen: the coins it chose; tries: reservations lost   *)
(* so far; guard: the id in the HeldCoins guard.                           *)
Build == [stage : Stages, request : Requests \cup {NoRequest}, seen : Nat,
          excluded : SUBSET Coins, chosen : SUBSET Coins, tries : Nat, guard : Nat]

Idle == [stage |-> "idle", request |-> NoRequest, seen |-> 0, excluded |-> {},
         chosen |-> {}, tries |-> 0, guard |-> 0]

(***************************************************************************)
(* The store                                                               *)
(***************************************************************************)
(* Mutant: the exclusive boundary.                                         *)
UnlapsedExclusive(now) == {e \in entries : e.expires > now}

(* The inclusive boundary: a reservation is still held AT its expiry.      *)
Unlapsed(now) == {e \in entries : e.expires >= now}

HeldIn(table) == UNION {e.coins : e \in table}

(* LocalReservations::release: unknown ids are not an error.               *)
Without(table, id) == {e \in table : e.id # id}

(***************************************************************************)
(* The chain as a listing                                                  *)
(***************************************************************************)
ListingOf(pool) ==
  [c \in pool |-> [amount |-> Amount[c], own |-> TRUE,
                   confirmed |-> TRUE, spent |-> c \in spent]]

Xch == ListingOf(Coins \ CatCoins)
Cat == ListingOf(CatCoins)

(* required_total of a transfer, required_coin_amount of a mint: one coin  *)
(* must pay the amount and the fee.                                        *)
Required(r) == r.amount + r.fee

(* build_cat_transfer selects the CAT side, then the fee, and the first    *)
(* refusal stands; the ids reserved are those of both sides.               *)
CatAndFee(r, reserved) ==
  {IF side.verdict # "Chosen" THEN side
   ELSE IF fee.verdict # "Chosen" THEN fee
   ELSE Chosen(side.coins \cup fee.coins) :
     side \in CatSelect(Cat, reserved, r.amount),
     fee \in FeeSelect(Xch, reserved, r.fee)}

Selections(r, reserved) ==
  CASE r.kind = "transfer" -> TransferSelect(Xch, reserved, Required(r))
    [] r.kind = "funding"  -> FundingSelect(Xch, reserved, Required(r))
    [] OTHER               -> CatAndFee(r, reserved)

(***************************************************************************)
(* A builder                                                               *)
(***************************************************************************)
(* select_and_reserve begins: CoinReservations::held reads the clock.      *)
Start(b, r) ==
  /\ build[b].stage = "idle"
  /\ nextId < MaxId
  /\ build' = [build EXCEPT ![b] =
                 [stage |-> "holding", request |-> r, seen |-> clock, excluded |-> {},
                  chosen |-> {}, tries |-> 0, guard |-> 0]]
  /\ UNCHANGED <<clock, store, grants, chain>>

(* LocalReservations::held: lapsed entries go, the rest are excluded.      *)
Held(b) ==
  /\ build[b].stage = "holding"
  /\ entries' = Unlapsed(build[b].seen)
  /\ build' = [build EXCEPT ![b].stage = "selecting",
                            ![b].excluded = HeldIn(Unlapsed(build[b].seen))]
  /\ UNCHANGED <<clock, nextId, grants, chain>>

(* One listing of the chain, one choice from it.                           *)
Select(b) ==
  /\ build[b].stage = "selecting"
  /\ \E answer \in Selections(build[b].request, build[b].excluded) :
       /\ answer.verdict = "Chosen"
       /\ build' = [build EXCEPT ![b].stage = "confirming",
                                 ![b].chosen = answer.coins]
  /\ UNCHANGED <<clock, store, grants, chain>>

(* The call of builder b returns to the host.                              *)
Return(b) == build' = [build EXCEPT ![b] = Idle]

(* The selector's own refusal is what the caller sees.                     *)
SelectRefused(b) ==
  /\ build[b].stage = "selecting"
  /\ \E answer \in Selections(build[b].request, build[b].excluded) :
       answer.verdict # "Chosen"
  /\ Return(b)
  /\ UNCHANGED <<clock, store, grants, chain>>

(* confirm_all_spendable_by_name: every chosen coin is asked for again, by *)
(* name, and one disagreeing answer abandons the attempt.                  *)
ConfirmByName(b) ==
  /\ build[b].stage = "confirming"
  /\ IF build[b].chosen \cap spent = {}
     THEN build' = [build EXCEPT ![b].stage = "timing"]
     ELSE Return(b)
  /\ UNCHANGED <<clock, store, grants, chain>>

(* CoinReservations::reserve reads the clock, before the store's lock.     *)
ReadClock(b) ==
  /\ build[b].stage = "timing"
  /\ build' = [build EXCEPT ![b].stage = "reserving", ![b].seen = clock]
  /\ UNCHANGED <<clock, store, grants, chain>>

(* Mutant: the TTL subtracted.                                             *)
GrantedBefore(b) ==
  [id |-> nextId, coins |-> build[b].chosen, expires |-> build[b].seen - Ttl]

Granted(b) ==
  [id |-> nextId, coins |-> build[b].chosen, expires |-> build[b].seen + Ttl]

(* Mutant: check-then-act.  The snapshot taken by held() is trusted and    *)
(* the conflict is not looked for under the lock.                          *)
ReserveUnchecked(b) ==
  /\ build[b].stage = "reserving"
  /\ build[b].chosen \cap build[b].excluded = {}
  /\ entries' = Unlapsed(build[b].seen) \cup {Granted(b)}
  /\ nextId' = nextId + 1
  /\ grants' = grants \cup {Granted(b)}
  /\ build' = [build EXCEPT ![b] =
                 [Idle EXCEPT !.stage = "guarding", !.guard = nextId]]
  /\ UNCHANGED <<clock, chain>>

(* Mutant: the coins that are free are taken, the others are left out.     *)
ReservePartly(b) ==
  LET free == build[b].chosen \ HeldIn(Unlapsed(build[b].seen))
  IN  /\ build[b].stage = "reserving"
      /\ free # {}
      /\ entries' = Unlapsed(build[b].seen) \cup {[Granted(b) EXCEPT !.coins = free]}
      /\ nextId' = nextId + 1
      /\ grants' = grants \cup {Granted(b)}
      /\ build' = [build EXCEPT ![b] =
                     [Idle EXCEPT !.stage = "guarding", !.guard = nextId]]
      /\ UNCHANGED <<clock, chain>>

(* LocalReservations::reserve_all, all of the coins or none.               *)
Reserve(b) ==
  /\ build[b].stage = "reserving"
  /\ build[b].chosen \cap HeldIn(Unlapsed(build[b].seen)) = {}
  /\ entries' = Unlapsed(build[b].seen) \cup {Granted(b)}
  /\ nextId' = nextId + 1
  /\ grants' = grants \cup {Granted(b)}
  /\ build' = [build EXCEPT ![b] =
                 [Idle EXCEPT !.stage = "guarding", !.guard = nextId]]
  /\ UNCHANGED <<clock, chain>>

(* Mutant: a lost attempt is neither counted nor learned from.             *)
ReserveConflictSpins(b) ==
  /\ build[b].stage = "reserving"
  /\ build[b].chosen \cap HeldIn(Unlapsed(build[b].seen)) # {}
  /\ entries' = Unlapsed(build[b].seen)
  /\ build' = [build EXCEPT ![b].stage = "selecting"]
  /\ UNCHANGED <<clock, nextId, grants, chain>>

(* Another spend holds one of them: nothing is taken, the coin joins the   *)
(* exclusions and the selector runs again, until the attempts run out.     *)
ReserveConflict(b) ==
  /\ build[b].stage = "reserving"
  /\ entries' = Unlapsed(build[b].seen)
  /\ \E clash \in build[b].chosen \cap HeldIn(Unlapsed(build[b].seen)) :
       IF build[b].tries + 1 < MaxAttempts
       THEN build' = [build EXCEPT ![b].stage = "selecting",
                                   ![b].excluded = @ \cup {clash},
                                   ![b].tries = @ + 1]
       ELSE Return(b)
  /\ UNCHANGED <<clock, nextId, grants, chain>>

(* The build produced its plan: HeldCoins::commit keeps the coins held.    *)
Commit(b) ==
  /\ build[b].stage = "guarding"
  /\ Return(b)
  /\ UNCHANGED <<clock, store, grants, chain>>

(* Mutant: an error path that returns without releasing.                   *)
DropLeaks(b) ==
  /\ build[b].stage = "guarding"
  /\ grants' = Without(grants, build[b].guard)
  /\ Return(b)
  /\ UNCHANGED <<clock, store, chain>>

(* Any error after the reservation (a lineage or peak read, the build, the *)
(* unlock re-check) drops the guard, and the guard releases.               *)
Drop(b) ==
  /\ build[b].stage = "guarding"
  /\ entries' = Without(entries, build[b].guard)
  /\ grants' = Without(grants, build[b].guard)
  /\ Return(b)
  /\ UNCHANGED <<clock, nextId, chain>>

(***************************************************************************)
(* The host, the chain and the clock                                       *)
(***************************************************************************)
(* Plans: grants whose guard was committed.                                *)
IsGuarded(g) == \E b \in Builders : build[b].stage = "guarding" /\ build[b].guard = g.id

Plans == {g \in grants : ~IsGuarded(g)}

Push(g) ==
  /\ g \in Plans \ mempool
  /\ g.coins \cap spent = {}
  /\ mempool' = mempool \cup {g}
  /\ UNCHANGED <<clock, store, grants, build, spent>>

(* A block includes the bundle; bundles that share a coin with it are dead.*)
Include(g) ==
  /\ g \in mempool
  /\ spent' = spent \cup g.coins
  /\ mempool' = {m \in mempool : m.coins \cap g.coins = {}}
  /\ UNCHANGED <<clock, store, grants, build>>

(* Mutant: a release that frees coins instead of a handle.                 *)
ReleaseCoins(g) ==
  /\ g \in Plans \ mempool
  /\ entries' = {e \in entries : e.coins \cap g.coins = {}}
  /\ grants' = grants \ {g}
  /\ UNCHANGED <<clock, nextId, build, chain>>

(* CoinReservations::release, by the host that holds the plan: the spend   *)
(* settled, or is dead, or was never sent.  The reservation may have       *)
(* lapsed long before.                                                     *)
Release(g) ==
  /\ g \in Plans \ mempool
  /\ entries' = Without(entries, g.id)
  /\ grants' = grants \ {g}
  /\ UNCHANGED <<clock, nextId, build, chain>>

Tick ==
  /\ clock < MaxClock
  /\ clock' = clock + 1
  /\ UNCHANGED <<store, grants, build, chain>>

(* The process dies: the table, the guards and the plans are in memory,    *)
(* the pushed bundles are not.  (The new process numbers from zero; here   *)
(* ids go on, so that no two grants of one behaviour have the same name.)  *)
Restart ==
  /\ entries' = {}
  /\ grants' = {}
  /\ build' = [b \in Builders |-> Idle]
  /\ UNCHANGED <<clock, nextId, chain>>

Init ==
  /\ clock = 0
  /\ entries = {}
  /\ nextId = 0
  /\ grants = {}
  /\ build = [b \in Builders |-> Idle]
  /\ mempool = {}
  /\ spent = {}

BuilderStep(b) ==
  \/ Held(b) \/ Select(b) \/ SelectRefused(b) \/ ConfirmByName(b) \/ ReadClock(b)
  \/ Reserve(b) \/ ReserveConflict(b) \/ Commit(b) \/ Drop(b)

Next ==
  \/ \E b \in Builders : BuilderStep(b) \/ \E r \in Requests : Start(b, r)
  \/ \E g \in grants : Push(g) \/ Release(g)
  \/ \E g \in mempool : Include(g)
  \/ Tick
  \/ Restart

Spec == Init /\ [][Next]_vars

(***************************************************************************)
(* Properties                                                              *)
(***************************************************************************)
TypeOK ==
  /\ clock \in Nat
  /\ entries \subseteq Entry
  /\ nextId \in Nat
  /\ grants \subseteq Entry
  /\ build \in [Builders -> Build]
  /\ mempool \subseteq Entry
  /\ spent \subseteq Coins

Live(g) == g.expires >= clock

(* The point of the module: while two spends both rely on reservations     *)
(* that have not lapsed, they do not share a coin, whatever the order in   *)
(* which their threads took clock readings, snapshots and locks.           *)
LiveGrantsDisjoint ==
  \A g, h \in grants : (g # h /\ Live(g) /\ Live(h)) => g.coins \cap h.coins = {}

(* Nothing but its owner or its own lapse removes a reservation: neither   *)
(* another thread's sweep with an older or newer clock reading nor a late  *)
(* release of a handle that lapsed and whose coins were taken again.       *)
LiveGrantIsHeld == \A g \in grants : Live(g) => g \in entries

(* A reservation cannot outlive the operation that took it on any path:    *)
(* every entry in the table is somebody's guard or plan (HeldCoins).       *)
NoOrphanReservation == entries \subseteq grants

(* A coin some spend relies on is granted again only once that spend's     *)
(* reservation has lapsed by the clock, not by a thread's old reading.     *)
RetakenOnlyAfterLapse ==
  [][\A h \in grants' \ grants, g \in grants :
        g.coins \cap h.coins # {} => ~Live(g)]_vars

(* How many steps a call may still take: what is left of this attempt, and *)
(* whole attempts after it.                                                *)
StepsLeft(call) ==
  CASE call.stage = "idle"     -> 0
    [] call.stage = "guarding" -> 1
    [] OTHER ->
         5 * (MaxAttempts - call.tries)
           + CASE call.stage = "reserving"  -> 2
               [] call.stage = "timing"     -> 3
               [] call.stage = "confirming" -> 4
               [] call.stage = "selecting"  -> 5
               [] call.stage = "holding"    -> 6

(* A build ends: whatever the other builders hold and however often they   *)
(* win its coins, each step it takes brings it nearer to its plan or its   *)
(* refusal (select_and_reserve "makes progress on every iteration").       *)
BuildsRunDown ==
  [][\A b \in Builders :
        (build[b].stage # "idle" /\ build'[b] # build[b]) =>
          StepsLeft(build'[b]) \in 0 .. StepsLeft(build[b]) - 1]_vars

(* What the rest of the wallet may rely on: reservations that have not     *)
(* lapsed behave as an atomic lock on sets of coins.                       *)
Lock == INSTANCE CoinLock
          WITH locked <- {[id |-> g.id, coins |-> g.coins] : g \in {h \in grants : Live(h)}}

ImplementsLock == Lock!Spec
=============================================================================
