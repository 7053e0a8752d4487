-------------------------------- MODULE Session --------------------------------
(***************************************************************************)
(* An UnlockGate over one account, the residency its unlocks hand out, and *)
(* AccountSession::unlock beside it, under the same policy.  The gate's    *)
(* methods borrow it mutably, so one of its calls runs at a time; the      *)
(* capabilities it handed out live on other threads and read their         *)
(* residency at any point of such a call.                                  *)
(*                                                                         *)
(* An attempt that opens is the unlock it opened.  Of a capability only    *)
(* what is_live answers it is modelled.  The monotonic clock that bounds   *)
(* the idle window and the wall clock the factors read are not the same.   *)
(***************************************************************************)
EXTENDS SecondFactor

CONSTANTS
  GateAttempts,  \* attempts made by UnlockGate::unlock; the rest are AccountSession's
  Idle,          \* idle_timeout
  MaxNow         \* bound: the latest instant

ASSUME SessionAssumption ==
  /\ GateAttempts \subseteq Attempts
  /\ {Idle, MaxNow} \subseteq Nat
  /\ None \notin Attempts

VARIABLES
  now,    \* the monotonic clock
  held,   \* the unlock the gate holds
  token,  \* the residency of each unlock
  touch   \* how far a running access() is

session == <<now, held, token, touch>>

vars == <<factors, session>>

(* Residency::is_live.  The bound is exclusive; an AccountSession's unlock *)
(* has none.                                                               *)
IsLive(a) ==
  /\ attempt[a].at = "open"
  /\ token[a].live
  /\ a \in GateAttempts => now < token[a].deadline

Running(a) == attempt[a].at \notin {"new", "open", "refused"}

(* The gate is borrowed by a call.                                         *)
Borrowed == touch # "none" \/ \E a \in GateAttempts : Running(a)

(* An attempt is one call; the gate's are made one after the other.        *)
MayRun(a) == a \in GateAttempts => (Running(a) \/ ~Borrowed)

Revoked == IF held = None THEN token ELSE [token EXCEPT ![held].live = FALSE]

Tick ==
  /\ now < MaxNow
  /\ now' = now + 1
  /\ UNCHANGED <<factors, held, token, touch>>

(* Mutant: the unlock that is superseded is dropped and not revoked.       *)
UnlockDrops(a) ==
  /\ a \in GateAttempts
  /\ OpenSeed(a)
  /\ token' = [token EXCEPT ![a] = [live |-> TRUE, deadline |-> now + Idle]]
  /\ held' = a
  /\ UNCHANGED <<now, touch>>

(* UnlockGate::unlock, once the policy and the keystore have agreed.       *)
Unlock(a) ==
  /\ a \in GateAttempts
  /\ OpenSeed(a)
  /\ token' = [Revoked EXCEPT ![a] = [live |-> TRUE, deadline |-> now + Idle]]
  /\ held' = a
  /\ UNCHANGED <<now, touch>>

(* AccountSession::unlock: an unbounded residency the gate knows not of.   *)
UnlockBeside(a) ==
  /\ a \notin GateAttempts
  /\ OpenSeed(a)
  /\ token' = [token EXCEPT ![a].live = TRUE]
  /\ UNCHANGED <<now, held, touch>>

(* An attempt that is still being authorized, or is refused.               *)
AttemptRuns(a) ==
  /\ MayRun(a)
  /\ Authorize(a)
  /\ UNCHANGED session

(* UnlockGate::access finds the unlock live, and goes on to touch it.      *)
Access ==
  /\ ~Borrowed
  /\ held # None
  /\ IsLive(held)
  /\ touch' = "checking"
  /\ UNCHANGED <<factors, now, held, token>>

(* It finds the window lapsed: the seed is dropped.                        *)
AccessLapsed ==
  /\ ~Borrowed
  /\ held # None
  /\ ~IsLive(held)
  /\ token' = Revoked
  /\ held' = None
  /\ UNCHANGED <<factors, now, touch>>

(* Residency::touch: liveness is checked, and then the clock is read again *)
(* under the lock of the deadline.                                         *)
TouchCheck ==
  /\ touch = "checking"
  /\ touch' = IF IsLive(held) THEN "refreshing" ELSE "none"
  /\ UNCHANGED <<factors, now, held, token>>

(* Mutant: a refreshed token is a live token.                              *)
RefreshRevives ==
  /\ touch = "refreshing"
  /\ token' = [token EXCEPT ![held] = [live |-> TRUE, deadline |-> now + Idle]]
  /\ touch' = "none"
  /\ UNCHANGED <<factors, now, held>>

Refresh ==
  /\ touch = "refreshing"
  /\ token' = [token EXCEPT ![held].deadline = now + Idle]
  /\ touch' = "none"
  /\ UNCHANGED <<factors, now, held>>

(* lock(), or the gate is dropped.                                         *)
Lock ==
  /\ ~Borrowed
  /\ held # None
  /\ token' = Revoked
  /\ held' = None
  /\ UNCHANGED <<factors, now, touch>>

(* UnlockedAccount::lock, on whatever thread holds the handle: the gate is *)
(* not told, and holds an unlock that is no longer live.                   *)
LockHandle(a) ==
  /\ token[a].live
  /\ token' = [token EXCEPT ![a].live = FALSE]
  /\ UNCHANGED <<factors, now, held, touch>>

Init ==
  /\ FactorInit
  /\ now = 0
  /\ held = None
  /\ token = [a \in Attempts |-> [live |-> FALSE, deadline |-> 0]]
  /\ touch = "none"

Next ==
  \/ \E a \in Attempts : AttemptRuns(a) \/ Unlock(a) \/ UnlockBeside(a) \/ LockHandle(a)
  \/ Access \/ AccessLapsed \/ TouchCheck \/ Refresh \/ Lock
  \/ Surroundings /\ UNCHANGED session
  \/ Tick

Spec == Init /\ [][Next]_vars

(***************************************************************************)
(* Properties                                                              *)
(***************************************************************************)
TypeOK ==
  /\ FactorTypeOK
  /\ now \in 0 .. MaxNow
  /\ held \in GateAttempts \cup {None}
  /\ token \in [Attempts -> [live : BOOLEAN, deadline : 0 .. MaxNow + Idle]]
  /\ touch \in {"none", "checking", "refreshing"}

(* "A capability handle that outlives its gate outlives its authority":    *)
(* of all the unlocks the gate ever made only the one it holds is live, so *)
(* after a lock, a lapse or a superseding unlock no capability signs.      *)
OnlyTheHeldUnlockIsLive ==
  \A a \in GateAttempts : IsLive(a) => held = a

(* "A relock is never undone by touching it", as far as it holds: an       *)
(* access() goes on to refresh only an unlock it finds live, and one that  *)
(* was not live becomes live only by such a refresh, of a window that      *)
(* lapsed between the check and it.  A revoked one never does.             *)
LapseIsUndoneOnlyMidTouch ==
  [][/\ \A a \in Attempts :
           attempt[a].at = "open" /\ ~IsLive(a) /\ IsLive(a)'
             => touch = "refreshing" /\ held = a /\ token[a].live
     /\ touch # "refreshing" /\ touch' = "refreshing" => IsLive(held)]_vars
=============================================================================
