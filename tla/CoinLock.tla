------------------------------ MODULE CoinLock -------------------------------
(***************************************************************************)
(* What coin reservation promises, without clocks, tables, selections or   *)
(* retries: a lock on sets of coins.  A lock is taken on all of its coins  *)
(* in one step, only while no other lock covers any of them, and it is     *)
(* given up whole.                                                         *)
(***************************************************************************)

VARIABLE locked   \* the locks held: [id, coins]

Init == locked = {}

Acquire ==
  \E l \in locked' \ locked :
     /\ locked' = locked \cup {l}
     /\ \A m \in locked : m.coins \cap l.coins = {} /\ m.id # l.id

(* Locks are given up by their owner, by lapsing, or all at once when the  *)
(* process that holds them dies.                                           *)
Free == locked' \subseteq locked

Next == Acquire \/ Free

Spec == Init /\ [][Next]_locked
=============================================================================
