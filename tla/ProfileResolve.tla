---------------------------- MODULE ProfileResolve ----------------------------
(***************************************************************************)
(* Finding a profile's store from its DID, by lineage, and re-reading the  *)
(* two coins an anchor names: what is made of a source's answers.          *)
(*                                                                         *)
(* A coin is known by its kind and the DID coin it descends from, which is *)
(* what its id commits to: <<"did", i>> is the i-th coin of the lineage    *)
(* (the first is the launcher), <<"mid", i>> the intermediate that coin's  *)
(* spend makes and <<"launcher", i>> the store launcher that makes.        *)
(***************************************************************************)
EXTENDS Integers, FiniteSets

CONSTANT MaxLaunches  \* MAX_PROFILE_LAUNCHES_PER_DID

(* The coin of a kind that a spend of c makes: PROFILE_INTERMEDIATE_PUZZLE_*)
(* HASH and the singleton's own hash are kinds.                            *)
Child(c, kind) == IF kind = "did" THEN <<"did", c[2] + 1>> ELSE <<kind, c[2]>>

(* A spend, as created_coins reads it: whose it is and what it makes.      *)
SpendOf(coin, creates) == [of |-> coin, creates |-> creates]

(* A source: the lineage it calls the DID's (none if it knows none), its   *)
(* answer to a coin's spend, and to the lineage of a store.  A read that   *)
(* fails is answered "error".                                              *)
Nothing == [of |-> <<"none", 0>>, creates |-> {}]
Failed  == [of |-> <<"error", 0>>, creates |-> {}]

Start == [at |-> <<"did", 0>>, mids |-> {}, visited |-> {<<"did", 0>>}, end |-> "walking"]

(* One step of profile_intermediates: the coin's spend makes at most one   *)
(* intermediate, and at most one coin of the lineage.                      *)
Step(source, w) ==
  LET spend == source.spends[w.at]
      next  == {Child(w.at, k) : k \in spend.creates} \cap source.lineage
      mids  == w.mids \cup (IF "mid" \in spend.creates THEN {Child(w.at, "mid")} ELSE {})
      on    == CHOOSE c \in next : TRUE
  IN  IF w.end # "walking" THEN w
      ELSE IF spend = Failed THEN [w EXCEPT !.end = "ChainUnreachable"]
      ELSE IF spend = Nothing THEN [w EXCEPT !.end = "walked"]
      ELSE IF spend.of # w.at THEN [w EXCEPT !.end = "Unparseable"]
      ELSE IF Cardinality(mids) > MaxLaunches THEN [w EXCEPT !.end = "TooManyLaunches"]
      ELSE IF next = {} THEN [w EXCEPT !.mids = mids, !.end = "walked"]
      ELSE IF Cardinality(next) > 1 \/ next \subseteq w.visited
           THEN [w EXCEPT !.end = "Unparseable"]
      ELSE [w EXCEPT !.at = on, !.mids = mids, !.visited = @ \cup next]

(* As many steps as the lineage has coins.                                 *)
Walk(source) ==
  LET walk[k \in 0 .. Cardinality(source.lineage)] ==
        IF k = 0 THEN Start ELSE Step(source, walk[k - 1])
  IN  walk[Cardinality(source.lineage)]

(* Mutant: a walk that stops early is believed.                            *)
IntermediatesReached(source) ==
  LET w == Walk(source)
  IN  IF w.end \in {"walking", "walked"} THEN [end |-> "found", mids |-> w.mids]
                                        ELSE [end |-> w.end, mids |-> {}]

(* profile_intermediates: every coin of the lineage must have been reached.*)
Intermediates(source) ==
  LET w == Walk(source)
  IN  IF w.end \notin {"walking", "walked"} THEN [end |-> w.end, mids |-> {}]
      ELSE IF Cardinality(w.visited) # Cardinality(source.lineage)
           THEN [end |-> "Unparseable", mids |-> {}]
      ELSE [end |-> "found", mids |-> w.mids]

(* launcher_created_by, and whether a live singleton descends from it: an  *)
(* intermediate that was never spent names no store.                       *)
Launched(source, mid) ==
  LET spend == source.spends[mid]
      store == source.stores[Child(mid, "launcher")]
  IN  IF spend = Failed THEN "ChainUnreachable"
      ELSE IF spend = Nothing THEN "nothing"
      ELSE IF spend.of # mid THEN "Unparseable"
      ELSE IF "launcher" \notin spend.creates THEN "nothing"
      ELSE IF store = "error" THEN "ChainUnreachable"
      ELSE IF store = "gone" THEN "nothing"
      ELSE "live"

Answer(kind, stores) == [kind |-> kind, stores |-> stores]

(* Mutant: of several stores one is picked.                                *)
VerdictOfOne(stores) ==
  IF stores = {} THEN Answer("NoProfileStore", {})
                 ELSE Answer("Resolved", {CHOOSE s \in stores : TRUE})

(* ProfileStoreResolution: never a choice between two.                     *)
Verdict(stores) ==
  Answer(CASE Cardinality(stores) = 0 -> "NoProfileStore"
           [] Cardinality(stores) = 1 -> "Resolved"
           [] OTHER                   -> "Ambiguous", stores)

(* resolve_profile_store.                                                  *)
Resolve(source) ==
  LET walked == Intermediates(source)
      bad    == {m \in walked.mids : Launched(source, m) \notin {"nothing", "live"}}
      first  == CHOOSE m \in bad : \A n \in bad : m[2] <= n[2]
      live   == {Child(m, "launcher") : m \in {n \in walked.mids : Launched(source, n) = "live"}}
  IN  IF source.lineage = {Failed.of} THEN Answer("ChainUnreachable", {})
      ELSE IF source.lineage = {} THEN Answer("NoIdentitySingleton", {})
      ELSE IF <<"did", 0>> \notin source.known THEN Answer("Unparseable", {})
      ELSE IF walked.end # "found" THEN Answer(walked.end, {})
      ELSE IF bad # {} THEN Answer(Launched(source, first), {})
      ELSE Verdict(live)

(***************************************************************************)
(* Re-verification of an anchor                                            *)
(***************************************************************************)
(* confirm_coin: only an answer that disagrees contradicts.  A height of   *)
(* zero stands for a record without one.                                   *)
ConfirmCoin(answer, claimed) ==
  CASE answer = "error"            -> "Unknown"
    [] answer = "absent"           -> "Contradicted"
    [] answer = "height not known" -> "Unknown"
    [] answer = "elsewhere"        -> "Contradicted"
    [] answer = claimed            -> "Verified"

(* Mutant: the DID's half decides alone when it is not a pass.             *)
VerifyInOrder(did, store) == IF did # "Verified" THEN did ELSE store

(* verify_anchor: both halves are asked, and a contradiction wins; an      *)
(* anchor without a store coin is never verified.                          *)
VerifyAnchor(did, store) ==
  CASE "Contradicted" \in {did, store}      -> "Contradicted"
    [] did = "Verified" /\ store = "Verified" -> "Verified"
    [] OTHER                                -> "Unknown"
=============================================================================
