--------------------------- MODULE ResolveReference ---------------------------
(***************************************************************************)
(* What a resolution must come to, over every history of a DID of a few    *)
(* coins and every source that errs in one or two of its answers.          *)
(***************************************************************************)
EXTENDS ProfileRegistry, ProfileResolve

CONSTANT MaxLineage   \* coins of a DID's lineage

ASSUME LineageAssumption == MaxLaunches \in Nat /\ MaxLineage \in Nat

(* What became of the launch that a DID coin's spend began, if any.        *)
Fates == {"none", "begun", "live", "melted"}

(* A DID of n + 1 coins: n spends, each with the fate of its launch.       *)
Histories == UNION {[0 .. n - 1 -> Fates] : n \in 1 .. MaxLineage - 1}

Length(h) == Cardinality(DOMAIN h)

DidCoins(h) == {<<"did", i>> : i \in 0 .. Length(h)}
Mids(h)     == {<<"mid", i>> : i \in {j \in DOMAIN h : h[j] # "none"}}
Alive(h)     == {<<"launcher", i>> : i \in {j \in DOMAIN h : h[j] = "live"}}
Spends(h)   == {<<"did", i>> : i \in DOMAIN h}
                 \cup {<<"mid", i>> : i \in {j \in DOMAIN h : h[j] \in {"live", "melted"}}}

(* What the chain holds.                                                   *)
TrueSpend(h, c) ==
  IF c \notin Spends(h) THEN Nothing
  ELSE IF c[1] = "did" THEN SpendOf(c, {"did"} \cup (IF h[c[2]] = "none" THEN {} ELSE {"mid"}))
  ELSE SpendOf(c, {"launcher"})

Coins(h) == DidCoins(h) \cup {<<"mid", i>> : i \in DOMAIN h}

Honest(h) ==
  [lineage |-> DidCoins(h), known |-> DidCoins(h),
   spends  |-> [c \in Coins(h) |-> TrueSpend(h, c)],
   stores  |-> [s \in {<<"launcher", i>> : i \in DOMAIN h} |->
                  IF s \in Alive(h) THEN "live" ELSE "gone"]]

(* One answer of a source that differs from the chain: a spend it has lost *)
(* or not seen yet, a read that fails, the spend of some other coin, a     *)
(* store it has not seen yet, and a lineage that lags, runs ahead of the   *)
(* spends, or takes an intermediate for a coin of the DID.                 *)
Faulty(h, s) ==
  {[s EXCEPT !.spends[x[1]] = x[2]] : x \in Spends(h) \X {Nothing, Failed}}
    \cup {[s EXCEPT !.spends[x[1]] = TrueSpend(h, x[2])] : x \in Spends(h) \X Spends(h)}
    \cup {[s EXCEPT !.stores[x[1]] = x[2]] : x \in Alive(h) \X {"gone", "error"}}
    \cup {[s EXCEPT !.lineage = {<<"did", i>> : i \in 0 .. k}] : k \in 0 .. Length(h)}
    \cup {[s EXCEPT !.lineage = @ \cup {c}] :
             c \in {m \in Mids(h) \cup {<<"did", Length(h) + 1>>} : <<"did", 0>> \in s.lineage}}
    \cup {[s EXCEPT !.lineage = l] : l \in {{}, {Failed.of}}}
    \cup {[s EXCEPT !.known = {}]}

Once(h)  == {Honest(h)} \cup Faulty(h, Honest(h))
Twice(h) == Once(h) \cup UNION {Faulty(h, s) : s \in Once(h)}

Refusals == {"NoIdentitySingleton", "ChainUnreachable", "Unparseable", "TooManyLaunches"}

(* The launches a source tells of: those of the coins in its lineage, but  *)
(* for the last coin when it has not seen that coin spent.                 *)
Told(h, s) ==
  {l \in Alive(h) : /\ <<"did", l[2]>> \in s.lineage
                   /\ \/ <<"did", l[2] + 1>> \in s.lineage
                      \/ s.spends[<<"did", l[2]>>] # Nothing}

(* A launch the source hides: it serves no spend of the intermediate, or   *)
(* calls its store gone.                                                   *)
Hides(h, s) ==
  \E l \in Told(h, s) : \/ s.spends[<<"mid", l[2]>>] = Nothing
                        \/ s.stores[l] # "live"

(* An answer that tells of exactly these stores.                           *)
Tells(answer, stores) ==
  /\ answer.stores = stores
  /\ answer.kind = "NoProfileStore" <=> stores = {}
  /\ answer.kind = "Resolved" <=> \E s \in stores : stores = {s}

(* The stores of an answer are live stores of this DID; and the answer is  *)
(* complete unless the source hid a launch outright: losing a spend of the *)
(* DID is never taken for an absence.                                      *)
AnswersAreTrue ==
  \A h \in Histories : \A s \in Twice(h) :
    LET answer == Resolve(s)
    IN  /\ answer.stores \subseteq Told(h, s)
        /\ answer.kind \notin Refusals /\ ~Hides(h, s) => Tells(answer, Told(h, s))

(* An honest source is refused only for more launches than are counted.    *)
HonestSourcesAreHeard ==
  \A h \in Histories :
    LET answer == Resolve(Honest(h))
    IN  IF Cardinality(Mids(h)) > MaxLaunches THEN answer = Answer("TooManyLaunches", {})
                                              ELSE Tells(answer, Alive(h))

(* The answers a source may give about a coin that an anchor says confirmed*)
(* at "height 1", and the answers it gives when it can tell less.          *)
Records == {"error", "absent", "height not known", "elsewhere", "height 1"}

Vaguer(r) == {r, "error"} \cup (IF r = "absent" THEN {} ELSE {"height not known"})

Reread(r) == ConfirmCoin(r, "height 1")

(* Knowing less never contradicts what knowing more did not, nor verifies  *)
(* what knowing more would not; and an answer that disagrees is heard      *)
(* whatever became of the other half.                                      *)
SilenceProvesNothing ==
  \A did, store \in Records :
    LET told == VerifyAnchor(Reread(did), Reread(store))
    IN  /\ told = "Verified" <=> did = "height 1" /\ store = "height 1"
        /\ told = "Contradicted" <=> {did, store} \cap {"absent", "elsewhere"} # {}
        /\ \A d \in Vaguer(did), s \in Vaguer(store) :
             VerifyAnchor(Reread(d), Reread(s)) \in {told, "Unknown"}

(* resolve_profile_store finds the one live store of a DID, or reports all *)
(* of several, whatever one or two answers its source gets wrong: a lost   *)
(* spend of the DID is refused and never read as "no profile", and an      *)
(* honest source is never refused.  verify_anchor, which re-reads what was *)
(* resolved, is contradicted by a disagreement alone, never by silence.    *)
ResolutionIsTrue ==
  active \in Ixs \cup {Empty} =>
    AnswersAreTrue /\ HonestSourcesAreHeard /\ SilenceProvesNothing
=============================================================================
