--------------------------- MODULE SettlementProofs ---------------------------
(***************************************************************************)
(* What the wallet concludes from a chain that forks and from nodes that   *)
(* lag is true for good, for every set of bundles and coins and every      *)
(* depth beyond the deepest fork and the longest lag.                      *)
(***************************************************************************)
EXTENDS RecordReference, SequenceTheorems, TLAPS

(* The node behind is at most Lag blocks behind, and never ahead.          *)
Near == behind.peak <= peak /\ peak <= behind.peak + Lag

(* Below the reach of a fork from where it stands, it sees what is there.  *)
Agree ==
  \A b \in Bundles :
    \/ behind.landed[b] # 0 /\ behind.landed[b] + Reach < behind.peak
    \/ landed[b] # 0 /\ landed[b] + Reach < behind.peak
    => landed[b] = behind.landed[b]

Waiting == \A b \in mempool : landed[b] = 0

ChainInv ==
  /\ ChainTypeOK
  /\ Near
  /\ Agree
  /\ Waiting
  /\ Consistent(landed)

(* Landed where no fork reaches, in every node's eyes.                     *)
Deep(y) == landed[y] # 0 /\ landed[y] + Reach + Lag < peak

(***************************************************************************)
(* The chain                                                               *)
(***************************************************************************)
(* The depths are natural numbers, a confirmation the deepest.             *)
LEMMA Depths ==
  Reach \in Nat /\ Lag \in Nat /\ MinDepth \in Nat /\ Reach + Lag + 1 < MinDepth
BY ChainAssumption, SettlementAssumption, DepthOutlastsForks

(* The height a set of bundles is seen at is that of one of them.          *)
LEMMA HeightOfOne ==
  ASSUME NEW l \in [Bundles -> Nat], NEW S \in SUBSET Bundles
  PROVE  /\ HeightIn(l, S) \in Nat
         /\ HeightIn(l, S) # 0 => \E b \in S : l[b] = HeightIn(l, S)
         /\ HeightIn(l, S) = 0 => \A b \in S : l[b] = 0
<1>1. CASE \E b \in S : l[b] # 0
  <2> DEFINE m == CHOOSE b \in S : l[b] # 0
  <2>1. m \in S /\ l[m] # 0
    BY <1>1
  <2>2. HeightIn(l, S) = l[m]
    BY <1>1 DEF HeightIn
  <2>3. l[m] \in Nat
    BY <2>1
  <2> HIDE DEF m
  <2> QED
    BY <2>1, <2>2, <2>3
<1>2. CASE \A b \in S : l[b] = 0
  BY <1>2 DEF HeightIn
<1> QED
  BY <1>1, <1>2

(* Every view is of the type of a chain.                                   *)
LEMMA ViewTypes ==
  ASSUME ChainTypeOK, NEW v \in Views
  PROVE  v.peak \in Nat /\ v.landed \in [Bundles -> Nat]
BY DEF ChainTypeOK, Views, View

(* A bundle that landed deep is seen by every node.                        *)
LEMMA DeepIsSeen ==
  ASSUME ChainInv, NEW y \in Bundles, Deep(y), NEW v \in Views
  PROVE  v.landed[y] = landed[y]
<1>1. landed[y] \in Nat /\ behind.peak \in Nat /\ peak \in Nat
  BY DEF ChainInv, ChainTypeOK, View
<1>2. landed[y] # 0 /\ landed[y] + Reach < behind.peak
  BY <1>1, Depths DEF ChainInv, Near, Deep
<1>3. landed[y] = behind.landed[y]
  BY <1>2 DEF ChainInv, Agree
<1> QED
  BY <1>3 DEF Views

(* A height read anywhere and buried under a peak read no later is deep.   *)
LEMMA BuriedIsDeep ==
  ASSUME ChainInv, NEW S \in SUBSET Bundles, NEW v \in Views,
         NEW pk \in Nat, pk <= peak,
         HeightIn(v.landed, S) # 0,
         Burial(HeightIn(v.landed, S), pk) >= MinDepth
  PROVE  \E y \in S : Deep(y)
<1> DEFINE h == HeightIn(v.landed, S)
<1>1. v.peak \in Nat /\ v.landed \in [Bundles -> Nat]
  BY ViewTypes DEF ChainInv
<1>2. h \in Nat
  BY <1>1, HeightOfOne
<1>3. PICK y \in S : v.landed[y] = h /\ h # 0
  BY <1>1, HeightOfOne
<1>4. peak \in Nat /\ behind.peak \in Nat /\ landed \in [Bundles -> Nat]
      /\ behind.landed \in [Bundles -> Nat]
  BY DEF ChainInv, ChainTypeOK, View
<1>5. (IF pk > h THEN pk - h ELSE 0) + 1 >= MinDepth
  BY DEF Burial
<1> HIDE DEF h
<1>6. h + Reach + Lag < peak
  <2>1. MinDepth > 1
    BY Depths
  <2>2. h + MinDepth <= pk + 1
    BY <1>2, <1>5, <2>1, Depths
  <2> QED
    BY <1>2, <1>4, <2>2, Depths
<1>7. landed[y] = h
  <2>1. CASE v.landed = landed
    BY <1>3, <2>1
  <2>2. CASE v.landed = behind.landed
    <3>1. h + Reach < behind.peak
      BY <1>2, <1>4, <1>6, Depths DEF ChainInv, Near
    <3>2. behind.landed[y] # 0 /\ behind.landed[y] + Reach < behind.peak
      BY <1>3, <2>2, <3>1
    <3> QED
      BY <1>3, <2>2, <3>2 DEF ChainInv, Agree
  <2> QED
    BY <2>1, <2>2 DEF Views
<1> QED
  BY <1>3, <1>6, <1>7 DEF Deep

(* A chain that changes only where the node behind cannot vouch for it     *)
(* leaves the two in agreement.                                            *)
LEMMA KeepUpAgrees ==
  ASSUME ChainTypeOK, Near, Agree, KeepUp,
         peak' \in Nat, landed' \in [Bundles -> Nat], peak <= peak',
         \A b \in Bundles : landed'[b] # landed[b] =>
           /\ ~(landed[b] # 0 /\ landed[b] + Reach < behind.peak)
           /\ ~(landed'[b] # 0 /\ landed'[b] + Reach < behind.peak)
  PROVE  behind' \in View /\ Near' /\ Agree'
<1>1. /\ behind \in View /\ peak \in Nat /\ behind.peak \in Nat
      /\ landed \in [Bundles -> Nat] /\ behind.landed \in [Bundles -> Nat]
  BY DEF ChainTypeOK, View
<1>2. CASE peak' - behind.peak <= Lag /\ Lag > 0
  <2>1. behind' = behind
    BY <1>2 DEF KeepUp
  <2>2. Near'
    BY <1>1, <1>2, <2>1, Depths DEF Near
  <2>3. Agree'
    BY <1>1, <2>1 DEF Agree
  <2> QED
    BY <1>1, <2>1, <2>2, <2>3
<1>3. CASE ~(peak' - behind.peak <= Lag /\ Lag > 0)
  <2>1. behind' = [peak |-> peak', landed |-> landed']
    BY <1>3 DEF KeepUp
  <2>2. behind'.peak = peak' /\ behind'.landed = landed'
    BY <2>1
  <2>3. behind' \in View
    BY <2>1 DEF View
  <2>4. Near'
    BY <2>2, Depths DEF Near
  <2>5. Agree'
    BY <2>2 DEF Agree
  <2> QED
    BY <2>3, <2>4, <2>5
<1> QED
  BY <1>2, <1>3

(* What a step of the chain keeps.                                         *)
Onward ==
  /\ ChainInv'
  /\ peak <= peak'
  /\ \A y \in Bundles : Deep(y) => landed'[y] = landed[y]

(* A block.                                                                *)
LEMMA BlockKeeps == ASSUME ChainInv, Block PROVE Onward
<1>1. PICK S \in SUBSET mempool :
        landed' = [b \in Bundles |-> IF b \in S THEN peak ELSE landed[b]]
  BY DEF Block
<1>2. /\ behind \in View /\ peak \in Nat \ {0} /\ behind.peak \in Nat
      /\ landed \in [Bundles -> Nat] /\ mempool \subseteq Bundles
  BY DEF ChainInv, ChainTypeOK, View
<1>3. peak' = peak + 1 /\ KeepUp /\ Consistent(landed')
      /\ mempool' = {b \in mempool : Includable(landed', b)}
  BY DEF Block
<1>4. landed' \in [Bundles -> Nat] /\ peak' \in Nat \ {0} /\ peak <= peak'
  BY <1>1, <1>2, <1>3
<1>5. ASSUME NEW b \in Bundles, landed'[b] # landed[b]
      PROVE  landed[b] = 0 /\ landed'[b] = peak
  BY <1>1, <1>2, <1>5 DEF ChainInv, Waiting
<1>6. behind' \in View /\ Near' /\ Agree'
  <2>1. \A b \in Bundles : landed'[b] # landed[b] =>
           /\ ~(landed[b] # 0 /\ landed[b] + Reach < behind.peak)
           /\ ~(landed'[b] # 0 /\ landed'[b] + Reach < behind.peak)
    BY <1>2, <1>5, Depths DEF ChainInv, Near
  <2> QED
    BY <1>3, <1>4, <2>1, KeepUpAgrees DEF ChainInv
<1>7. Waiting'
  BY <1>3 DEF Waiting, Includable
<1>8. ChainTypeOK'
  BY <1>2, <1>3, <1>4, <1>6 DEF ChainTypeOK
<1>9. ChainInv'
  BY <1>3, <1>6, <1>7, <1>8 DEF ChainInv
<1>10. \A y \in Bundles : Deep(y) => landed'[y] = landed[y]
  BY <1>5 DEF Deep
<1> QED
  BY <1>4, <1>9, <1>10 DEF Onward

(* A fork.                                                                 *)
LEMMA ReorgKeeps == ASSUME ChainInv, Reorg PROVE Onward
<1>1. PICK k \in 1 .. Reach :
        LET undone == {b \in Bundles : landed[b] # 0 /\ landed[b] + k >= peak}
        IN  /\ First + k <= peak
            /\ \E S \in SUBSET (mempool \cup undone), h \in First .. (peak - 1) :
                 /\ h + k >= peak
                 /\ landed' = [b \in Bundles |-> IF b \in S THEN h
                                                 ELSE IF b \in undone THEN 0
                                                 ELSE landed[b]]
                 /\ mempool' = (mempool \cup undone) \ S
  BY Zenon DEF Reorg
<1> DEFINE undone == {b \in Bundles : landed[b] # 0 /\ landed[b] + k >= peak}
<1>2. PICK S \in SUBSET (mempool \cup undone), h \in First .. (peak - 1) :
        /\ h + k >= peak
        /\ landed' = [b \in Bundles |-> IF b \in S THEN h
                                        ELSE IF b \in undone THEN 0
                                        ELSE landed[b]]
        /\ mempool' = (mempool \cup undone) \ S
  BY <1>1
<1>3. /\ behind \in View /\ peak \in Nat \ {0} /\ behind.peak \in Nat
      /\ landed \in [Bundles -> Nat] /\ mempool \subseteq Bundles
  BY DEF ChainInv, ChainTypeOK, View
<1>4. peak' = peak /\ KeepUp /\ Consistent(landed')
  BY DEF Reorg
<1>5. k \in Nat /\ k <= Reach /\ h \in Nat
  BY Depths DEF First
<1>6. landed' \in [Bundles -> Nat] /\ mempool' \subseteq Bundles
  BY <1>2, <1>3, <1>5
<1>7. ASSUME NEW b \in Bundles, landed'[b] # landed[b]
      PROVE  /\ landed[b] = 0 \/ landed[b] + Reach >= peak
             /\ landed'[b] = 0 \/ landed'[b] + Reach >= peak
  <2>1. b \in S \/ b \in undone
    BY <1>2, <1>7
  <2>2. landed[b] = 0 \/ b \in undone
    BY <2>1 DEF ChainInv, Waiting
  <2>3. landed'[b] = 0 \/ landed'[b] = h
    BY <1>2, <2>1
  <2> QED
    BY <1>2, <1>3, <1>5, <2>2, <2>3, Depths
<1>8. behind' \in View /\ Near' /\ Agree'
  <2>1. \A b \in Bundles : landed'[b] # landed[b] =>
           /\ ~(landed[b] # 0 /\ landed[b] + Reach < behind.peak)
           /\ ~(landed'[b] # 0 /\ landed'[b] + Reach < behind.peak)
    BY <1>3, <1>6, <1>7, Depths DEF ChainInv, Near
  <2> QED
    BY <1>3, <1>4, <1>6, <2>1, KeepUpAgrees DEF ChainInv
<1>9. Waiting'
  <2> SUFFICES ASSUME NEW b \in mempool' PROVE landed'[b] = 0
    BY DEF Waiting
  <2>1. b \in Bundles /\ b \notin S /\ (b \in mempool \/ b \in undone)
    BY <1>2, <1>6
  <2> QED
    BY <1>2, <2>1 DEF ChainInv, Waiting
<1>10. ChainTypeOK'
  BY <1>3, <1>4, <1>6, <1>8 DEF ChainTypeOK
<1>11. ChainInv'
  BY <1>4, <1>8, <1>9, <1>10 DEF ChainInv
<1>12. \A y \in Bundles : Deep(y) => landed'[y] = landed[y]
  BY <1>3, <1>7, Depths DEF Deep
<1> QED
  BY <1>3, <1>4, <1>11, <1>12 DEF Onward

(* Every step of the chain, and a push.                                    *)
LEMMA ChainMoves ==
  ASSUME ChainInv, ChainStep \/ UNCHANGED chainVars \/ (\E b \in Bundles : Accept(b))
  PROVE  Onward
<1>1. /\ behind \in View /\ peak \in Nat \ {0}
      /\ landed \in [Bundles -> Nat] /\ mempool \subseteq Bundles
  BY DEF ChainInv, ChainTypeOK
<1>2. CASE Block
  BY <1>2, BlockKeeps
<1>3. CASE Reorg
  BY <1>3, ReorgKeeps
<1>4. CASE Evict \/ UNCHANGED chainVars \/ (\E b \in Bundles : Accept(b))
  <2>1. UNCHANGED <<peak, landed, behind>>
    BY <1>4 DEF Evict, Accept, chainVars
  <2>2. mempool' \subseteq Bundles /\ Waiting'
    BY <1>1, <1>4, <2>1 DEF Evict, Accept, chainVars, Includable, Waiting, ChainInv
  <2> QED
    BY <1>1, <2>1, <2>2 DEF Onward, ChainInv, ChainTypeOK, Near, Agree, Consistent
<1>5. CASE CatchUp
  <2>1. behind' = [peak |-> peak, landed |-> landed] /\ UNCHANGED <<peak, landed, mempool>>
    BY <1>5 DEF CatchUp
  <2>2. behind'.peak = peak /\ behind'.landed = landed
    BY <2>1
  <2>3. behind' \in View /\ Near' /\ Agree'
    BY <1>1, <2>1, <2>2, Depths DEF View, Near, Agree
  <2> QED
    BY <1>1, <2>1, <2>3 DEF Onward, ChainInv, ChainTypeOK, Waiting, Consistent
<1> QED
  BY <1>2, <1>3, <1>4, <1>5 DEF ChainStep

(***************************************************************************)
(* The wallet and its host                                                 *)
(***************************************************************************)
HostTypeOK ==
  /\ family \subseteq Bundles
  /\ reread \in [Pushed -> SUBSET Coins]
  /\ pending \in [Pushed -> Nat]
  /\ sent \subseteq Bundles
  /\ watch \in [Pushed -> Watch]
  /\ confirmed \subseteq Pushed
  /\ failed \subseteq Pushed

(* What the wallet pushed has a record, and a second payment has a dead    *)
(* first one.                                                              *)
Abroad(b) == landed[b] # 0 \/ b \in mempool

Books ==
  /\ \A b \in Pushed : Abroad(b) => pending[b] # 0
  /\ \A b \in Pushed : pending[b] # 0 /\ Resends[b] # NoBundle => Resends[b] \in failed

(* An input of b is taken for good.                                        *)
Taken(b) == \E c \in Spends[b] : \E y \in Spenders(c) : Deep(y)

(* ... and not by b or a copy of it.                                       *)
Robbed(b) ==
  \E c \in Spends[b] : \E y \in Spenders(c) : Deep(y) /\ y \notin Makers(Watched[b])

Reads ==
  \A b \in Pushed :
    /\ watch[b].peak <= peak
    /\ watch[b].left \subseteq Spends[b]
    /\ b \in Transfers /\ watch[b].stage = "again" => Taken(b)

Verdicts ==
  /\ \A b \in confirmed : \E y \in Makers(Watched[b]) : Deep(y)
  /\ \A b \in failed \cap Transfers : Robbed(b)

IInv == ChainInv /\ HostTypeOK /\ Books /\ Reads /\ Verdicts

(* What is deep stays deep.                                                *)
LEMMA DeepStays ==
  ASSUME ChainInv, Onward, NEW y \in Bundles, Deep(y)
  PROVE  Deep(y)'
<1>1. landed'[y] = landed[y] /\ peak <= peak'
  BY DEF Onward
<1>2. landed[y] \in Nat /\ peak \in Nat /\ peak' \in Nat
  BY DEF Onward, ChainInv, ChainTypeOK
<1> QED
  BY <1>1, <1>2, Depths DEF Deep

(* So do the conclusions drawn from it.                                    *)
LEMMA ConclusionsStay ==
  ASSUME ChainInv, Onward, NEW b \in Pushed
  PROVE  /\ Taken(b) => Taken(b)'
         /\ Robbed(b) => Robbed(b)'
         /\ (\E y \in Makers(Watched[b]) : Deep(y)) => (\E y \in Makers(Watched[b]) : Deep(y)')
<1>1. \A y \in Bundles : Deep(y) => Deep(y)'
  BY DeepStays
<1> QED
  BY <1>1 DEF Taken, Robbed, Spenders, Makers

(* The chain brings no bundle abroad by itself.                            *)
LEMMA NobodyElsePushes ==
  ASSUME ChainStep, NEW b \in Bundles, Abroad(b)'
  PROVE  Abroad(b)
<1>1. CASE Block
  BY <1>1 DEF Block, Abroad
<1>2. CASE Reorg
  BY <1>2 DEF Reorg, Abroad
<1>3. CASE Evict \/ CatchUp
  BY <1>3 DEF Evict, CatchUp, Abroad
<1> QED
  BY <1>1, <1>2, <1>3 DEF ChainStep

(* One answer about a coin: its type, and the view it comes from.          *)
LEMMA AnswerTypes ==
  ASSUME ChainTypeOK, NEW c \in Coins, NEW r \in Answers(c)
  PROVE  /\ r.confirmed \in Nat /\ r.spent \in Nat
         /\ r = Unconfirmed \/ \E v \in Views : r = Record(c, v)
<1>1. r = Unconfirmed \/ \E v \in Views : r = Record(c, v)
  BY DEF Answers
<1>2. ASSUME NEW v \in Views
      PROVE  HeightIn(v.landed, Makers(c)) \in Nat /\ HeightIn(v.landed, Spenders(c)) \in Nat
  <2>1. v.landed \in [Bundles -> Nat]
    BY ViewTypes
  <2> QED
    BY <2>1, HeightOfOne DEF Makers, Spenders
<1> QED
  BY <1>1, <1>2 DEF Unconfirmed, Record

(* A record that settles is that of a bundle buried for good.              *)
LEMMA SettledIsDeep ==
  ASSUME ChainInv, HostTypeOK, Reads, NEW b \in Pushed, NEW r \in Answers(Watched[b]),
         Settles(b, r, watch[b].peak)
  PROVE  \E y \in Makers(Watched[b]) : Deep(y)
<1>1. Watched[b] \in Coins /\ Makers(Watched[b]) # {}
  BY SettlementAssumption, PaymentNamesItsInputs
<1>2. r.confirmed # 0 /\ Burial(r.confirmed, watch[b].peak) >= MinDepth
  BY DEF Settles
<1>3. PICK v \in Views : r = Record(Watched[b], v)
  <2>1. r # Unconfirmed
    BY <1>2 DEF Unconfirmed
  <2> QED
    BY <1>1, <2>1, AnswerTypes DEF ChainInv
<1>4. r.confirmed = HeightIn(v.landed, Makers(Watched[b]))
  BY <1>1, <1>3 DEF Record
<1>5. watch[b].peak \in Nat /\ watch[b].peak <= peak
  BY DEF HostTypeOK, Reads, Watch
<1> QED
  BY <1>2, <1>4, <1>5, BuriedIsDeep DEF Makers

(* An input seen spent and buried is taken for good.                       *)
LEMMA BuriedInputIsTaken ==
  ASSUME ChainInv, HostTypeOK, Reads, NEW b \in Pushed,
         NEW c \in watch[b].left, NEW r \in Answers(c), Buried(b, r)
  PROVE  Taken(b)
<1>1. c \in Spends[b] /\ c \in Coins
  BY ChainAssumption, SettlementAssumption DEF Reads
<1>2. r.spent # 0 /\ Burial(r.spent, watch[b].peak) >= MinDepth
  BY DEF Buried
<1>3. PICK v \in Views : r = Record(c, v)
  <2>1. r # Unconfirmed
    BY <1>2 DEF Unconfirmed
  <2> QED
    BY <1>1, <2>1, AnswerTypes DEF ChainInv
<1>4. r.spent = HeightIn(v.landed, Spenders(c))
  BY <1>3 DEF Record
<1>5. watch[b].peak \in Nat /\ watch[b].peak <= peak
  BY DEF HostTypeOK, Reads, Watch
<1>6. \E y \in Spenders(c) : Deep(y)
  BY <1>2, <1>4, <1>5, BuriedIsDeep DEF Spenders
<1> QED
  BY <1>1, <1>6 DEF Taken

(* The payment coin absent a second time: not b, nor a copy, took it.      *)
LEMMA AbsentAgainIsRobbed ==
  ASSUME ChainInv, NEW b \in Pushed, Taken(b),
         NEW r \in Answers(Watched[b]), ~r.exists
  PROVE  Robbed(b)
<1>1. Watched[b] \in Coins
  BY SettlementAssumption
<1>2. PICK v \in Views : r = Record(Watched[b], v)
  <2>1. r # Unconfirmed
    BY DEF Unconfirmed
  <2> QED
    BY <1>1, <2>1, AnswerTypes DEF ChainInv
<1>3. HeightIn(v.landed, Makers(Watched[b])) = 0
  BY <1>2 DEF Record
<1>4. v.landed \in [Bundles -> Nat]
  BY ViewTypes DEF ChainInv
<1>5. \A y \in Makers(Watched[b]) : v.landed[y] = 0
  BY <1>3, <1>4, HeightOfOne DEF Makers
<1>6. PICK c \in Spends[b] : \E y \in Spenders(c) : Deep(y)
  BY DEF Taken
<1>7. PICK y \in Spenders(c) : Deep(y)
  BY <1>6
<1>8. y \in Bundles /\ v.landed[y] = landed[y] /\ landed[y] # 0
  BY <1>7, DeepIsSeen DEF Spenders, Deep
<1> QED
  BY <1>5, <1>7, <1>8 DEF Robbed

(* One read: the call about b moves on to w ...                            *)
MovesTo(b, w) ==
  /\ w \in Watch
  /\ w.peak <= peak
  /\ w.left \subseteq Spends[b]
  /\ b \in Transfers /\ w.stage = "again" => Taken(b)
  /\ watch' = [watch EXCEPT ![b] = w]

(* ... and gives a verdict only on evidence.                               *)
OnEvidence(b) ==
  /\ UNCHANGED <<chainVars, family, reread, pending, sent>>
  /\ \/ confirmed' = confirmed
     \/ confirmed' = confirmed \cup {b} /\ \E y \in Makers(Watched[b]) : Deep(y)
  /\ \/ failed' = failed
     \/ failed' = failed \cup {b} /\ (b \in Transfers => Robbed(b))

(* Such a read keeps the invariant.                                        *)
LEMMA ReadKeeps ==
  ASSUME IInv, NEW b \in Pushed, NEW w, MovesTo(b, w), OnEvidence(b)
  PROVE  IInv'
<1>1. UNCHANGED <<peak, landed, mempool, behind>> /\ UNCHANGED <<family, reread, pending, sent>>
  BY DEF OnEvidence, chainVars
<1>2. ChainInv'
  BY <1>1 DEF IInv, ChainInv, ChainTypeOK, Near, Agree, Waiting, Consistent
<1>3. HostTypeOK'
  BY <1>1 DEF IInv, HostTypeOK, MovesTo, OnEvidence
<1>4. Books'
  BY <1>1 DEF IInv, Books, Abroad, OnEvidence
<1>5. /\ \A y \in Bundles : Deep(y)' = Deep(y)
      /\ \A x \in Pushed : Taken(x)' = Taken(x) /\ Robbed(x)' = Robbed(x)
  BY <1>1 DEF Deep, Taken, Robbed
<1>6. Reads'
  <2> SUFFICES ASSUME NEW x \in Pushed
               PROVE  /\ watch'[x].peak <= peak'
                      /\ watch'[x].left \subseteq Spends[x]
                      /\ x \in Transfers /\ watch'[x].stage = "again" => Taken(x)'
    BY DEF Reads
  <2>1. CASE x = b
    <3>1. watch'[x] = w
      BY <2>1 DEF IInv, HostTypeOK, MovesTo
    <3> QED
      BY <1>1, <1>5, <2>1, <3>1 DEF MovesTo
  <2>2. CASE x # b
    <3>1. watch'[x] = watch[x]
      BY <2>2 DEF IInv, HostTypeOK, MovesTo
    <3> QED
      BY <1>1, <1>5, <3>1 DEF IInv, Reads
  <2> QED
    BY <2>1, <2>2
<1>7. Verdicts'
  <2>1. ASSUME NEW x \in confirmed' PROVE \E y \in Makers(Watched[x]) : Deep(y)'
    <3>1. \E y \in Makers(Watched[x]) : Deep(y)
      BY <2>1 DEF IInv, Verdicts, OnEvidence
    <3> QED
      BY <1>5, <3>1 DEF Makers
  <2>2. ASSUME NEW x \in failed' \cap Transfers PROVE Robbed(x)'
    <3>1. Robbed(x)
      BY <2>2 DEF IInv, Verdicts, OnEvidence
    <3> QED
      BY <1>5, <3>1 DEF Pushed
  <2> QED
    BY <2>1, <2>2 DEF Verdicts
<1> QED
  BY <1>2, <1>3, <1>4, <1>6, <1>7 DEF IInv

(* The reads of a status call and of a resume.                             *)
LEMMA StatusKeeps ==
  ASSUME IInv, NEW b \in Bundles, StatusStep(b) \/ Unreachable(b)
  PROVE  IInv'
<1> SUFFICES \E w : MovesTo(b, w) /\ OnEvidence(b)
  BY ReadKeeps
  DEF StatusStep, ReadPeak, ReadOutput, ReadInput, ReadOutputAgain, ReadFunding,
      ReadDistributorInput, ResumeFunding, ResumeLauncher, ResumeBurial, Unreachable, Pushed
<1>1. b \in Pushed
  BY DEF StatusStep, ReadPeak, ReadOutput, ReadInput, ReadOutputAgain, ReadFunding,
         ReadDistributorInput, ResumeFunding, ResumeLauncher, ResumeBurial, Unreachable, Pushed
<1>2. /\ watch[b] \in Watch /\ watch[b].peak <= peak /\ watch[b].left \subseteq Spends[b]
      /\ watch[b].left \subseteq Coins /\ Spends[b] \subseteq Coins
      /\ Watched[b] \in Coins /\ peak \in Nat
  BY <1>1, ChainAssumption, SettlementAssumption
  DEF IInv, HostTypeOK, Reads, ChainInv, ChainTypeOK, Watch
<1>3. Rest(b) => MovesTo(b, Resting)
  BY <1>2 DEF Resting, Watch, Stages, Rest, MovesTo
<1>4. ChainTypeOK /\ ChainInv /\ HostTypeOK /\ Reads
  BY DEF IInv, ChainInv
<1>5. CASE ReadPeak(b)
  <2>1. PICK v \in Views :
          watch' = [watch EXCEPT ![b] = [Resting EXCEPT !.stage = "output", !.peak = v.peak]]
    BY <1>5 DEF ReadPeak
  <2> DEFINE w == [Resting EXCEPT !.stage = "output", !.peak = v.peak]
  <2>2. v.peak \in Nat /\ v.peak <= peak
    BY <1>4, ViewTypes DEF Views, ChainInv, Near, ChainTypeOK, View
  <2>3. /\ w \in Watch /\ w.peak <= peak /\ w.left \subseteq Spends[b] /\ w.stage # "again"
    BY <2>2 DEF Resting, Watch, Stages
  <2>4. watch' = [watch EXCEPT ![b] = w]
    BY <2>1
  <2>5. OnEvidence(b)
    BY <1>5 DEF ReadPeak, host, OnEvidence
  <2> HIDE DEF w
  <2>6. MovesTo(b, w)
    BY <2>3, <2>4 DEF MovesTo
  <2> QED
    BY <2>5, <2>6
<1>6. CASE ReadOutput(b)
  <2>1. PICK r \in Answers(Watched[b]) :
          \/ /\ r.exists
             /\ confirmed' = IF Settles(b, r, watch[b].peak) THEN confirmed \cup {b} ELSE confirmed
             /\ failed' = IF b \in Distributors /\ Contradicts(b, r)
                          THEN failed \cup {b} ELSE failed
             /\ Rest(b)
          \/ /\ ~r.exists
             /\ watch' = [watch EXCEPT ![b].stage = "inputs", ![b].left = Spends[b]]
             /\ UNCHANGED <<confirmed, failed>>
    BY <1>6 DEF ReadOutput
  <2>2. UNCHANGED <<chainVars, family, reread, pending, sent>>
    BY <1>6 DEF ReadOutput
  <2>3. CASE r.exists
    <3>0. failed' = failed \/ (failed' = failed \cup {b} /\ b \notin Transfers)
      <4>1. failed' = IF b \in Distributors /\ Contradicts(b, r) THEN failed \cup {b} ELSE failed
        BY <2>1, <2>3
      <4>2. CASE b \in Distributors /\ Contradicts(b, r)
        <5>1. b \notin Transfers
          BY <4>2, KindsAreDistinct
        <5> QED
          BY <4>1, <4>2, <5>1
      <4>3. CASE ~(b \in Distributors /\ Contradicts(b, r))
        BY <4>1, <4>3
      <4> QED
        BY <4>2, <4>3
    <3>1. CASE Settles(b, r, watch[b].peak)
      <4>1. \E y \in Makers(Watched[b]) : Deep(y)
        BY <1>1, <1>4, <3>1, SettledIsDeep
      <4>2. confirmed' = confirmed \cup {b}
        BY <2>1, <2>3, <3>1
      <4>3. failed' = failed \/ (failed' = failed \cup {b} /\ b \notin Transfers)
        BY <3>0
      <4> QED
        BY <1>3, <2>1, <2>2, <2>3, <4>1, <4>2, <4>3 DEF OnEvidence
    <3>2. CASE ~Settles(b, r, watch[b].peak)
      <4>1. confirmed' = confirmed
        BY <2>1, <2>3, <3>2
      <4>2. failed' = failed \/ (failed' = failed \cup {b} /\ b \notin Transfers)
        BY <3>0
      <4> QED
        BY <1>3, <2>1, <2>2, <2>3, <4>1, <4>2 DEF OnEvidence
    <3> QED
      BY <3>1, <3>2
  <2>4. CASE ~r.exists
    <3> DEFINE w == [watch[b] EXCEPT !.stage = "inputs", !.left = Spends[b]]
    <3>1. watch' = [watch EXCEPT ![b] = w]
      BY <1>1, <1>4, <2>1, <2>4 DEF HostTypeOK
    <3>2. w \in Watch /\ w.peak <= peak /\ w.left \subseteq Spends[b] /\ w.stage # "again"
      BY <1>2 DEF Watch, Stages
    <3>3. OnEvidence(b)
      BY <2>1, <2>2, <2>4 DEF OnEvidence
    <3> HIDE DEF w
    <3>4. MovesTo(b, w)
      BY <3>1, <3>2 DEF MovesTo
    <3> QED
      BY <3>3, <3>4
  <2> QED
    BY <2>3, <2>4
<1>7. CASE ReadInput(b)
  <2>1. PICK c \in watch[b].left : \E r \in Answers(c) :
          watch' = [watch EXCEPT ![b] =
                      IF Buried(b, r) THEN [watch[b] EXCEPT !.stage = "again", !.left = {}]
                      ELSE IF watch[b].left = {c} THEN Resting
                      ELSE [watch[b] EXCEPT !.left = @ \ {c}]]
    BY <1>7 DEF ReadInput
  <2>2. PICK r \in Answers(c) :
          watch' = [watch EXCEPT ![b] =
                      IF Buried(b, r) THEN [watch[b] EXCEPT !.stage = "again", !.left = {}]
                      ELSE IF watch[b].left = {c} THEN Resting
                      ELSE [watch[b] EXCEPT !.left = @ \ {c}]]
    BY <2>1
  <2>3. watch[b].stage = "inputs" /\ OnEvidence(b)
    BY <1>7 DEF ReadInput, OnEvidence, host
  <2>4. CASE Buried(b, r)
    <3> DEFINE w == [watch[b] EXCEPT !.stage = "again", !.left = {}]
    <3>1. Taken(b)
      BY <1>1, <1>4, <2>4, BuriedInputIsTaken
    <3>2. w \in Watch /\ w.peak <= peak /\ w.left \subseteq Spends[b]
      BY <1>2 DEF Watch, Stages
    <3>3. watch' = [watch EXCEPT ![b] = w]
      BY <2>2, <2>4
    <3> HIDE DEF w
    <3>4. MovesTo(b, w)
      BY <3>1, <3>2, <3>3 DEF MovesTo
    <3> QED
      BY <2>3, <3>4
  <2>5. CASE ~Buried(b, r) /\ watch[b].left = {c}
    <3>1. Rest(b)
      BY <2>2, <2>5 DEF Rest
    <3> QED
      BY <1>3, <2>3, <3>1
  <2>6. CASE ~Buried(b, r) /\ watch[b].left # {c}
    <3> DEFINE w == [watch[b] EXCEPT !.left = @ \ {c}]
    <3>1. w \in Watch /\ w.peak <= peak /\ w.left \subseteq Spends[b] /\ w.stage # "again"
      BY <1>2, <2>3 DEF Watch
    <3>2. watch' = [watch EXCEPT ![b] = w]
      BY <2>2, <2>6
    <3> HIDE DEF w
    <3>3. MovesTo(b, w)
      BY <3>1, <3>2 DEF MovesTo
    <3> QED
      BY <2>3, <3>3
  <2> QED
    BY <2>4, <2>5, <2>6
<1>8. CASE ReadOutputAgain(b)
  <2>1. PICK r \in Answers(Watched[b]) : failed' = IF r.exists THEN failed ELSE failed \cup {b}
    BY <1>8 DEF ReadOutputAgain
  <2>2. Taken(b)
    BY <1>1, <1>4, <1>8 DEF ReadOutputAgain, Reads
  <2>3. Rest(b) /\ confirmed' = confirmed /\ UNCHANGED <<chainVars, family, reread, pending, sent>>
    BY <1>8 DEF ReadOutputAgain
  <2>4. CASE r.exists
    <3>1. failed' = failed
      BY <2>1, <2>4
    <3> QED
      BY <1>3, <2>3, <3>1 DEF OnEvidence
  <2>5. CASE ~r.exists
    <3>1. Robbed(b)
      BY <1>1, <1>4, <2>2, <2>5, AbsentAgainIsRobbed
    <3>2. failed' = failed \cup {b}
      BY <2>1, <2>5
    <3> QED
      BY <1>3, <2>3, <3>1, <3>2 DEF OnEvidence
  <2> QED
    BY <2>4, <2>5
<1>9. ASSUME b \notin Transfers, confirmed' = confirmed,
             failed' = failed \/ failed' = failed \cup {b},
             UNCHANGED <<chainVars, family, reread, pending, sent>>
      PROVE  OnEvidence(b)
  BY <1>9 DEF OnEvidence
<1>10. CASE ReadFunding(b)
  <2>1. Rest(b) /\ (failed' = failed \/ failed' = failed \cup {b})
    BY <1>10 DEF ReadFunding
  <2> QED
    BY <1>3, <1>9, <1>10, <2>1, KindsAreDistinct DEF ReadFunding
<1>11. CASE ReadDistributorInput(b)
  <2>1. PICK c \in watch[b].left : \E r \in Answers(c) :
          /\ failed' = IF r.spent # 0 THEN failed \cup {b} ELSE failed
          /\ watch' = [watch EXCEPT ![b] =
                         IF r.spent # 0 \/ watch[b].left = {c} THEN Resting
                         ELSE [watch[b] EXCEPT !.left = @ \ {c}]]
    BY <1>11 DEF ReadDistributorInput
  <2> DEFINE w == [watch[b] EXCEPT !.left = @ \ {c}]
  <2>2. watch' = [watch EXCEPT ![b] = Resting] \/ watch' = [watch EXCEPT ![b] = w]
    BY <2>1
  <2>3. w \in Watch /\ w.peak <= peak /\ w.left \subseteq Spends[b]
    BY <1>2 DEF Watch
  <2>4. b \notin Transfers /\ OnEvidence(b)
    BY <1>9, <1>11, <2>1, KindsAreDistinct DEF ReadDistributorInput
  <2> HIDE DEF w
  <2>5. CASE watch' = [watch EXCEPT ![b] = Resting]
    BY <1>3, <2>4, <2>5 DEF Rest
  <2>6. CASE watch' = [watch EXCEPT ![b] = w]
    <3>1. MovesTo(b, w)
      BY <2>3, <2>4, <2>6 DEF MovesTo
    <3> QED
      BY <2>4, <3>1
  <2> QED
    BY <2>2, <2>5, <2>6
<1>12. CASE ResumeFunding(b)
  <2>1. Funding[b] \in Coins
    BY <1>2, <1>12, SettlementAssumption DEF ResumeFunding
  <2>2. PICK r \in Answers(Funding[b]) :
          watch' = [watch EXCEPT ![b] =
                      [Resting EXCEPT !.stage = "launcher", !.spent = r.spent]]
    BY <1>12 DEF ResumeFunding
  <2>3. r.spent \in Nat
    BY <1>4, <2>1, AnswerTypes
  <2> DEFINE w == [Resting EXCEPT !.stage = "launcher", !.spent = r.spent]
  <2>4. w \in Watch
    BY <2>3 DEF Resting, Watch, Stages
  <2>5. w.peak <= peak /\ w.left \subseteq Spends[b]
    BY <1>2 DEF Resting
  <2>6. watch' = [watch EXCEPT ![b] = w]
    BY <2>2
  <2>7. b \notin Transfers /\ OnEvidence(b)
    BY <1>9, <1>12, KindsAreDistinct DEF ResumeFunding, host
  <2> HIDE DEF w
  <2>8. MovesTo(b, w)
    BY <2>4, <2>5, <2>6, <2>7 DEF MovesTo
  <2> QED
    BY <2>7, <2>8
<1>13. CASE ResumeLauncher(b)
  <2> DEFINE w == [watch[b] EXCEPT !.stage = "burial"]
  <2>1. watch' = [watch EXCEPT ![b] = Resting] \/ watch' = [watch EXCEPT ![b] = w]
    <3>1. PICK r \in Answers(Watched[b]) :
            watch' = [watch EXCEPT ![b] = IF r.exists \/ watch[b].spent = 0 THEN Resting
                                          ELSE [@ EXCEPT !.stage = "burial"]]
      BY <1>13 DEF ResumeLauncher
    <3>2. CASE r.exists \/ watch[b].spent = 0
      BY <3>1, <3>2
    <3>3. CASE ~(r.exists \/ watch[b].spent = 0)
      BY <1>1, <1>4, <3>1, <3>3 DEF HostTypeOK
    <3> QED
      BY <3>2, <3>3
  <2>2. w \in Watch /\ w.peak <= peak /\ w.left \subseteq Spends[b]
    BY <1>2 DEF Watch, Stages
  <2>3. b \notin Transfers /\ OnEvidence(b)
    BY <1>9, <1>13, KindsAreDistinct DEF ResumeLauncher, host
  <2> HIDE DEF w
  <2>4. CASE watch' = [watch EXCEPT ![b] = Resting]
    BY <1>3, <2>3, <2>4 DEF Rest
  <2>5. CASE watch' = [watch EXCEPT ![b] = w]
    <3>1. MovesTo(b, w)
      BY <2>2, <2>3, <2>5 DEF MovesTo
    <3> QED
      BY <2>3, <3>1
  <2> QED
    BY <2>1, <2>4, <2>5
<1>14. CASE ResumeBurial(b)
  <2>1. Rest(b) /\ (failed' = failed \/ failed' = failed \cup {b})
    BY <1>14 DEF ResumeBurial
  <2> QED
    BY <1>3, <1>9, <1>14, <2>1, KindsAreDistinct DEF ResumeBurial
<1>15. CASE Unreachable(b)
  BY <1>3, <1>15 DEF Unreachable, host, OnEvidence
<1> QED
  BY <1>5, <1>6, <1>7, <1>8, <1>10, <1>11, <1>12, <1>13, <1>14, <1>15 DEF StatusStep

(* A step of the chain, or a push, under a wallet that stands still.       *)
LEMMA ChainStepKeeps ==
  ASSUME IInv, Onward, HostTypeOK',
         UNCHANGED <<reread, pending, watch, confirmed, failed>>,
         \A b \in Pushed : Abroad(b)' => Abroad(b) \/ pending[b] # 0
  PROVE  IInv'
<1>1. ChainInv' /\ peak <= peak'
  BY DEF Onward
<1>2. Books'
  BY DEF IInv, Books
<1>3. \A b \in Pushed :
        /\ Taken(b) => Taken(b)'
        /\ Robbed(b) => Robbed(b)'
        /\ (\E y \in Makers(Watched[b]) : Deep(y)) => (\E y \in Makers(Watched[b]) : Deep(y)')
  BY ConclusionsStay DEF IInv
<1>4. Reads'
  <2> SUFFICES ASSUME NEW b \in Pushed
               PROVE  /\ watch[b].peak <= peak'
                      /\ watch[b].left \subseteq Spends[b]
                      /\ b \in Transfers /\ watch[b].stage = "again" => Taken(b)'
    BY DEF Reads
  <2>1. watch[b].peak \in Nat /\ peak \in Nat /\ peak' \in Nat
    BY <1>1 DEF IInv, HostTypeOK, Watch, ChainInv, ChainTypeOK
  <2> QED
    BY <1>1, <1>3, <2>1 DEF IInv, Reads
<1>5. Verdicts'
  BY <1>3 DEF IInv, Verdicts, HostTypeOK
<1> QED
  BY <1>1, <1>2, <1>4, <1>5 DEF IInv

(* The host builds: it reads an input again, or makes a record.            *)
LEMMA BuildKeeps ==
  ASSUME IInv, NEW b \in Bundles, RereadInput(b) \/ PushedNow(b)
  PROVE  IInv'
<1>1. b \in Pushed /\ UNCHANGED <<chainVars, family, sent, watch, confirmed, failed>>
  BY DEF RereadInput, PushedNow
<1>2. UNCHANGED <<peak, landed, mempool, behind>>
  BY <1>1 DEF chainVars
<1>3. ChainInv'
  BY <1>2 DEF IInv, ChainInv, ChainTypeOK, Near, Agree, Waiting, Consistent
<1>4. /\ \A y \in Bundles : Deep(y)' = Deep(y)
      /\ \A x \in Pushed : Taken(x)' = Taken(x) /\ Robbed(x)' = Robbed(x)
  BY <1>2 DEF Deep, Taken, Robbed
<1>5. Reads'
  BY <1>1, <1>2, <1>4 DEF IInv, Reads
<1>6. Verdicts'
  BY <1>1, <1>4, SettlementAssumption DEF IInv, Verdicts, HostTypeOK, Makers
<1>7. HostTypeOK' /\ Books'
  <2>1. CASE RereadInput(b)
    <3>1. PICK c \in Spends[b] : \E r \in Answers(c) :
            reread' = [reread EXCEPT ![b] =
                         IF r.exists /\ r.confirmed # 0 /\ r.spent = 0 THEN @ \cup {c} ELSE {}]
      BY <2>1 DEF RereadInput
    <3>2. c \in Coins /\ reread[b] \subseteq Coins
      BY <1>1, ChainAssumption, SettlementAssumption DEF IInv, HostTypeOK
    <3>3. reread' \in [Pushed -> SUBSET Coins]
      BY <1>1, <3>1, <3>2 DEF IInv, HostTypeOK
    <3>4. pending' = pending
      BY <2>1 DEF RereadInput
    <3>5. HostTypeOK'
      BY <1>1, <3>3, <3>4 DEF IInv, HostTypeOK
    <3>6. Books'
      BY <1>1, <1>2, <3>4 DEF IInv, Books, Abroad
    <3> QED
      BY <3>5, <3>6
  <2>2. CASE PushedNow(b)
    <3>1. PICK v \in Views : pending' = [pending EXCEPT ![b] = v.peak]
      BY <2>2 DEF PushedNow
    <3>2. pending[b] = 0 /\ MayBuild(b) /\ reread' = reread
      BY <2>2 DEF PushedNow
    <3>3. v.peak \in Nat
      BY ViewTypes DEF IInv, ChainInv
    <3>4. HostTypeOK'
      BY <1>1, <3>1, <3>2, <3>3 DEF IInv, HostTypeOK
    <3>5. ~Abroad(b)
      BY <1>1, <3>2 DEF IInv, Books
    <3>6. ASSUME NEW x \in Pushed, x # b PROVE pending'[x] = pending[x]
      BY <3>1, <3>6 DEF IInv, HostTypeOK
    <3>7. \A x \in Pushed : Abroad(x)' => pending'[x] # 0
      BY <1>2, <3>5, <3>6 DEF IInv, Books, Abroad
    <3>8. \A x \in Pushed : pending'[x] # 0 /\ Resends[x] # NoBundle => Resends[x] \in failed'
      BY <1>1, <3>2, <3>6 DEF IInv, Books, MayBuild
    <3> QED
      BY <3>4, <3>7, <3>8 DEF Books
  <2> QED
    BY <2>1, <2>2
<1> QED
  BY <1>3, <1>5, <1>6, <1>7 DEF IInv

(* Every step.                                                             *)
LEMMA StepKeeps == IInv /\ [Next]_vars => IInv'
<1> SUFFICES ASSUME IInv, [Next]_vars PROVE IInv'
  OBVIOUS
<1>1. CASE Environment
  <2>1. ChainStep /\ UNCHANGED <<family, reread, pending, sent, confirmed, failed, watch>>
    BY <1>1 DEF Environment, host
  <2>2. Onward
    BY <2>1, ChainMoves DEF IInv
  <2>3. HostTypeOK'
    BY <2>1 DEF IInv, HostTypeOK
  <2>4. \A b \in Pushed : Abroad(b)' => Abroad(b)
    BY <2>1, NobodyElsePushes, SettlementAssumption
  <2> QED
    BY <2>1, <2>2, <2>3, <2>4, ChainStepKeeps
<1>2. ASSUME NEW b \in Bundles, Push(b) PROVE IInv'
  <2>1. /\ Accept(b) /\ sent' = sent \cup {b} /\ (b \in Pushed => pending[b] # 0)
        /\ UNCHANGED <<family, reread, pending, confirmed, failed, watch>>
    BY <1>2 DEF Push
  <2>2. Onward
    BY <2>1, ChainMoves DEF IInv
  <2>3. HostTypeOK'
    BY <2>1 DEF IInv, HostTypeOK
  <2>4. \A x \in Pushed : Abroad(x)' => Abroad(x) \/ pending[x] # 0
    BY <2>1 DEF Accept, Abroad
  <2> QED
    BY <2>1, <2>2, <2>3, <2>4, ChainStepKeeps
<1>3. ASSUME NEW b \in Bundles, RereadInput(b) \/ PushedNow(b) PROVE IInv'
  BY <1>3, BuildKeeps
<1>4. ASSUME NEW b \in Bundles, StatusStep(b) \/ Unreachable(b) PROVE IInv'
  BY <1>4, StatusKeeps
<1>5. CASE UNCHANGED vars
  <2>1. UNCHANGED chainVars
        /\ UNCHANGED <<family, reread, pending, sent, confirmed, failed, watch>>
    BY <1>5 DEF vars
  <2>2. Onward
    BY <2>1, ChainMoves DEF IInv
  <2>3. HostTypeOK'
    BY <2>1 DEF IInv, HostTypeOK
  <2>4. \A x \in Pushed : Abroad(x)' => Abroad(x)
    BY <2>1 DEF chainVars, Abroad
  <2> QED
    BY <2>1, <2>2, <2>3, <2>4, ChainStepKeeps
<1> QED
  BY <1>1, <1>2, <1>3, <1>4, <1>5 DEF Next

(* The initial states.                                                     *)
LEMMA InitIInv == Init => IInv
<1> SUFFICES ASSUME Init PROVE IInv
  OBVIOUS
<1>1. /\ peak = 2 /\ landed = [b \in Bundles |-> 0] /\ mempool = {}
      /\ behind = [peak |-> 2, landed |-> landed]
  BY DEF Init, ChainInit, First
<1>2. ChainTypeOK
  BY <1>1 DEF ChainTypeOK, View
<1>3. Near
  BY <1>1, Depths DEF Near
<1>4. Agree /\ Waiting /\ Consistent(landed)
  BY <1>1 DEF Agree, Waiting, Consistent
<1>5. HostTypeOK
  BY SettlementAssumption DEF Init, HostTypeOK, Resting, Watch, Stages
<1>6. Books
  BY <1>1, SettlementAssumption DEF Init, Books, Abroad
<1>7. Reads /\ Verdicts
  BY <1>1 DEF Init, Reads, Verdicts, Resting
<1> QED
  BY <1>2, <1>3, <1>4, <1>5, <1>6, <1>7 DEF IInv, ChainInv

(* The invariant holds throughout.                                         *)
LEMMA Invariance == Spec => []IInv
BY InitIInv, StepKeeps, PTL DEF Spec

(***************************************************************************)
(* Theorems                                                                *)
(***************************************************************************)
(* Type correctness.                                                       *)
THEOREM TypeCorrect == Spec => []TypeOK
<1>1. IInv => TypeOK
  BY DEF IInv, ChainInv, HostTypeOK, TypeOK
<1> QED
  BY <1>1, Invariance, PTL

(* The invariant says so of transfers known dead.                          *)
LEMMA DeadOfInv == IInv => FailedTransferIsDead
<1> SUFFICES ASSUME IInv, NEW b \in failed \cap Transfers, NEW x \in Makers(Watched[b])
             PROVE  landed[x] = 0
  BY DEF FailedTransferIsDead
<1>1. Robbed(b) /\ b \in Pushed
  BY DEF IInv, Verdicts, Pushed
<1>2. PICK c \in Spends[b] : \E y \in Spenders(c) : Deep(y) /\ y \notin Makers(Watched[b])
  BY <1>1 DEF Robbed
<1>3. PICK y \in Spenders(c) : Deep(y) /\ y \notin Makers(Watched[b])
  BY <1>2
<1>4. x # y /\ c \in Spends[x] /\ c \in Spends[y] /\ x \in Bundles /\ y \in Bundles
  BY <1>1, <1>2, <1>3, PaymentNamesItsInputs DEF Spenders, Makers
<1>5. landed[y] # 0
  BY <1>3 DEF Deep
<1> QED
  BY <1>4, <1>5 DEF IInv, ChainInv, Consistent

(* A transfer reported Failed never lands, nor any copy of it: what took   *)
(* its input lies deeper than any fork.                                    *)
THEOREM DeathIsFinal == Spec => []FailedTransferIsDead
BY DeadOfInv, Invariance, PTL

(* What was reported settled stays on the chain.                           *)
THEOREM SettlementIsFinal == Spec => []ConfirmedIsFinal
<1>1. IInv => ConfirmedIsFinal
  BY DEF IInv, Verdicts, ConfirmedIsFinal, Deep
<1> QED
  BY <1>1, Invariance, PTL

(* The bundles in play are chosen once.                                    *)
InPlay == family \in Families

(* One debt is paid once.                                                  *)
THEOREM NoSecondPayment == Spec => []PaidOnce
<1>1. Spec => []InPlay
  <2>1. Init => InPlay
    BY DEF Init, InPlay
  <2>2. InPlay /\ [Next]_vars => InPlay'
    BY DEF InPlay, Next, vars, Environment, host, RereadInput, PushedNow, Push, StatusStep, ReadPeak,
           ReadOutput, ReadInput, ReadOutputAgain, ReadFunding, ReadDistributorInput,
           ResumeFunding, ResumeLauncher, ResumeBurial, Unreachable
  <2> QED
    BY <2>1, <2>2, PTL DEF Spec
<1>2. ASSUME IInv, NEW a \in Transfers, NEW b \in Transfers, landed[a] # 0, landed[b] # 0,
             Answering(b, a)
      PROVE  FALSE
  <2>1. a \in Pushed /\ b \in Pushed /\ a \in Bundles
    BY SettlementAssumption DEF Pushed
  <2>2. pending[b] # 0
    BY <1>2, <2>1 DEF IInv, Books, Abroad
  <2>3. Resends[b] \in failed \cap Transfers
    BY <1>2, <2>1, <2>2, SettlementAssumption DEF IInv, Books, Answering, Pushed
  <2>4. FailedTransferIsDead
    BY <1>2, DeadOfInv
  <2> QED
    BY <1>2, <2>1, <2>3, <2>4, PaymentNamesItsInputs
    DEF FailedTransferIsDead, Answering
<1>3. IInv /\ InPlay => PaidOnce
  <2> SUFFICES ASSUME IInv, InPlay,
                      NEW a \in Transfers \cap family, NEW b \in Transfers \cap family,
                      landed[a] # 0, landed[b] # 0, a # b
               PROVE  FALSE
    BY DEF PaidOnce
  <2>1. a \in Bundles /\ b \in Bundles
    BY SettlementAssumption DEF Pushed
  <2>2. Spends[a] \cap Spends[b] = {}
    BY <2>1 DEF IInv, ChainInv, Consistent
  <2>3. Answering(a, b) \/ Answering(b, a)
    BY <2>2, OneDebt DEF InPlay
  <2> QED
    BY <1>2, <2>3
<1> QED
  BY <1>1, <1>3, Invariance, PTL

(***************************************************************************)
(* A record that is resumed                                                *)
(***************************************************************************)
(* A source answers, or fails to answer, about each of some coins.         *)
AnswersAbout(source, coins) ==
  \A c \in coins : source.coins[c].answer \in {"found", "absent", "failure"}

(* What resume may ask about.                                              *)
AskedBy(record) ==
  {record.funding, record.reward, record.distributor, Parent(record.distributor)}

(* A read answers about the coin it was asked for, or not at all.          *)
LEMMA ReadsAreOfTheCoin ==
  ASSUME NEW source, NEW coins, AnswersAbout(source, coins), NEW c \in coins
  PROVE  /\ ReadCoin(source, c).answer \in {"found", "absent", "failure"}
         /\ ReadCoin(source, c).answer = "found" =>
              ReadCoin(source, c) = source.coins[c] /\ ReadCoin(source, c).coin = c
         /\ ReadCoin(source, c).answer = "absent" => source.coins[c].answer = "absent"
BY DEF ReadCoin, Failure, AnswersAbout

(* Whatever the source holds and whatever the record says, it is resumed   *)
(* only if its funding and reward coins are the account's and both its     *)
(* launchers descend from that funding coin (resume).                      *)
THEOREM OnlyADescendantResumes ==
  ASSUME NEW source, NEW record, AnswersAbout(source, AskedBy(record)),
         Resume(source, record) = Resumed
  PROVE  /\ PuzzleHash(record.funding) = Wallet
         /\ PuzzleHash(record.reward) = OurDig
         /\ record.manager = ManagerLauncher(record.funding)
         /\ Parent(Parent(record.distributor)) = OfferedXch(record.funding)
<1> DEFINE funding  == ReadCoin(source, record.funding)
           reward   == ReadCoin(source, record.reward)
           launcher == ReadCoin(source, record.distributor)
           security == ReadCoin(source, Parent(launcher.coin))
<1>1. /\ IsAt(funding, Wallet) /\ IsAt(reward, OurDig)
      /\ ProveLaunchers(source, record, funding) = Resumed
  BY DEF Resume, Resumed, Outcome, Malformed, NotYours, ChainUnreachable
<1>2. PuzzleHash(record.funding) = Wallet /\ PuzzleHash(record.reward) = OurDig
  BY <1>1, ReadsAreOfTheCoin DEF IsAt, AskedBy
<1>3. LauncherAbsent(source, funding) # Resumed
  BY DEF LauncherAbsent, Resumed, Unproven, ChainUnreachable, LaunchDead, Outcome
<1>4. /\ record.manager = ManagerLauncher(record.funding)
      /\ launcher.answer \notin {"failure", "absent"}
      /\ security.answer \notin {"failure", "absent"}
      /\ Parent(security.coin) = OfferedXch(record.funding)
  BY <1>1, <1>3 DEF ProveLaunchers, Resumed, Unproven, ChainUnreachable, NotYours, Outcome
<1>5. launcher.coin = record.distributor
  BY <1>4, ReadsAreOfTheCoin DEF AskedBy
<1>6. security.coin = Parent(record.distributor)
  BY <1>4, <1>5, ReadsAreOfTheCoin DEF AskedBy
<1> QED BY <1>2, <1>4, <1>6

(* A record is called dead only when no read failed, its launcher is not   *)
(* to be found, and another spend took its funding coin in a block that    *)
(* came no earlier than the coin and lies as deep as a confirmation must   *)
(* (launcher_absent).                                                      *)
THEOREM OnlyTheBuriedAreDead ==
  ASSUME NEW source, NEW record, AnswersAbout(source, AskedBy(record)),
         Resume(source, record) = LaunchDead
  PROVE  /\ source.coins[record.distributor].answer = "absent"
         /\ source.coins[record.funding].answer = "found"
         /\ LET funding == source.coins[record.funding]
            IN  /\ PuzzleHash(record.funding) = Wallet /\ funding.coin = record.funding
                /\ 0 < funding.confirmed /\ funding.confirmed <= funding.spent
                /\ ~(BurialDepth(funding.spent, source.peak) < MinConfirmationDepth)
<1> DEFINE funding  == ReadCoin(source, record.funding)
           reward   == ReadCoin(source, record.reward)
           launcher == ReadCoin(source, record.distributor)
<1>1. /\ IsAt(funding, Wallet)
      /\ ProveLaunchers(source, record, funding) = LaunchDead
  BY DEF Resume, LaunchDead, Outcome, Malformed, NotYours, ChainUnreachable
<1>2. /\ launcher.answer = "absent"
      /\ LauncherAbsent(source, funding) = LaunchDead
  BY <1>1 DEF ProveLaunchers, LaunchDead, Resumed, Unproven, ChainUnreachable, NotYours, Outcome
<1>3. /\ SpendHeightIsUsable(funding)
      /\ ~(BurialDepth(funding.spent, source.peak) < MinConfirmationDepth)
  BY <1>2 DEF LauncherAbsent, LaunchDead, Unproven, ChainUnreachable, Outcome
<1>4. funding.answer = "found" /\ PuzzleHash(funding.coin) = Wallet
  BY <1>1 DEF IsAt
<1>5. funding = source.coins[record.funding] /\ funding.coin = record.funding
  BY <1>4, ReadsAreOfTheCoin DEF AskedBy
<1>6. source.coins[record.distributor].answer = "absent"
  BY <1>2, ReadsAreOfTheCoin DEF AskedBy
<1> QED BY <1>3, <1>4, <1>5, <1>6 DEF SpendHeightIsUsable

(* A coin is a sequence of puzzle hashes, and the parent of a coin that is *)
(* made of another is that other.                                          *)
LEMMA ParentOfMade ==
  ASSUME NEW S, NEW coin \in Seq(S), NEW hash \in S
  PROVE  /\ Append(coin, hash) \in Seq(S)
         /\ Len(Append(coin, hash)) = Len(coin) + 1
         /\ Parent(Append(coin, hash)) = coin
         /\ PuzzleHash(Append(coin, hash)) = hash
<1> DEFINE made == Append(coin, hash)
<1>1. /\ made \in Seq(S) /\ Len(made) = Len(coin) + 1 /\ made[Len(coin) + 1] = hash
      /\ \A i \in 1 .. Len(coin) : made[i] = coin[i]
  BY AppendProperties
<1>2. Len(coin) \in Nat
  BY LenProperties
<1>3. Parent(made) = SubSeq(made, 1, Len(coin))
  BY <1>1, <1>2 DEF Parent, Front
<1>4. \A i \in 1 .. Len(coin) : made[i] \in S
  BY <1>1, ElementOfSeq
<1> HIDE DEF made
<1>5. /\ SubSeq(made, 1, Len(coin)) \in Seq(S)
      /\ Len(SubSeq(made, 1, Len(coin))) = Len(coin)
      /\ \A i \in 1 .. Len(coin) : SubSeq(made, 1, Len(coin))[i] = made[i]
  BY <1>2, <1>4, SubSeqProperties
<1>6. SubSeq(made, 1, Len(coin)) = coin
  BY <1>1, <1>5, SeqEqual
<1> QED BY <1>1, <1>3, <1>6 DEF made, PuzzleHash, Last

(* The puzzle hashes of the coins in sight.                                *)
Hashes == {"first", "second", "third", "fourth", "fifth", "sixth", "seventh", Wallet, OurDig, "stranger", "stranger's dig", "manager launcher", "settlement", "security", "launcher"}
(* What is made of a first coin.                                           *)
MakesALineage(f) ==
  /\ Len(f) = 2
  /\ Len(ManagerLauncher(f)) = 3 /\ Len(OfferedXch(f)) = 3
  /\ Len(SecurityCoin(f)) = 4 /\ Len(DistributorLauncher(f)) = 5
  /\ Parent(ManagerLauncher(f)) = f /\ Parent(OfferedXch(f)) = f
  /\ Parent(SecurityCoin(f)) = OfferedXch(f)
  /\ Parent(DistributorLauncher(f)) = SecurityCoin(f)

(* Each coin of a launch is made of the one before it.                     *)
LEMMA Lineages ==
  ASSUME NEW f \in Seq(Hashes), Len(f) = 2
  PROVE  MakesALineage(f)
<1>0. {"manager launcher", "settlement", "security", "launcher"} \subseteq Hashes
  BY DEF Hashes
<1>1. /\ ManagerLauncher(f) \in Seq(Hashes) /\ Len(ManagerLauncher(f)) = Len(f) + 1
      /\ Parent(ManagerLauncher(f)) = f /\ PuzzleHash(ManagerLauncher(f)) = "manager launcher"
  BY <1>0, ParentOfMade, Zenon DEF ManagerLauncher
<1>2. /\ OfferedXch(f) \in Seq(Hashes) /\ Len(OfferedXch(f)) = Len(f) + 1
      /\ Parent(OfferedXch(f)) = f /\ PuzzleHash(OfferedXch(f)) = "settlement"
  BY <1>0, ParentOfMade, Zenon DEF OfferedXch
<1>3. /\ SecurityCoin(f) \in Seq(Hashes) /\ Len(SecurityCoin(f)) = Len(OfferedXch(f)) + 1
      /\ Parent(SecurityCoin(f)) = OfferedXch(f)
  BY <1>0, <1>2, ParentOfMade, Zenon DEF SecurityCoin
<1>4. /\ DistributorLauncher(f) \in Seq(Hashes) /\ Len(DistributorLauncher(f)) = Len(SecurityCoin(f)) + 1
      /\ Parent(DistributorLauncher(f)) = SecurityCoin(f)
  BY <1>0, <1>3, ParentOfMade, Zenon DEF DistributorLauncher
<1>5. /\ Len(ManagerLauncher(f)) = 2 + 1 /\ Len(OfferedXch(f)) = 2 + 1
      /\ Len(SecurityCoin(f)) = (2 + 1) + 1
      /\ Len(DistributorLauncher(f)) = ((2 + 1) + 1) + 1
  BY <1>1, <1>2, <1>3, <1>4, Zenon
<1>6. /\ Len(ManagerLauncher(f)) = 3 /\ Len(OfferedXch(f)) = 3
      /\ Len(SecurityCoin(f)) = 4 /\ Len(DistributorLauncher(f)) = 5
  BY <1>5
<1> QED BY <1>1, <1>2, <1>3, <1>4, <1>6, Zenon DEF MakesALineage

(* The coins that are first of all.                                        *)
LEMMA FirstCoins ==
  /\ \A f \in {Ours, OursToo, OurReward, Theirs, TheirDig} : f \in Seq(Hashes) /\ Len(f) = 2
  /\ Ours[1] = "first" /\ OursToo[1] = "second" /\ OurReward[1] = "third"
  /\ Theirs[1] = "fourth" /\ TheirDig[1] = "fifth"
  /\ PuzzleHash(Ours) = Wallet /\ PuzzleHash(OurReward) = OurDig
BY DEF Ours, OursToo, OurReward, Theirs, TheirDig, PuzzleHash, Last, Wallet, OurDig, Hashes

(* And a launch may be made of any of them.                                *)
LEMMA Launches ==
  \A f \in {Ours, OursToo, OurReward, Theirs, TheirDig} : MakesALineage(f)
BY FirstCoins, Lineages, Zenon

(* None of the coins in sight is another.                                  *)
LEMMA CoinsDiffer ==
  /\ OursToo # Ours /\ OurReward # Ours /\ Theirs # Ours /\ OurReward # OursToo
  /\ Parent(Parent(Ours)) = Zero /\ Len(Parent(Ours)) = 1
  /\ \A c \in {DistributorLauncher(Ours), SecurityCoin(Ours)} :
       /\ c \notin {Zero, Ours, OursToo, OurReward, TheirDig, ManagerLauncher(Ours)}
       /\ c \notin Decoys /\ c \notin Lineage(Theirs)
       /\ c \in Lineage(Ours)
  /\ DistributorLauncher(Ours) # SecurityCoin(Ours)
  /\ Ours \notin Decoys /\ OurReward \notin Decoys
  /\ Zero \notin {Ours, OursToo, OurReward, Theirs, TheirDig, ManagerLauncher(Ours)}
<1> DEFINE firsts == {Ours, OursToo, OurReward, Theirs, TheirDig}
<1>1. OursToo # Ours /\ OurReward # Ours /\ Theirs # Ours /\ OurReward # OursToo
  BY FirstCoins
<1>2. Parent(Parent(Ours)) = Zero /\ Len(Parent(Ours)) = 1
  BY DEF Parent, Front, Ours, Zero
<1>3. \A f \in firsts :
        /\ Len(f) = 2 /\ Len(ManagerLauncher(f)) = 3 /\ Len(OfferedXch(f)) = 3
        /\ Len(SecurityCoin(f)) = 4 /\ Len(DistributorLauncher(f)) = 5
        /\ Parent(Parent(SecurityCoin(f))) = f
        /\ Parent(Parent(Parent(DistributorLauncher(f)))) = f
  BY Launches, Zenon DEF MakesALineage
<1>4. /\ Len(Ours) = 2 /\ Len(OursToo) = 2 /\ Len(OurReward) = 2 /\ Len(TheirDig) = 2
      /\ Len(Theirs) = 2 /\ Len(ManagerLauncher(Theirs)) = 3 /\ Len(OfferedXch(Theirs)) = 3
      /\ Len(SecurityCoin(Theirs)) = 4 /\ Len(DistributorLauncher(Theirs)) = 5
      /\ Len(SecurityCoin(Ours)) = 4 /\ Len(DistributorLauncher(Ours)) = 5
      /\ Len(ManagerLauncher(Ours)) = 3
  BY <1>3, Zenon
<1>5. Len(Zero) = 0
  BY DEF Zero
<1>6. DistributorLauncher(Ours) # DistributorLauncher(Theirs) /\ SecurityCoin(Ours) # SecurityCoin(Theirs)
  BY <1>1, <1>3, Zenon
<1>7. ASSUME NEW c \in Decoys
      PROVE  c = DistributorLauncher(Theirs) \/ (Len(c) = 2 /\ c[1] \in {"sixth", "seventh"})
  BY DEF Decoys
<1>8. ASSUME NEW c, (c = SecurityCoin(Ours) /\ Len(c) = 4) \/ (c = DistributorLauncher(Ours) /\ Len(c) = 5)
      PROVE  /\ c \notin {Zero, Ours, OursToo, OurReward, TheirDig, ManagerLauncher(Ours)}
             /\ c \notin Decoys /\ c \notin Lineage(Theirs)
             /\ c \in Lineage(Ours)
  <2>1. Len(c) # 0 /\ Len(c) # 2 /\ Len(c) # 3
    <3> DEFINE n == Len(c)
    <3>1. n = 4 \/ n = 5
      BY <1>8, Zenon
    <3> HIDE DEF n
    <3>2. n # 0 /\ n # 2 /\ n # 3
      BY <3>1
    <3> QED BY <3>2 DEF n
  <2>2. /\ c # Zero /\ c # Ours /\ c # OursToo /\ c # OurReward /\ c # TheirDig
        /\ c # ManagerLauncher(Ours)
        /\ c # Theirs /\ c # ManagerLauncher(Theirs) /\ c # OfferedXch(Theirs)
    BY <1>4, <1>5, <2>1, Zenon
  <2>3. c # SecurityCoin(Theirs) /\ c # DistributorLauncher(Theirs)
    BY <1>4, <1>6, <1>8
  <2>4. c \notin Decoys
    BY <1>7, <2>1, <2>3
  <2> QED BY <1>8, <2>2, <2>3, <2>4, Zenon DEF Lineage
<1>9. Ours \notin Decoys /\ OurReward \notin Decoys
  <2>1. Ours[1] = "first" /\ OurReward[1] = "third"
    BY FirstCoins
  <2> QED BY <1>4, <1>7, <2>1
<1>10. \A c \in {DistributorLauncher(Ours), SecurityCoin(Ours)} :
       /\ c \notin {Zero, Ours, OursToo, OurReward, TheirDig, ManagerLauncher(Ours)}
       /\ c \notin Decoys /\ c \notin Lineage(Theirs)
       /\ c \in Lineage(Ours)
  <2>1. \A c \in {DistributorLauncher(Ours), SecurityCoin(Ours)} :
          (c = SecurityCoin(Ours) /\ Len(c) = 4) \/ (c = DistributorLauncher(Ours) /\ Len(c) = 5)
    BY <1>4, Zenon
  <2> QED BY <1>8, <2>1
<1>11. DistributorLauncher(Ours) # SecurityCoin(Ours)
  BY <1>4
<1>12. /\ Zero # Ours /\ Zero # OursToo /\ Zero # OurReward /\ Zero # Theirs /\ Zero # TheirDig
       /\ Zero # ManagerLauncher(Ours)
  BY <1>4, <1>5
<1> QED BY <1>1, <1>2, <1>9, <1>10, <1>11, <1>12, Zenon

(* Whatever is asked for in resuming a record that is not malformed can be *)
(* asked of the sources.                                                   *)
LEMMA RecordsAskForTheseCoins ==
  ASSUME NEW record \in Records, InconsistentField(record) = "none"
  PROVE  /\ AskedBy(record) \subseteq AskedFor
         /\ record.funding \in {Ours, OursToo, Theirs, OurReward}
         /\ record.distributor \in {DistributorLauncher(f) : f \in {Ours, OursToo, Theirs}}
                                     \cup {Ours, ManagerLauncher(Ours)}
<1>1. record.distributor # Zero /\ record.funding # Zero /\ record.reward # Zero
  BY DEF InconsistentField
<1>2. /\ record.funding \in {Zero, Ours, OursToo, Theirs, OurReward}
      /\ record.reward \in {Zero, OurReward, TheirDig, Ours}
      /\ record.distributor \in {Zero} \cup {DistributorLauncher(f) : f \in {Ours, OursToo, Theirs}}
                                  \cup {Ours, ManagerLauncher(Ours)}
  BY DEF Records
<1>3. /\ record.funding \in {Ours, OursToo, Theirs, OurReward}
      /\ record.reward \in {OurReward, TheirDig, Ours}
      /\ record.distributor \in {DistributorLauncher(f) : f \in {Ours, OursToo, Theirs}}
                                  \cup {Ours, ManagerLauncher(Ours)}
  BY <1>1, <1>2, Zenon
<1>4. \A f \in {Ours, OursToo, Theirs} :
        f \in InSight /\ DistributorLauncher(f) \in InSight /\ ManagerLauncher(f) \in InSight
  BY DEF Lineage, InSight
<1>5. OurReward \in InSight /\ TheirDig \in InSight
  BY Zenon DEF InSight
<1>6. record.funding \in InSight /\ record.reward \in InSight /\ record.distributor \in InSight
  BY <1>3, <1>4, <1>5, Zenon
<1>7. \A c \in InSight : c \in AskedFor /\ Parent(c) \in AskedFor
  BY Zenon DEF AskedFor
<1> QED BY <1>3, <1>6, <1>7, Zenon DEF AskedBy

(* Every source answers about every coin that can be asked for.            *)
LEMMA SourcesAnswer ==
  ASSUME NEW fate \in Fates,
         NEW source \in {Honest(fate)} \cup Mute(fate) \cup Lossy(fate) \cup Heights(fate)
  PROVE  AnswersAbout(source, AskedFor)
<1>1. \A c, d, h, k : Found(c, h, k).answer = "found" /\ Absent.answer = "absent"
                        /\ Failure.answer = "failure"
  BY DEF Found, Absent, Failure
<1>2. \A c \in AskedFor : TrueAnswer(fate, c).answer \in {"found", "absent"}
  BY <1>1, Zenon DEF TrueAnswer
<1>3. AnswersAbout(Honest(fate), AskedFor)
  BY <1>2 DEF AnswersAbout, Honest
<1>4. ASSUME NEW c, NEW a, a.answer \in {"found", "absent", "failure"}
      PROVE  AnswersAbout([Honest(fate) EXCEPT !.coins[c] = a], AskedFor)
  BY <1>2, <1>4 DEF AnswersAbout, Honest
<1>5. AnswersAbout([Honest(fate) EXCEPT !.peak = NoHeight], AskedFor)
  BY <1>2 DEF AnswersAbout, Honest
<1>6. \A source_1 \in Mute(fate) : AnswersAbout(source_1, AskedFor)
  BY <1>1, <1>4, <1>5 DEF Mute
<1>7. ASSUME NEW c \in Asked
      PROVE  AnswersAbout([Honest(fate) EXCEPT !.coins[c] = Absent], AskedFor)
  <2>1. Absent.answer \in {"found", "absent", "failure"}
    BY <1>1
  <2> QED BY <1>4, <2>1
<1>8. ASSUME NEW c, NEW h, NEW k
      PROVE  AnswersAbout([Honest(fate) EXCEPT !.coins[c] = Found(c, h, k)], AskedFor)
  <2>1. Found(c, h, k).answer \in {"found", "absent", "failure"}
    BY <1>1
  <2> QED BY <1>4, <2>1
<1>9. \A source_1 \in Lossy(fate) \cup Heights(fate) : AnswersAbout(source_1, AskedFor)
  BY <1>7, <1>8 DEF Lossy, Heights
<1> QED BY <1>3, <1>6, <1>9

(* A record that is resumed is of a distributor of this account's own.     *)
LEMMA OursResume == OnlyOursResumes
<1> SUFFICES ASSUME NEW fate \in Fates,
                    NEW source \in {Honest(fate)} \cup Mute(fate) \cup Lossy(fate) \cup Heights(fate),
                    NEW record \in Records, Resume(source, record) = Resumed
             PROVE  /\ PuzzleHash(record.funding) = Wallet /\ PuzzleHash(record.reward) = OurDig
                    /\ record.manager = ManagerLauncher(record.funding)
                    /\ record.distributor = DistributorLauncher(record.funding)
  BY Zenon DEF OnlyOursResumes
<1>1. InconsistentField(record) = "none"
  BY DEF Resume, Resumed, Outcome, Malformed
<1>2. AnswersAbout(source, AskedBy(record))
  BY <1>1, RecordsAskForTheseCoins, SourcesAnswer DEF AnswersAbout
<1>3. /\ PuzzleHash(record.funding) = Wallet /\ PuzzleHash(record.reward) = OurDig
      /\ record.manager = ManagerLauncher(record.funding)
      /\ Parent(Parent(record.distributor)) = OfferedXch(record.funding)
  BY <1>2, OnlyADescendantResumes, Zenon
<1>4. \A f \in {Ours, OursToo, Theirs, OurReward} :
        /\ Parent(OfferedXch(f)) = f /\ Len(OfferedXch(f)) = 3
        /\ Parent(Parent(DistributorLauncher(f))) = OfferedXch(f)
        /\ Parent(ManagerLauncher(f)) = f
  BY Launches, Zenon DEF MakesALineage
<1>5. /\ record.funding \in {Ours, OursToo, Theirs, OurReward}
      /\ record.distributor \in {DistributorLauncher(f) : f \in {Ours, OursToo, Theirs}}
                                  \cup {Ours, ManagerLauncher(Ours)}
  BY <1>1, RecordsAskForTheseCoins
<1>6. CASE \E f \in {Ours, OursToo, Theirs} : record.distributor = DistributorLauncher(f)
  <2>1. PICK f \in {Ours, OursToo, Theirs} : record.distributor = DistributorLauncher(f)
    BY <1>6
  <2>2. f = Parent(OfferedXch(record.funding))
    BY <1>3, <1>4, <2>1
  <2>3. f = record.funding
    BY <1>4, <1>5, <2>2
  <2> QED BY <1>3, <2>1, <2>3
<1>7. record.distributor # Ours
  <2>1. Len(Zero) = 0
    BY DEF Zero
  <2> QED BY <1>3, <1>4, <1>5, <2>1, CoinsDiffer
<1>8. record.distributor # ManagerLauncher(Ours)
  BY <1>3, <1>4, <1>5, CoinsDiffer
<1> QED BY <1>5, <1>6, <1>7, <1>8

(* What the sources say of the account's own launch, unless they fail.     *)
LEMMA OwnReads ==
  ASSUME NEW fate \in Fates
  PROVE  /\ TrueAnswer(fate, Ours) = Found(Ours, Born, fate.spent)
         /\ TrueAnswer(fate, OurReward) = Found(OurReward, Born, NoHeight)
         /\ TrueAnswer(fate, DistributorLauncher(Ours))
              = IF fate.launch = "included"
                  THEN Found(DistributorLauncher(Ours), Included, NoHeight)
                ELSE IF fate.launch = "seen"
                  THEN Found(DistributorLauncher(Ours), NoHeight, NoHeight)
                ELSE Absent
         /\ TrueAnswer(fate, SecurityCoin(Ours))
              = IF fate.launch = "included"
                  THEN Found(SecurityCoin(Ours), Included, NoHeight) ELSE Absent
BY CoinsDiffer DEF TrueAnswer

(* Its record comes to what the launch came to, or to a failed read.       *)
LEMMA OwnOutcome ==
  ASSUME MinConfirmationDepth \in Nat, NEW fate \in Fates, NEW source,
         NEW unread \in SUBSET Asked,
         \A c \in Asked :
           ReadCoin(source, c) = IF c \in unread THEN Failure ELSE TrueAnswer(fate, c),
         source.peak \in {NoHeight, Peak}
  PROVE  /\ Resume(source, OwnRecord) \in {TrueOutcome(fate), ChainUnreachable}
         /\ unread = {} /\ source.peak = Peak => Resume(source, OwnRecord) = TrueOutcome(fate)
<1> DEFINE funding  == ReadCoin(source, Ours)
           reward   == ReadCoin(source, OurReward)
           launcher == ReadCoin(source, DistributorLauncher(Ours))
           security == ReadCoin(source, SecurityCoin(Ours))
           proven   == ProveLaunchers(source, OwnRecord, funding)
<1>1. /\ OwnRecord.funding = Ours /\ OwnRecord.reward = OurReward
      /\ OwnRecord.distributor = DistributorLauncher(Ours)
      /\ OwnRecord.manager = ManagerLauncher(Ours)
      /\ OwnRecord.parses = TRUE /\ OwnRecord.pushed = 1
  BY DEF OwnRecord
<1>2. InconsistentField(OwnRecord) = "none"
  <2>1. /\ DistributorLauncher(Ours) # Zero /\ ManagerLauncher(Ours) # Zero
        /\ Ours # Zero /\ OurReward # Zero /\ Ours # OurReward
        /\ DistributorLauncher(Ours) # ManagerLauncher(Ours)
    BY CoinsDiffer
  <2> HIDE DEF funding, reward, launcher, security, proven
  <2> QED BY <1>1, <2>1 DEF InconsistentField
<1>3. /\ funding = IF Ours \in unread THEN Failure ELSE Found(Ours, Born, fate.spent)
      /\ reward = IF OurReward \in unread THEN Failure ELSE Found(OurReward, Born, NoHeight)
      /\ launcher = IF DistributorLauncher(Ours) \in unread THEN Failure
                    ELSE IF fate.launch = "included"
                      THEN Found(DistributorLauncher(Ours), Included, NoHeight)
                    ELSE IF fate.launch = "seen"
                      THEN Found(DistributorLauncher(Ours), NoHeight, NoHeight)
                    ELSE Absent
      /\ security = IF SecurityCoin(Ours) \in unread THEN Failure
                    ELSE IF fate.launch = "included"
                      THEN Found(SecurityCoin(Ours), Included, NoHeight) ELSE Absent
  <2>1. \A c \in {Ours, OurReward, DistributorLauncher(Ours), SecurityCoin(Ours)} :
          ReadCoin(source, c) = IF c \in unread THEN Failure ELSE TrueAnswer(fate, c)
    BY DEF Asked
  <2> QED BY <2>1, OwnReads, Zenon
<1>4. /\ \A c, h, k : LET f == Found(c, h, k)
                     IN f.answer = "found" /\ f.coin = c /\ f.confirmed = h /\ f.spent = k
      /\ Absent.answer = "absent" /\ Failure.answer = "failure"
  BY DEF Found, Absent, Failure
<1>5. PuzzleHash(Ours) = Wallet /\ PuzzleHash(OurReward) = OurDig
  BY FirstCoins
<1>6. Resume(source, OwnRecord) =
        IF Ours \in unread \/ OurReward \in unread THEN ChainUnreachable ELSE proven
  <2>1. /\ funding.answer = "failure" <=> Ours \in unread
        /\ Ours \notin unread => IsAt(funding, Wallet)
        /\ reward.answer = "failure" <=> OurReward \in unread
        /\ OurReward \notin unread => IsAt(reward, OurDig)
    BY <1>3, <1>4, <1>5 DEF IsAt
  <2> HIDE DEF proven
  <2>2. Resume(source, OwnRecord) =
          IF funding.answer = "failure" THEN ChainUnreachable
          ELSE IF ~IsAt(funding, Wallet) THEN NotYours("funding coin")
          ELSE IF reward.answer = "failure" THEN ChainUnreachable
          ELSE IF ~IsAt(reward, OurDig) THEN NotYours("reward coin")
          ELSE proven
    BY <1>1, <1>2 DEF Resume, proven
  <2> QED BY <2>1, <2>2
<1>7. Parent(DistributorLauncher(Ours)) = SecurityCoin(Ours) /\ Parent(SecurityCoin(Ours)) = OfferedXch(Ours)
  BY Launches, Zenon DEF MakesALineage
<1>8. proven = IF launcher.answer = "failure" THEN ChainUnreachable
               ELSE IF launcher.answer = "absent" THEN LauncherAbsent(source, funding)
               ELSE IF launcher.confirmed = NoHeight THEN Unproven
               ELSE IF ReadCoin(source, Parent(launcher.coin)).answer = "failure" THEN ChainUnreachable
               ELSE IF ReadCoin(source, Parent(launcher.coin)).answer = "absent" THEN NotYours("distributor")
               ELSE IF Parent(ReadCoin(source, Parent(launcher.coin)).coin) # OfferedXch(Ours)
                 THEN NotYours("distributor")
               ELSE Resumed
  BY <1>1 DEF ProveLaunchers
<1>9. launcher.answer = "found" => launcher.coin = DistributorLauncher(Ours)
  BY <1>3, <1>4
<1>10. Peak \in Nat /\ Born = 1 /\ Included = 2 /\ NoHeight = -1
  BY DEF Peak, Born, Included, NoHeight
<1>11. CASE DistributorLauncher(Ours) \in unread
  <2>1. proven = ChainUnreachable
    BY <1>3, <1>4, <1>8, <1>11
  <2> QED BY <1>6, <1>11, <2>1
<1>12. CASE DistributorLauncher(Ours) \notin unread /\ fate.launch = "included"
  <2>1. launcher = Found(DistributorLauncher(Ours), Included, NoHeight)
    BY <1>3, <1>12
  <2>2. launcher.answer = "found" /\ launcher.confirmed # NoHeight /\ Parent(launcher.coin) = SecurityCoin(Ours)
    BY <1>4, <1>7, <1>10, <2>1
  <2>3. security = IF SecurityCoin(Ours) \in unread THEN Failure
                    ELSE Found(SecurityCoin(Ours), Included, NoHeight)
    BY <1>3, <1>12
  <2>4. proven = IF security.answer = "failure" THEN ChainUnreachable
                 ELSE IF security.answer = "absent" THEN NotYours("distributor")
                 ELSE IF Parent(security.coin) # OfferedXch(Ours) THEN NotYours("distributor")
                 ELSE Resumed
    BY <1>8, <2>2
  <2>5. proven = IF SecurityCoin(Ours) \in unread THEN ChainUnreachable ELSE Resumed
    BY <1>4, <1>7, <2>3, <2>4
  <2>6. TrueOutcome(fate) = Resumed
    BY <1>12 DEF TrueOutcome
  <2> QED BY <1>6, <2>5, <2>6
<1>13. CASE DistributorLauncher(Ours) \notin unread /\ fate.launch = "seen"
  <2>1. launcher = Found(DistributorLauncher(Ours), NoHeight, NoHeight)
    BY <1>3, <1>13
  <2>2. proven = Unproven
    BY <1>4, <1>8, <2>1
  <2>3. TrueOutcome(fate) = Unproven
    BY <1>13 DEF TrueOutcome
  <2> QED BY <1>6, <2>2, <2>3
<1>14. CASE DistributorLauncher(Ours) \notin unread /\ fate.launch \in {"waits", "dead"}
  <2>1. proven = LauncherAbsent(source, funding)
    BY <1>3, <1>4, <1>8, <1>14
  <2>2. CASE Ours \in unread
    BY <1>6, <2>2
  <2>3. CASE Ours \notin unread /\ fate.launch = "waits"
    <3>1. fate.spent = NoHeight
      BY <1>10, <2>3 DEF Fates
    <3>2. LauncherAbsent(source, funding) = Unproven
      BY <1>3, <1>4, <2>3, <3>1 DEF LauncherAbsent
    <3>3. TrueOutcome(fate) = Unproven
      BY <2>3 DEF TrueOutcome
    <3> QED BY <1>6, <2>1, <3>2, <3>3
  <2>4. CASE Ours \notin unread /\ fate.launch = "dead"
    <3>1. fate.spent \in Born .. Peak
      BY <2>4 DEF Fates
    <3>2. funding.confirmed = Born /\ funding.spent = fate.spent
      BY <1>3, <1>4, <2>4
    <3>3. funding.spent # NoHeight /\ SpendHeightIsUsable(funding)
      BY <1>10, <3>1, <3>2 DEF SpendHeightIsUsable
    <3>4. LauncherAbsent(source, funding) =
            IF source.peak = NoHeight THEN ChainUnreachable
            ELSE IF BurialDepth(fate.spent, source.peak) < MinConfirmationDepth THEN Unproven
            ELSE LaunchDead
      BY <3>2, <3>3 DEF LauncherAbsent
    <3>5. BurialDepth(fate.spent, Peak) \in Int
      BY <1>10, <3>1 DEF BurialDepth
    <3>6. TrueOutcome(fate) = IF BurialDepth(fate.spent, Peak) < MinConfirmationDepth
                                THEN Unproven ELSE LaunchDead
      BY <2>4, <3>5 DEF TrueOutcome
    <3>7. Peak # NoHeight
      BY <1>10
    <3> QED BY <1>6, <2>1, <3>4, <3>6, <3>7
  <2> QED BY <1>14, <2>2, <2>3, <2>4
<1>15. fate.launch \in {"waits", "seen", "included", "dead"}
  BY DEF Fates
<1> QED BY <1>11, <1>12, <1>13, <1>14, <1>15

(* An honest source's answers are of the coins that they were asked for.   *)
LEMMA HonestReads ==
  ASSUME NEW fate \in Fates, NEW c \in Asked
  PROVE  /\ c \in AskedFor /\ c \notin Decoys
         /\ ReadCoin(Honest(fate), c) = TrueAnswer(fate, c)
         /\ Honest(fate).coins[c] = TrueAnswer(fate, c)
<1>1. c \in {Ours, OurReward, DistributorLauncher(Ours), SecurityCoin(Ours)}
  BY DEF Asked
<1>2. c \in InSight
  BY <1>1 DEF InSight, Lineage
<1>3. Honest(fate).coins[c] = TrueAnswer(fate, c) /\ c \in AskedFor
  BY <1>2 DEF Honest, AskedFor
<1>4. TrueAnswer(fate, c).answer = "found" => TrueAnswer(fate, c).coin = c
  BY DEF TrueAnswer, Found, Absent
<1>5. ReadCoin(Honest(fate), c) = TrueAnswer(fate, c)
  BY <1>3, <1>4 DEF ReadCoin
<1> QED BY <1>1, <1>3, <1>5, CoinsDiffer

(* The account's own record comes back from an honest source.              *)
LEMMA OwnIsHeard ==
  ASSUME MinConfirmationDepth \in Nat
  PROVE  OwnRecordIsHeard
<1> SUFFICES ASSUME NEW fate \in Fates
             PROVE  Resume(Honest(fate), OwnRecord) = TrueOutcome(fate)
  BY DEF OwnRecordIsHeard
<1>1. \A c \in Asked :
        ReadCoin(Honest(fate), c) = IF c \in {} THEN Failure ELSE TrueAnswer(fate, c)
  BY HonestReads
<1>2. Honest(fate).peak = Peak
  BY DEF Honest
<1>3. {} \in SUBSET Asked
  OBVIOUS
<1> QED BY <1>1, <1>2, <1>3, OwnOutcome, Zenon

(* Silence, or an answer about another coin, says nothing of the record,   *)
(* and no height that a chain did not give kills it.                       *)
LEMMA SilenceSaysNothing ==
  ASSUME MinConfirmationDepth \in Nat
  PROVE  SilenceIsNoVerdict
<1>1. ASSUME NEW fate \in Fates, NEW source \in Mute(fate)
      PROVE  Resume(source, OwnRecord) \in {TrueOutcome(fate), ChainUnreachable}
  <2>1. CASE \E c \in Asked : \E a \in {Failure} \cup {Found(d, Included, NoHeight) : d \in Decoys} :
               source = [Honest(fate) EXCEPT !.coins[c] = a]
    <3>1. PICK c \in Asked, a \in {Failure} \cup {Found(d, Included, NoHeight) : d \in Decoys} :
            source = [Honest(fate) EXCEPT !.coins[c] = a]
      BY <2>1
    <3>2. /\ source.coins[c] = a /\ source.peak = Peak
          /\ \A k \in Asked \ {c} : source.coins[k] = Honest(fate).coins[k]
      BY <3>1, HonestReads DEF Honest
    <3>3. (a.answer = "failure" /\ a = Failure) \/ (a.answer = "found" /\ a.coin \in Decoys)
      BY <3>1 DEF Found, Failure
    <3>4. ReadCoin(source, c) = Failure
      BY <3>2, <3>3, HonestReads DEF ReadCoin, Failure
    <3>5. \A k \in Asked \ {c} : ReadCoin(source, k) = TrueAnswer(fate, k)
      BY <3>2, HonestReads DEF ReadCoin
    <3>6. \A k \in Asked :
            ReadCoin(source, k) = IF k \in {c} THEN Failure ELSE TrueAnswer(fate, k)
      BY <3>4, <3>5
    <3>7. {c} \in SUBSET Asked /\ source.peak \in {NoHeight, Peak}
      BY <3>2
    <3> QED BY <3>6, <3>7, OwnOutcome, Zenon
  <2>2. CASE source = [Honest(fate) EXCEPT !.peak = NoHeight]
    <3>1. source.coins = Honest(fate).coins /\ source.peak = NoHeight
      BY <2>2 DEF Honest
    <3>2. \A k \in Asked :
            ReadCoin(source, k) = IF k \in {} THEN Failure ELSE TrueAnswer(fate, k)
      BY <3>1, HonestReads DEF ReadCoin
    <3>3. {} \in SUBSET Asked /\ source.peak \in {NoHeight, Peak}
      BY <3>1
    <3> QED BY <3>2, <3>3, OwnOutcome, Zenon
  <2> QED BY <2>1, <2>2 DEF Mute
<1>2. ASSUME NEW fate \in Fates, NEW source \in Heights(fate),
             Resume(source, OwnRecord) = LaunchDead
      PROVE  1 <= source.coins[Ours].confirmed /\ source.coins[Ours].confirmed <= source.coins[Ours].spent
  <2>1. AnswersAbout(source, AskedFor)
    BY SourcesAnswer
  <2>2. AskedBy(OwnRecord) \subseteq Asked /\ OwnRecord.funding = Ours
    BY Launches DEF AskedBy, OwnRecord, Asked, MakesALineage
  <2>3. AnswersAbout(source, AskedBy(OwnRecord))
    BY <2>1, <2>2, HonestReads DEF AnswersAbout
  <2>4. 0 < source.coins[Ours].confirmed /\ source.coins[Ours].confirmed <= source.coins[Ours].spent
    BY <1>2, <2>2, <2>3, OnlyTheBuriedAreDead
  <2>5. source.coins[Ours].confirmed \in Int
    <3>1. PICK c \in {Ours, DistributorLauncher(Ours)}, h \in ({NoHeight, 0, 1, Peak} \X {NoHeight, 0, 1, Peak}) :
            source = [Honest(fate) EXCEPT !.coins[c] = Found(c, h[1], h[2])]
      BY DEF Heights
    <3>2. h[1] \in Int
      BY <3>1 DEF Peak, NoHeight
    <3>3. Ours \in AskedFor /\ Honest(fate).coins[Ours] = Found(Ours, Born, fate.spent)
      BY HonestReads, OwnReads DEF Asked
    <3>4. source.coins[Ours] = Found(Ours, h[1], h[2]) \/ source.coins[Ours] = Honest(fate).coins[Ours]
      BY <3>1, <3>3 DEF Honest
    <3> QED BY <3>2, <3>3, <3>4 DEF Found, Born
  <2> QED BY <2>4, <2>5
<1> QED BY <1>1, <1>2 DEF SilenceIsNoVerdict

(* Nothing is called dead that the source has on the chain.                *)
LEMMA TheDeadAreGone == TheDeadAreAbsent
<1> SUFFICES ASSUME NEW fate \in Fates, NEW record \in Records,
                    Resume(Honest(fate), record) = LaunchDead
             PROVE  TrueAnswer(fate, record.distributor) = Absent
  BY DEF TheDeadAreAbsent
<1>1. InconsistentField(record) = "none"
  BY DEF Resume, LaunchDead, Outcome, Malformed
<1>2. AskedBy(record) \subseteq AskedFor
  BY <1>1, RecordsAskForTheseCoins
<1>3. AnswersAbout(Honest(fate), AskedBy(record))
  BY <1>2, SourcesAnswer DEF AnswersAbout
<1>4. Honest(fate).coins[record.distributor].answer = "absent"
  BY <1>3, OnlyTheBuriedAreDead
<1>5. record.distributor \in AskedFor
  BY <1>2 DEF AskedBy
<1>6. TrueAnswer(fate, record.distributor).answer = "absent"
  BY <1>4, <1>5 DEF Honest
<1> QED BY <1>6 DEF TrueAnswer, Found, Absent

(* Only what this account launched is resumed, its own record is heard, a  *)
(* failed read is no verdict and nothing on the chain is called dead, at   *)
(* whatever depth a confirmation is asked for (resume).                    *)
THEOREM RecordsProven ==
  ASSUME MinConfirmationDepth \in Nat
  PROVE  Spec => []RecordsAreProven
<1>1. RecordsAreProven
  BY OursResume, OwnIsHeard, SilenceSaysNothing, TheDeadAreGone DEF RecordsAreProven
<1> QED BY <1>1, PTL
=============================================================================
