-------------------------------- MODULE Chain --------------------------------
(***************************************************************************)
(* The chain a wallet pushes bundles to and asks about coins, as the       *)
(* wallet meets it through ChainSource and SpendPublisher: blocks include  *)
(* bundles of the mempool, a fork may undo the last few, a node may forget *)
(* a bundle it accepted, and the source that answers is several nodes, one *)
(* of which may be behind or still on the abandoned fork.                  *)
(*                                                                         *)
(* peak is the height the NEXT block takes, as ChainSource reports it.     *)
(***************************************************************************)
EXTENDS Integers, FiniteSets

CONSTANTS
  Bundles,   \* every bundle anybody may push
  Coins,
  Spends,    \* Spends[b]: the coins b spends that it did not make
  Makes,     \* Makes[b]: the coins b makes that anybody asks about
  Reach,     \* a fork undoes at most this many blocks
  Lag,       \* no node is further behind than this many blocks
  MaxPeak    \* bound: the chain stops there

ASSUME ChainAssumption ==
  /\ Spends \in [Bundles -> SUBSET Coins]
  /\ Makes \in [Bundles -> SUBSET Coins]
  /\ Reach \in Nat
  /\ Lag \in Nat
  /\ MaxPeak \in Nat

VARIABLES
  peak,
  landed,    \* landed[b]: the height of the block that holds b, 0 if none
  mempool,
  behind     \* the chain as the node furthest behind still sees it

chainVars == <<peak, landed, mempool, behind>>

(* The height of the first block anybody waits for; the coins no bundle    *)
(* makes are older.                                                        *)
First == 2

View == [peak : Nat, landed : [Bundles -> Nat]]

(* What the nodes behind one source may answer from.                       *)
Views == {[peak |-> peak, landed |-> landed], behind}

Makers(c) == {b \in Bundles : c \in Makes[b]}
Spenders(c) == {b \in Bundles : c \in Spends[b]}

(* The height at which one of a set of bundles landed, 0 if none did.      *)
HeightIn(l, S) ==
  IF \E b \in S : l[b] # 0 THEN l[CHOOSE b \in S : l[b] # 0] ELSE 0

(* A history consensus allows: no coin is spent twice, and none before it  *)
(* is made.                                                                *)
Consistent(l) ==
  /\ \A a, b \in Bundles :
       a # b /\ l[a] # 0 /\ l[b] # 0 => Spends[a] \cap Spends[b] = {}
  /\ \A b \in Bundles : l[b] # 0 =>
       \A c \in Spends[b] : Makers(c) # {} =>
         \E m \in Makers(c) : l[m] # 0 /\ l[m] <= l[b]

Includable(l, b) == l[b] = 0 /\ Consistent([l EXCEPT ![b] = peak])

(***************************************************************************)
(* One coin_record.  confirmed and spent are 0 where the record has None.  *)
(* A coin only a mempool holds may or may not be reported.                 *)
(***************************************************************************)
Record(c, v) ==
  LET made == HeightIn(v.landed, Makers(c))
  IN  [exists    |-> Makers(c) = {} \/ made # 0,
       confirmed |-> IF Makers(c) = {} THEN 1 ELSE made,
       spent     |-> HeightIn(v.landed, Spenders(c))]

Unconfirmed == [exists |-> TRUE, confirmed |-> 0, spent |-> 0]

Answers(c) ==
  {Record(c, v) : v \in Views}
  \cup {Unconfirmed : v \in {w \in Views : /\ Makers(c) \cap mempool # {}
                                           /\ HeightIn(w.landed, Makers(c)) = 0}}

(* Blocks from a height up to a peak, the block at that height included:   *)
(* saturating_sub and saturating_add(1), as every evidence check counts.   *)
Burial(height, pk) == (IF pk > height THEN pk - height ELSE 0) + 1

(***************************************************************************)
(* Steps of the chain                                                      *)
(***************************************************************************)
(* The node behind stays where it is, or is brought up when it would be    *)
(* too far behind.                                                         *)
KeepUp ==
  behind' = IF peak' - behind.peak <= Lag /\ Lag > 0
            THEN behind
            ELSE [peak |-> peak', landed |-> landed']

Block ==
  /\ peak < MaxPeak
  /\ peak' = peak + 1
  /\ \E S \in SUBSET mempool :
       landed' = [b \in Bundles |-> IF b \in S THEN peak ELSE landed[b]]
  /\ Consistent(landed')
  /\ mempool' = {b \in mempool : Includable(landed', b)}
  /\ KeepUp

(* A fork of k blocks: what landed in them is undone and may land again in *)
(* their place, or wait, or never come back.                               *)
Reorg ==
  \E k \in 1 .. Reach :
    LET undone == {b \in Bundles : landed[b] # 0 /\ landed[b] + k >= peak}
    IN  /\ First + k <= peak
        /\ \E S \in SUBSET (mempool \cup undone), h \in First .. (peak - 1) :
             /\ h + k >= peak
             /\ landed' = [b \in Bundles |-> IF b \in S THEN h
                                             ELSE IF b \in undone THEN 0
                                             ELSE landed[b]]
             /\ mempool' = (mempool \cup undone) \ S
        /\ Consistent(landed')
        /\ peak' = peak
        /\ KeepUp

(* A full node drops a bundle that pays too little.                        *)
Evict ==
  /\ \E b \in mempool : mempool' = mempool \ {b}
  /\ UNCHANGED <<peak, landed, behind>>

CatchUp ==
  /\ behind' = [peak |-> peak, landed |-> landed]
  /\ UNCHANGED <<peak, landed, mempool>>

(* A publisher accepts a bundle that could be included now.                *)
Accept(b) ==
  /\ Includable(landed, b)
  /\ mempool' = mempool \cup {b}
  /\ UNCHANGED <<peak, landed, behind>>

ChainInit ==
  /\ peak = First
  /\ landed = [b \in Bundles |-> 0]
  /\ mempool = {}
  /\ behind = [peak |-> First, landed |-> [b \in Bundles |-> 0]]

ChainStep == Block \/ Reorg \/ Evict \/ CatchUp

ChainTypeOK ==
  /\ peak \in Nat \ {0}
  /\ landed \in [Bundles -> Nat]
  /\ mempool \subseteq Bundles
  /\ behind \in View
=============================================================================
