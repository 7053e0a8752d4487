----------------------------- MODULE SpendSummary -----------------------------
(***************************************************************************)
(* What DerivedSpend::derive makes of a bundle: the lines the user is      *)
(* shown, the native total that is weighed against every limit, and the    *)
(* tier.  The driver (analyze) reports the coins a bundle leaves behind,   *)
(* whoever they pay; the summary leaves out those that pay an address the  *)
(* bundle itself proves to be one of the spender's.                        *)
(***************************************************************************)
EXTENDS SpendBundles

(* Owners that are bare p2 puzzle hashes; the others are structures and    *)
(* wrapped puzzles.                                                        *)
Addresses == {"me", "payee", "stranger", "hot wallet"}

(* The puzzle hash a coin is locked under: a wrapped coin's is not the     *)
(* address it belongs to, nor any other.                                   *)
PuzzleHash(c) ==
  IF c.asset = "XCH" THEN c.owner
  ELSE IF c.owner = "me" THEN "wrapped for me" ELSE "wrapped for another"

(* Mutant: whatever puzzle hash is spent from counts as the spender's.     *)
EverySpentPuzzleHash(bundle) == {PuzzleHash(c) : c \in Spent(bundle)}

(* p2_destinations: only a spent coin that is a bare p2 coin proves one.   *)
P2Destinations(bundle) == {PuzzleHash(c) : c \in Spent(bundle)} \cap Addresses

(* Mutant: only an output to somebody's address is a line.                 *)
AddressLines(bundle) ==
  {c \in Left(bundle) : c.owner \in Addresses \ P2Destinations(bundle)}

(* from_effect: every output is a line unless it returns to the spender.   *)
Recipients(bundle) == {c \in Left(bundle) : c.owner \notin P2Destinations(bundle)}

(* derive_effect: the inputs sum in a u64, every spent coin is accounted   *)
(* for, and nothing is made from nothing.                                  *)
Accountable(bundle) ==
  /\ MapThenSumSet(LAMBDA c : c.amount, Spent(bundle)) <= Largest
  /\ Lands(bundle)

(* checked_native_total_mojos: what native recipients get, and the fee     *)
(* whether reserved or only left over.                                     *)
NativeTotal(bundle) == ValueOf(Recipients(bundle), {"XCH"}) + Donated(bundle)

(* moves_non_native_assets, destroys_singletons.                           *)
MovesOtherAssets(bundle) == \E c \in Recipients(bundle) : c.asset # "XCH"

Melts(bundle) ==
  {s.coin : s \in {t \in bundle : /\ t.coin.owner \in Singletons
                                  /\ t.coin.owner \notin {o.owner : o \in ToSet(t.creates)}}}

(* address_line, protocol_structure_line: a launcher or a settlement coin  *)
(* is named, not addressed.                                                *)
NamesAnAddress(c) == c.owner \notin {"launcher", "settlement"}

(* Every line names an address, and that address is the hot wallet.        *)
PaysOnlyTheHotWallet(bundle) ==
  \A c \in Recipients(bundle) : NamesAnAddress(c) /\ c.owner = "hot wallet"

Derived(bundle, class) ==
  [total |-> NativeTotal(bundle),
   plain |-> ~MovesOtherAssets(bundle) /\ Melts(bundle) = {},
   pays  |-> IF PaysOnlyTheHotWallet(bundle) THEN "hot wallet" ELSE "somebody else",
   class |-> class]
=============================================================================
