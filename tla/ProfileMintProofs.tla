-------------------------- MODULE ProfileMintProofs --------------------------
(***************************************************************************)
(* What a profile mint guarantees, for every set of coins, every burial    *)
(* depth and every number of reorganisations.                              *)
(***************************************************************************)
EXTENDS ProfileMint, FiniteSetTheorems, TLAPS

(* A block deep enough that no reorganisation undoes it.                   *)
Final(b) == b \in Landed /\ landed[b] + Depth <= top + 1

Abroad == mempool \cup Landed

(* What a running call has in hand.                                        *)
CallShape ==
  /\ call.at # "idle" => call.did \in Coins
  /\ call.at \in {"didHeld", "pushingDid"} => call.fund = call.did
  /\ call.at \in {"storeHeld", "pushingStore"} => call.fund \in Coins
  /\ call.at \in {"launching", "storeHeld", "pushingStore"} => call.floor \in 1 .. MaxPeak

(* The chain only ever proves what no reorganisation undoes.               *)
Whole(d) == Final(Did(d)) /\ \E b \in Stores(d) : Final(b)

RecordedFinal ==
  /\ entry # Empty => Whole(entry)
  /\ file.entry # Empty => Whole(file.entry)
  /\ evidence # Empty => Whole(evidence)

LaunchFinal ==
  call.at \in {"launching", "storeHeld", "pushingStore"} => Final(Did(call.did))

AbroadFinal == \A b \in Abroad : b.kind = "store" => Final(Did(b.did))

ProvenIsFinal == RecordedFinal /\ LaunchFinal /\ AbroadFinal

ChainInv == TypeOK /\ CallShape /\ ProvenIsFinal

(***************************************************************************)
(* Bundles                                                                 *)
(***************************************************************************)
(* The fields of a bundle, and that a bundle is its own rival.             *)
LEMMA BundleFields ==
  /\ \A c \in Coins :
       /\ Did(c) \in Bundles /\ Did(c).kind = "did" /\ Did(c).did = c
       /\ Payment(c) \in Bundles /\ Payment(c).kind = "payment"
  /\ \A d, c \in Coins :
       Store(d, c) \in Bundles /\ Store(d, c).kind = "store" /\ Store(d, c).did = d
  /\ \A b \in Bundles : Rivals(b, b) /\ b.did \in Coins
  /\ \A d \in Coins : Stores(d) \subseteq Bundles
  /\ \A d \in Coins, b \in Bundles : b \in Stores(d) <=> (b.kind = "store" /\ b.did = d)
<1>1. \A b \in Bundles :
        \/ \E c \in Coins : b = Did(c) \/ b = Payment(c)
        \/ \E d, c \in Coins : b = Store(d, c)
  BY DEF Bundles
<1>2. /\ \A c \in Coins :
           /\ Did(c) \in Bundles /\ Did(c).kind = "did" /\ Did(c).did = c
           /\ Payment(c) \in Bundles /\ Payment(c).kind = "payment" /\ Payment(c).did = c
      /\ \A d, c \in Coins :
           Store(d, c) \in Bundles /\ Store(d, c).kind = "store" /\ Store(d, c).did = d
  <2>1. /\ \A c \in Coins : Did(c) \in Bundles /\ Payment(c) \in Bundles
        /\ \A d, c \in Coins : Store(d, c) \in Bundles
    BY DEF Bundles
  <2>2. /\ \A c : Did(c).kind = "did" /\ Did(c).did = c
        /\ \A c : Payment(c).kind = "payment" /\ Payment(c).did = c
        /\ \A d, c : Store(d, c).kind = "store" /\ Store(d, c).did = d
    BY DEF Did, Payment, Store
  <2>3. QED
    BY <2>1, <2>2
<1>3. \A b \in Bundles : Rivals(b, b) /\ b.did \in Coins
  BY <1>1, <1>2 DEF Rivals
<1>4. \A d \in Coins : Stores(d) \subseteq Bundles
  BY <1>2 DEF Stores
<1>5. \A d \in Coins, b \in Bundles : b \in Stores(d) <=> (b.kind = "store" /\ b.did = d)
  BY <1>1, <1>2 DEF Stores
<1>6. QED
  BY <1>2, <1>3, <1>4, <1>5

(* Evidence is of a block no reorganisation undoes.                        *)
LEMMA EvidenceIsFinal ==
  ASSUME TypeOK, NEW b \in Bundles, NEW floor, Evidence(b, floor)
  PROVE  Final(b) /\ landed[b] \in 1 .. MaxPeak
  BY MintAssumption DEF TypeOK, Evidence, Final, Landed

(* What the two readings that lead somewhere say.                          *)
LEMMA StatusMeans ==
  ASSUME TypeOK, journal # Empty
  PROVE  /\ journal \in Mint
         /\ Status = "Confirmed" => DidProven /\ StoreProven
         /\ Status = "DidConfirmedStoreNotLaunched" =>
              DidProven /\ journal.stage # "StorePushed"
<1>1. journal \in Mint
  BY DEF TypeOK
<1>2. DidProven \in BOOLEAN /\ StoreProven \in BOOLEAN
  BY DEF DidProven, StoreProven, Evidence
<1>3. QED
  BY <1>1, <1>2, Zenon DEF Status

(* A step that leaves the blocks alone, or adds to them, keeps what is     *)
(* final.                                                                  *)
LEMMA FinalStays ==
  ASSUME TypeOK, Next
  PROVE  \A b \in Bundles : Final(b) => Final(b)' /\ landed'[b] = landed[b]
<1> SUFFICES ASSUME NEW b \in Bundles, Final(b)
             PROVE  Final(b)' /\ landed'[b] = landed[b]
  OBVIOUS
<1> USE MintAssumption, BundleFields
<1>1. CASE UNCHANGED <<landed, top>>
  BY <1>1 DEF Final, Landed
<1>2. CASE \E x \in Bundles : Include(x)
  <2>1. PICK x \in Bundles : Include(x)
    BY <1>2
  <2>2. x # b
    BY <2>1 DEF Include, Valid, Final
  <2>3. landed'[b] = landed[b] /\ top' >= top /\ top' \in Nat
    BY <2>1, <2>2 DEF Include, Grow, TypeOK
  <2>4. QED
    BY <2>3 DEF Final, Landed, TypeOK
<1>3. CASE Bury
  BY <1>3 DEF Bury, Grow, Final, Landed, TypeOK
<1>4. CASE \E p \in 1 .. MaxPeak : Reorg(p)
  <2>1. PICK p \in 1 .. MaxPeak : Reorg(p)
    BY <1>4
  <2>2. landed[b] <= p
    BY <2>1 DEF Reorg, Final, Landed, TypeOK
  <2>3. landed'[b] = landed[b] /\ top' = top
    BY <2>1, <2>2 DEF Reorg, TypeOK
  <2>4. QED
    BY <2>3 DEF Final, Landed
<1>5. QED
  BY <1>1, <1>2, <1>3, <1>4
  DEF Next, Minter, Host, Chain, Begin, HoldFunding, JournalDid, Confirm, Advance,
      JournalStore, Abort, Accepted, Unanswered, Rejected, RecordMinted, AbandonMint,
      Save, Restart, Pay, Lapse, chain

(***************************************************************************)
(* What holds whatever the host does                                       *)
(***************************************************************************)
LEMMA TypeStays ==
  ASSUME ChainInv, Next
  PROVE  TypeOK'
<1> USE MintAssumption, BundleFields DEF ChainInv, TypeOK, CallShape, Calling, Idle
<1>1. CASE \E c \in Coins : Begin(c) \/ HoldFunding(c)
  <2>1. PICK c \in Coins : Begin(c) \/ HoldFunding(c)
    BY <1>1
  <2>2. CASE Begin(c)
    BY <2>2 DEF Begin, chain
  <2>3. CASE HoldFunding(c)
    <3>1. call' \in [at : {"storeHeld"}, did : Coins \cup {Empty},
                     fund : Coins, floor : 0 .. MaxPeak]
      BY <2>3 DEF HoldFunding
    <3>2. QED
      BY <2>3, <3>1 DEF HoldFunding, chain
  <2>4. QED
    BY <2>1, <2>2, <2>3
<1>2. CASE JournalDid
  BY <1>2 DEF JournalDid, Mint, chain
<1>3. CASE Confirm
  BY <1>3 DEF Confirm, Mint, chain
<1>4. CASE Advance
  <2>1. journal \in Mint /\ landed[Did(journal.did)] \in 0 .. MaxPeak
    BY <1>4 DEF Advance, Mint
  <2>2. QED
    BY <1>4, <2>1 DEF Advance, Mint, chain
<1>5. CASE JournalStore
  BY <1>5 DEF JournalStore, Mint, chain
<1>6. CASE Abort
  BY <1>6 DEF Abort, chain
<1>7. CASE Accepted \/ \E arrived \in BOOLEAN : Unanswered(arrived)
  <2>1. Signed \in Bundles
    BY <1>7 DEF Accepted, Unanswered, Pushing, Signed
  <2>2. QED
    BY <1>7, <2>1 DEF Accepted, Unanswered
<1>8. CASE Rejected
  BY <1>8 DEF Rejected, Pushing, Mint, chain
<1>9. CASE Host
  BY <1>9 DEF Host, RecordMinted, AbandonMint, Save, Restart, chain
<1>10. CASE \E b \in Bundles : Include(b)
  BY <1>10 DEF Include, Grow, host
<1>11. CASE Bury
  BY <1>11 DEF Bury, Grow, host
<1>12. CASE \E p \in 1 .. MaxPeak : Reorg(p)
  BY <1>12 DEF Reorg, Landed, host
<1>13. CASE \E c \in Coins : Pay(c) \/ Lapse(c)
  BY <1>13 DEF Pay, Lapse, host, chain
<1>14. QED
  BY <1>1, <1>2, <1>3, <1>4, <1>5, <1>6, <1>7, <1>8, <1>9, <1>10, <1>11, <1>12, <1>13
  DEF Next, Minter, Chain

(* What a stage says of the call that runs is kept.                        *)
LEMMA ShapeStays ==
  ASSUME ChainInv, Next
  PROVE  CallShape'
<1> USE MintAssumption DEF ChainInv, TypeOK, CallShape, Calling, Idle
<1>1. CASE \E c \in Coins : Begin(c)
  BY <1>1 DEF Begin
<1>1a. CASE \E c \in Coins : HoldFunding(c)
  BY <1>1a DEF HoldFunding
<1>2. CASE JournalDid \/ JournalStore
  BY <1>2 DEF JournalDid, JournalStore
<1>3. CASE Advance
  <2>1. journal \in Mint /\ DidProven
    BY <1>3, StatusMeans DEF Advance
  <2>2. landed[Did(journal.did)] \in 1 .. MaxPeak
    BY <2>1, EvidenceIsFinal, BundleFields DEF DidProven, Mint
  <2>3. QED
    BY <1>3, <2>1, <2>2 DEF Advance, Mint
<1>4. CASE Abort \/ Accepted \/ Rejected \/ Restart \/ \E arrived \in BOOLEAN : Unanswered(arrived)
  BY <1>4 DEF Abort, Accepted, Rejected, Restart, Unanswered
<1>5. CASE UNCHANGED call
  BY <1>5
<1>6. QED
  BY <1>1, <1>1a, <1>2, <1>3, <1>4, <1>5
  DEF Next, Minter, Host, Chain, Confirm, RecordMinted, AbandonMint, Save,
      Include, Bury, Grow, Reorg, Pay, Lapse, host

(* A bundle gets abroad by being pushed by the minter or paid with.        *)
LEMMA AbroadGrows ==
  ASSUME TypeOK, Next
  PROVE  \A b \in Abroad' : \/ b \in Abroad
                            \/ Pushing /\ b = Signed
                            \/ \E c \in Coins : b = Payment(c)
<1>1. CASE Accepted \/ \E arrived \in BOOLEAN : Unanswered(arrived)
  BY <1>1 DEF Accepted, Unanswered, Abroad, Landed
<1>2. CASE \E x \in Bundles : Include(x)
  BY <1>2 DEF Include, Abroad, Landed, TypeOK
<1>3. CASE \E p \in 1 .. MaxPeak : Reorg(p)
  BY <1>3 DEF Reorg, Abroad, Landed, TypeOK
<1>4. CASE \E c \in Coins : Pay(c)
  BY <1>4 DEF Pay, Abroad, Landed
<1>5. CASE UNCHANGED <<mempool, landed>>
  BY <1>5 DEF Abroad, Landed
<1>6. QED
  BY <1>1, <1>2, <1>3, <1>4, <1>5
  DEF Next, Minter, Host, Chain, Begin, HoldFunding, JournalDid, Confirm, Advance,
      JournalStore, Abort, Rejected, RecordMinted, AbandonMint, Save, Restart, Bury,
      Lapse, chain

(* The signed store bundle is of a DID that is final.                      *)
LEMMA SignedIsSafe ==
  ASSUME ChainInv, Pushing
  PROVE  /\ Signed \in Bundles
         /\ Signed.kind = "store" => Final(Did(Signed.did))
  BY BundleFields DEF ChainInv, CallShape, ProvenIsFinal, LaunchFinal, Pushing, Signed

(* What the mint took as proven stays final on the chain.                  *)
LEMMA FinalityStays ==
  ASSUME ChainInv, Next
  PROVE  ProvenIsFinal'
<1> USE BundleFields DEF ChainInv
<1>1. TypeOK
  OBVIOUS
<1>2. \A b \in Bundles : Final(b) => Final(b)'
  BY <1>1, FinalStays
<1>3. \A d \in Coins : Whole(d) => Whole(d)'
  BY <1>2 DEF Whole
<1>4. RecordedFinal'
  <2>1. CASE Confirm
    <3>1. journal \in Mint /\ DidProven /\ StoreProven
      BY <1>1, <2>1, StatusMeans DEF Confirm
    <3>2. journal.did \in Coins /\ Final(Did(journal.did))
      BY <1>1, <3>1, EvidenceIsFinal DEF DidProven, Mint
    <3>3. Whole(journal.did)
      BY <1>1, <3>1, <3>2, EvidenceIsFinal DEF StoreProven, Whole
    <3>4. QED
      BY <1>1, <1>3, <2>1, <3>2, <3>3 DEF Confirm, ProvenIsFinal, RecordedFinal, TypeOK
  <2>2. CASE RecordMinted
    BY <1>1, <1>3, <2>2 DEF RecordMinted, ProvenIsFinal, RecordedFinal, TypeOK
  <2>3. CASE Save
    BY <1>1, <1>3, <2>3 DEF Save, ProvenIsFinal, RecordedFinal, TypeOK
  <2>4. CASE Restart
    BY <1>1, <1>3, <2>4 DEF Restart, ProvenIsFinal, RecordedFinal, TypeOK
  <2>5. CASE UNCHANGED <<entry, file, evidence>>
    BY <1>1, <1>3, <2>5 DEF ProvenIsFinal, RecordedFinal, TypeOK
  <2>6. QED
    BY <2>1, <2>2, <2>3, <2>4, <2>5
    DEF Next, Minter, Host, Chain, Begin, HoldFunding, JournalDid, Advance, JournalStore,
        Abort, Accepted, Unanswered, Rejected, AbandonMint, Include, Bury, Grow, Reorg,
        Pay, Lapse, host
<1>5. LaunchFinal'
  <2>1. CASE Advance
    <3>1. journal \in Mint /\ DidProven
      BY <1>1, <2>1, StatusMeans DEF Advance
    <3>2. journal.did \in Coins /\ Final(Did(journal.did))
      BY <1>1, <3>1, EvidenceIsFinal DEF DidProven, Mint
    <3>3. QED
      BY <1>2, <2>1, <3>2 DEF Advance, Calling, LaunchFinal
  <2>2. CASE \/ JournalStore
             \/ \E c \in Coins : HoldFunding(c)
             \/ UNCHANGED call
    <3>1. call.at \in {"launching", "storeHeld"} \/ UNCHANGED call
      BY <2>2 DEF JournalStore, HoldFunding
    <3>2. call'.did = call.did
      BY <1>1, <2>2 DEF JournalStore, HoldFunding, TypeOK
    <3>3. QED
      BY <1>2, <3>1, <3>2 DEF ProvenIsFinal, LaunchFinal, CallShape
  <2>3. CASE call'.at \in {"idle", "didHeld", "pushingDid"}
    BY <2>3 DEF LaunchFinal
  <2>4. QED
    BY <1>1, <2>1, <2>2, <2>3
    DEF Next, Minter, Host, Chain, Begin, JournalDid, Confirm, Abort, Accepted, Unanswered,
        Rejected, RecordMinted, AbandonMint, Save, Restart, Include, Bury, Grow, Reorg,
        Pay, Lapse, host, Calling, Idle, TypeOK
<1>6. AbroadFinal'
  <2>1. \A b \in Abroad' : \/ b \in Abroad
                           \/ Pushing /\ b = Signed
                           \/ \E c \in Coins : b = Payment(c)
    BY <1>1, AbroadGrows
  <2>2. \A b \in Abroad : b \in Bundles
    BY <1>1 DEF Abroad, Landed, TypeOK
  <2>3. \A b \in Abroad' : b.kind = "store" => b.did \in Coins /\ Final(Did(b.did))
    BY <2>1, <2>2, SignedIsSafe DEF ProvenIsFinal, AbroadFinal
  <2>4. QED
    BY <1>2, <2>3 DEF AbroadFinal
<1>7. QED
  BY <1>4, <1>5, <1>6 DEF ProvenIsFinal

(* What holds of the chain and the mint under every host.                  *)
THEOREM ChainInvariance == Spec => []ChainInv
<1>1. Init => ChainInv
  BY MintAssumption, BundleFields
  DEF Init, ChainInv, TypeOK, CallShape, ProvenIsFinal, RecordedFinal, LaunchFinal,
      AbroadFinal, Idle, Abroad, Landed
<1>2. ChainInv /\ [Next]_vars => ChainInv'
  <2>1. ASSUME ChainInv, Next
        PROVE  ChainInv'
    BY <2>1, TypeStays, ShapeStays, FinalityStays DEF ChainInv
  <2>2. ASSUME ChainInv, UNCHANGED vars
        PROVE  ChainInv'
    BY <2>2
    DEF ChainInv, TypeOK, CallShape, ProvenIsFinal, RecordedFinal, LaunchFinal, AbroadFinal,
        Whole, Final, Abroad, Landed, vars, host, chain
  <2>3. QED
    BY <2>1, <2>2
<1>3. QED
  BY <1>1, <1>2, PTL DEF Spec

(* Every variable keeps its type: in particular the heights a journalled   *)
(* mint carries are heights the chain has been at.                         *)
THEOREM TypeCorrect == Spec => []TypeOK
<1>1. ChainInv => TypeOK
  BY DEF ChainInv
<1>2. QED
  BY <1>1, ChainInvariance, PTL

(* A profile the registry holds, or the host holds evidence of, is on      *)
(* chain: no reorganisation, restart, lost save or abandoned mint makes    *)
(* record_minted record a profile that does not exist.                     *)
THEOREM RecordedExists == Spec => []RecordedIsOnChain
<1>1. ChainInv => RecordedIsOnChain
  BY DEF ChainInv, ProvenIsFinal, RecordedFinal, Whole, RecordedIsOnChain, Final
<1>2. QED
  BY <1>1, ChainInvariance, PTL

(* launch_store pushes a store only of a DID no reorganisation undoes.     *)
THEOREM LaunchesAreSafe == Spec => []LaunchesFromABuriedDid
<1>1. ChainInv => LaunchesFromABuriedDid
  BY DEF ChainInv, ProvenIsFinal, AbroadFinal, LaunchesFromABuriedDid, Final, Abroad
<1>2. QED
  BY <1>1, ChainInvariance, PTL

(***************************************************************************)
(* What holds for a careful host: one that saves before its process ends   *)
(* and does not abandon a mint.  The registry then always names the one    *)
(* DID the index may have paid for, so a mint is never begun again while   *)
(* one is abroad, and the journal is ahead of every push, so a stage that  *)
(* says a store was not launched is true.                                  *)
(***************************************************************************)
NoDid == \A b \in Abroad : b.kind # "did"

NoStore(d) == \A b \in Abroad : ~(b.kind = "store" /\ b.did = d)

PushedDidIsJournalled ==
  call.at = "pushingDid" =>
    /\ journal # Empty /\ journal.did = call.did /\ journal.stage = "DidPushed"
    /\ entry = Empty /\ evidence = Empty
    /\ NoDid

LaunchIsJournalled ==
  call.at \in {"launching", "storeHeld"} =>
    journal # Empty /\ journal.did = call.did /\ journal.stage # "StorePushed"

PushedStoreIsJournalled ==
  call.at = "pushingStore" =>
    /\ journal # Empty /\ journal.did = call.did /\ journal.stage = "StorePushed"
    /\ NoStore(call.did)

EvidenceIsJournalled ==
  evidence # Empty /\ entry = Empty => journal # Empty /\ journal.did = evidence

UnlaunchedHasNoStore ==
  journal # Empty /\ journal.stage # "StorePushed" => NoStore(journal.did)

OneState == entry = Empty \/ journal = Empty

CarefulInv ==
  /\ PushedDidIsJournalled
  /\ LaunchIsJournalled
  /\ PushedStoreIsJournalled
  /\ EvidenceIsJournalled
  /\ UnlaunchedHasNoStore
  /\ EveryDidIsNamed
  /\ OneState

Careful == ~CrashUnsaved /\ ~Abandons

(* Every step but an answered push leaves abroad what was abroad.          *)
LEMMA OnlyPushesGoAbroad ==
  ASSUME TypeOK, Next, ~Accepted, \A arrived \in BOOLEAN : ~Unanswered(arrived)
  PROVE  /\ \A b \in Abroad' : b \in Abroad \/ b.kind = "payment"
         /\ NoDid => NoDid'
         /\ \A d : NoStore(d) => NoStore(d)'
<1>1. \A b \in Abroad' : b \in Abroad \/ \E c \in Coins : b = Payment(c)
  <2>1. CASE \E x \in Bundles : Include(x)
    BY <2>1 DEF Include, Abroad, Landed, TypeOK
  <2>2. CASE \E p \in 1 .. MaxPeak : Reorg(p)
    BY <2>2 DEF Reorg, Abroad, Landed, TypeOK
  <2>3. CASE \E c \in Coins : Pay(c)
    BY <2>3 DEF Pay, Abroad, Landed
  <2>4. CASE UNCHANGED <<mempool, landed>>
    BY <2>4 DEF Abroad, Landed
  <2>5. QED
    BY <2>1, <2>2, <2>3, <2>4
    DEF Next, Minter, Host, Chain, Begin, HoldFunding, JournalDid, Confirm, Advance,
        JournalStore, Abort, Rejected, RecordMinted, AbandonMint, Save, Restart, Bury,
        Lapse, chain
<1>2. \A b \in Abroad' : b \in Abroad \/ b.kind = "payment"
  BY <1>1, BundleFields
<1>3. QED
  BY <1>2 DEF NoDid, NoStore

(* With nothing named, nothing is abroad.                                  *)
LEMMA NothingNamed ==
  ASSUME ChainInv, EveryDidIsNamed, journal = Empty, entry = Empty
  PROVE  NoDid /\ \A d \in Coins : NoStore(d)
<1> USE MintAssumption, BundleFields DEF ChainInv
<1>1. \A b \in Abroad : b \in Bundles
  BY DEF TypeOK, Abroad, Landed
<1>2. NoDid
  BY <1>1 DEF EveryDidIsNamed, Named, NoDid, Abroad
<1>3. ASSUME NEW d \in Coins, NEW b \in Abroad, b.kind = "store", b.did = d
      PROVE  FALSE
  <2>1. Did(d) \in Abroad /\ Did(d).kind = "did"
    BY <1>3 DEF ProvenIsFinal, AbroadFinal, Final, Abroad
  <2>2. QED
    BY <1>2, <2>1 DEF NoDid
<1>4. QED
  BY <1>2, <1>3 DEF NoStore

(* What a careful host adds is kept by every step.                         *)
LEMMA CarefulStays ==
  ASSUME Careful, ChainInv, CarefulInv, Next
  PROVE  CarefulInv'
<1> USE MintAssumption
<1>1. /\ TypeOK /\ CallShape
      /\ journal # Empty => journal \in Mint
      /\ CrashUnsaved = FALSE /\ Abandons = FALSE
  BY DEF ChainInv, TypeOK, Careful
<1>2. CASE Accepted \/ \E arrived \in BOOLEAN : Unanswered(arrived)
  <2>1. /\ Pushing
        /\ UNCHANGED <<journal, entry, evidence, landed>>
        /\ call'.at = "idle"
        /\ mempool' \subseteq mempool \cup {Signed}
    BY <1>2 DEF Accepted, Unanswered, Idle
  <2>2. \A b \in Abroad' : b \in Abroad \/ b = Signed
    BY <2>1 DEF Abroad, Landed
  <2>3. CASE call.at = "pushingDid"
    <3>1. /\ Signed.kind = "did" /\ Signed.did = call.did
          /\ journal # Empty /\ journal.did = call.did
      BY <1>1, <2>3, BundleFields
      DEF Signed, CallShape, CarefulInv, PushedDidIsJournalled
    <3>2. EveryDidIsNamed'
      BY <2>1, <2>2, <3>1 DEF CarefulInv, EveryDidIsNamed, Named, Abroad
    <3>3. UnlaunchedHasNoStore'
      BY <2>1, <2>2, <3>1 DEF CarefulInv, UnlaunchedHasNoStore, NoStore
    <3>4. QED
      BY <2>1, <3>2, <3>3
      DEF CarefulInv, PushedDidIsJournalled, LaunchIsJournalled, PushedStoreIsJournalled,
          EvidenceIsJournalled, OneState
  <2>4. CASE call.at = "pushingStore"
    <3>1. /\ Signed.kind = "store"
          /\ journal # Empty /\ journal.stage = "StorePushed"
      BY <1>1, <2>4, BundleFields
      DEF Signed, CallShape, CarefulInv, PushedStoreIsJournalled
    <3>2. EveryDidIsNamed'
      BY <2>1, <2>2, <3>1 DEF CarefulInv, EveryDidIsNamed, Named, Abroad
    <3>3. UnlaunchedHasNoStore'
      BY <2>1, <3>1 DEF UnlaunchedHasNoStore
    <3>4. QED
      BY <2>1, <3>2, <3>3
      DEF CarefulInv, PushedDidIsJournalled, LaunchIsJournalled, PushedStoreIsJournalled,
          EvidenceIsJournalled, OneState
  <2>5. QED
    BY <2>1, <2>3, <2>4 DEF Pushing
<1>3. CASE ~Accepted /\ \A arrived \in BOOLEAN : ~Unanswered(arrived)
  <2>1. /\ \A b \in Abroad' : b \in Abroad \/ b.kind = "payment"
        /\ NoDid => NoDid'
        /\ \A d : NoStore(d) => NoStore(d)'
    BY <1>1, <1>3, OnlyPushesGoAbroad
  <2>2. CASE /\ UNCHANGED <<journal, entry, evidence>>
             /\ UNCHANGED call \/ call'.at \in {"idle", "didHeld"}
    BY <2>1, <2>2
    DEF CarefulInv, PushedDidIsJournalled, LaunchIsJournalled, PushedStoreIsJournalled,
        EvidenceIsJournalled, UnlaunchedHasNoStore, EveryDidIsNamed, Named, OneState, Abroad
  <2>3. CASE \E c \in Coins : HoldFunding(c)
    <3>1. /\ UNCHANGED <<journal, entry, evidence>>
          /\ call.at = "launching" /\ call'.at = "storeHeld" /\ call'.did = call.did
      BY <1>1, <2>3 DEF HoldFunding, TypeOK
    <3>2. QED
      BY <2>1, <3>1
      DEF CarefulInv, PushedDidIsJournalled, LaunchIsJournalled, PushedStoreIsJournalled,
        EvidenceIsJournalled, UnlaunchedHasNoStore, EveryDidIsNamed, Named, OneState, Abroad
  <2>4. CASE JournalDid
    <3>1. NoDid /\ NoStore(call.did)
      BY <1>1, <2>4, NothingNamed DEF JournalDid, CarefulInv, CallShape
    <3>2. evidence = Empty
      BY <2>4 DEF JournalDid, CarefulInv, EvidenceIsJournalled
    <3>3. /\ UNCHANGED <<entry, evidence>> /\ entry = Empty
          /\ call'.at = "pushingDid" /\ call'.did = call.did
          /\ journal'.did = call.did /\ journal'.stage = "DidPushed"
      BY <1>1, <2>4 DEF JournalDid, TypeOK
    <3>4. journal' # Empty
      BY <1>1, <2>4, TypeStays DEF JournalDid, ChainInv, TypeOK, CallShape, Mint
    <3>5. EveryDidIsNamed'
      BY <2>1, <3>1 DEF EveryDidIsNamed, NoDid, Abroad
    <3>6. QED
      BY <2>1, <3>1, <3>2, <3>3, <3>4, <3>5
      DEF CarefulInv, PushedDidIsJournalled, LaunchIsJournalled, PushedStoreIsJournalled,
          EvidenceIsJournalled, UnlaunchedHasNoStore, OneState
  <2>5. CASE Confirm
    BY <2>1, <2>5
    DEF Confirm, CarefulInv, PushedDidIsJournalled, LaunchIsJournalled, PushedStoreIsJournalled,
        EvidenceIsJournalled, UnlaunchedHasNoStore, EveryDidIsNamed, Named, OneState, Abroad
  <2>6. CASE Advance
    <3>1. journal.stage # "StorePushed"
      BY <1>1, <2>6, StatusMeans DEF Advance
    <3>2. /\ UNCHANGED <<journal, entry, evidence>>
          /\ journal # Empty /\ call'.at = "launching" /\ call'.did = journal.did
      BY <2>6 DEF Advance, Calling
    <3>3. QED
      BY <2>1, <3>1, <3>2
      DEF CarefulInv, PushedDidIsJournalled, LaunchIsJournalled, PushedStoreIsJournalled,
        EvidenceIsJournalled, UnlaunchedHasNoStore, EveryDidIsNamed, Named, OneState, Abroad
  <2>7. CASE JournalStore
    <3>1. /\ UNCHANGED <<entry, evidence>> /\ entry = Empty
          /\ journal # Empty /\ journal.did = call.did
          /\ NoStore(call.did)
      BY <2>7
      DEF JournalStore, CarefulInv, LaunchIsJournalled, UnlaunchedHasNoStore, OneState
    <3>2. /\ call'.at = "pushingStore" /\ call'.did = call.did
          /\ journal'.did = call.did /\ journal'.stage = "StorePushed"
      BY <1>1, <2>7 DEF JournalStore, TypeOK
    <3>3. journal' # Empty
      BY <1>1, <2>7 DEF JournalStore, TypeOK, CallShape, Mint, MintAssumption
    <3>4. QED
      BY <2>1, <3>1, <3>2, <3>3
      DEF CarefulInv, PushedDidIsJournalled, LaunchIsJournalled, PushedStoreIsJournalled,
        EvidenceIsJournalled, UnlaunchedHasNoStore, EveryDidIsNamed, Named, OneState, Abroad
  <2>8. CASE Rejected
    <3>1. CASE call.at = "pushingDid"
      <4>1. /\ NoDid /\ evidence = Empty /\ entry = Empty
            /\ UNCHANGED <<entry, evidence>> /\ journal' = Empty /\ call'.at = "idle"
        BY <2>8, <3>1 DEF Rejected, Idle, CarefulInv, PushedDidIsJournalled
      <4>2. EveryDidIsNamed'
        BY <2>1, <4>1 DEF EveryDidIsNamed, NoDid, Abroad
      <4>3. QED
        BY <4>1, <4>2
        DEF CarefulInv, PushedDidIsJournalled, LaunchIsJournalled, PushedStoreIsJournalled,
            EvidenceIsJournalled, UnlaunchedHasNoStore, OneState
    <3>2. CASE call.at = "pushingStore"
      <4>1. /\ UNCHANGED <<entry, evidence>> /\ entry = Empty
            /\ journal # Empty /\ journal.did = call.did
            /\ NoStore(call.did)
        BY <2>8, <3>2 DEF Rejected, CarefulInv, PushedStoreIsJournalled, OneState
      <4>2. call'.at = "idle" /\ journal'.did = call.did
        BY <2>8, <3>2 DEF Rejected, Idle
      <4>3. journal' # Empty
        BY <1>1, <2>8, <3>2 DEF Rejected, TypeOK, CallShape, Mint, MintAssumption
      <4>4. QED
        BY <2>1, <4>1, <4>2, <4>3
        DEF CarefulInv, PushedDidIsJournalled, LaunchIsJournalled, PushedStoreIsJournalled,
        EvidenceIsJournalled, UnlaunchedHasNoStore, EveryDidIsNamed, Named, OneState, Abroad
    <3>3. QED
      BY <2>8, <3>1, <3>2 DEF Rejected, Pushing
  <2>9. CASE RecordMinted
    <3>1. /\ entry' = journal.did /\ entry' # Empty /\ journal' = Empty
          /\ call'.at = "idle" /\ entry = Empty
      BY <2>9 DEF RecordMinted, CarefulInv, EvidenceIsJournalled
    <3>2. \A b \in Abroad : b \in Bundles
      BY <1>1 DEF TypeOK, Abroad, Landed
    <3>3. EveryDidIsNamed'
      BY <2>1, <3>1, <3>2, BundleFields DEF CarefulInv, EveryDidIsNamed, Named, Abroad
    <3>4. QED
      BY <3>1, <3>3
      DEF CarefulInv, PushedDidIsJournalled, LaunchIsJournalled, PushedStoreIsJournalled,
          EvidenceIsJournalled, UnlaunchedHasNoStore, OneState
  <2>10. CASE Restart
    BY <1>1, <2>1, <2>10
    DEF Restart, Idle, CarefulInv, PushedDidIsJournalled, LaunchIsJournalled, PushedStoreIsJournalled,
        EvidenceIsJournalled, UnlaunchedHasNoStore, EveryDidIsNamed, Named, OneState, Abroad
  <2>11. CASE AbandonMint
    BY <1>1, <2>11 DEF AbandonMint
  <2>12. QED
    BY <1>3, <2>2, <2>3, <2>4, <2>5, <2>6, <2>7, <2>8, <2>9, <2>10, <2>11
    DEF Next, Minter, Host, Chain, Begin, Abort, Save, Include, Bury, Grow, Reorg, Pay,
        Lapse, host, Calling, Idle
<1>4. QED
  BY <1>2, <1>3

(* What holds of the mint under a careful host.                            *)
THEOREM CarefulInvariance ==
  ASSUME Careful
  PROVE  Spec => [](ChainInv /\ CarefulInv)
<1>1. Init => CarefulInv
  BY MintAssumption
  DEF Init, Idle, CarefulInv, PushedDidIsJournalled, LaunchIsJournalled,
      PushedStoreIsJournalled, EvidenceIsJournalled, UnlaunchedHasNoStore, EveryDidIsNamed,
      OneState, Abroad, Landed
<1>2. ChainInv /\ CarefulInv /\ [Next]_vars => CarefulInv'
  <2>1. ASSUME ChainInv, CarefulInv, UNCHANGED vars
        PROVE  CarefulInv'
    BY <2>1
    DEF CarefulInv, PushedDidIsJournalled, LaunchIsJournalled, PushedStoreIsJournalled,
        EvidenceIsJournalled, UnlaunchedHasNoStore, EveryDidIsNamed, Named, OneState,
        Abroad, Landed, NoDid, NoStore, vars, host, chain
  <2>2. QED
    BY <2>1, CarefulStays
<1>3. QED
  BY <1>1, <1>2, ChainInvariance, PTL DEF Spec

(* With a careful host, "never a DID nothing names".                       *)
THEOREM DidsAreNamed ==
  ASSUME Careful
  PROVE  Spec => []EveryDidIsNamed
<1>1. CarefulInv => EveryDidIsNamed
  BY DEF CarefulInv
<1>2. QED
  BY <1>1, CarefulInvariance, PTL

(* With a careful host, a stage that says the store was not launched is    *)
(* true whenever the host can read it.                                     *)
THEOREM NotLaunchedHolds ==
  ASSUME Careful
  PROVE  Spec => []NotLaunchedIsTrue
<1>1. ChainInv /\ CarefulInv => NotLaunchedIsTrue
  <2> SUFFICES ASSUME ChainInv, CarefulInv, journal # Empty,
                      Status = "DidConfirmedStoreNotLaunched"
               PROVE  Stores(journal.did) \cap Abroad = {}
    BY DEF NotLaunchedIsTrue, Abroad
  <2>1. journal.stage # "StorePushed" /\ journal.did \in Coins
    BY StatusMeans DEF ChainInv, Mint
  <2>2. NoStore(journal.did)
    BY <2>1 DEF CarefulInv, UnlaunchedHasNoStore
  <2>3. QED
    BY <2>1, <2>2, BundleFields DEF NoStore
<1>2. QED
  BY <1>1, CarefulInvariance, PTL

(* With a careful host, the index pays for one DID.                        *)
THEOREM IndexPaysOnce ==
  ASSUME Careful
  PROVE  Spec => []OneIdentity
<1>1. ChainInv /\ CarefulInv => OneIdentity
  <2> SUFFICES ASSUME ChainInv, CarefulInv
               PROVE  OneIdentity
    OBVIOUS
  <2> DEFINE paid == {b \in Abroad : b.kind = "did"}
  <2>1. \A b \in paid : b = Did(b.did) /\ Named(b.did) /\ b.did \in Coins
    <3>1. \A b \in paid : b \in Bundles
      BY DEF ChainInv, TypeOK, Abroad, Landed
    <3>2. \A b \in Bundles : b.kind = "did" => b = Did(b.did)
      BY DEF Bundles, Did, Payment, Store
    <3>3. QED
      BY <3>1, <3>2, BundleFields DEF CarefulInv, EveryDidIsNamed, Abroad
  <2>2. \E d : paid \subseteq {Did(d)}
    <3>1. CASE journal # Empty
      <4>1. paid \subseteq {Did(journal.did)}
        BY <2>1, <3>1, MintAssumption DEF Named, CarefulInv, OneState
      <4>2. QED
        BY <4>1
    <3>2. CASE journal = Empty
      <4>1. paid \subseteq {Did(entry)}
        BY <2>1, <3>2 DEF Named
      <4>2. QED
        BY <4>1
    <3>3. QED
      BY <3>1, <3>2
  <2>3. PICK d : paid \subseteq {Did(d)}
    BY <2>2
  <2>4. IsFiniteSet({Did(d)}) /\ Cardinality({Did(d)}) = 1
    BY FS_Singleton
  <2>5. Cardinality(paid) \in Nat /\ Cardinality(paid) <= 1
    BY <2>3, <2>4, FS_Subset, FS_CardinalityType
  <2>6. QED
    BY <2>5 DEF OneIdentity, Abroad
<1>2. QED
  BY <1>1, CarefulInvariance, PTL

(***************************************************************************)
(* A mint is a use of the registry, whatever the host does                 *)
(***************************************************************************)
UseInv ==
  /\ OneState
  /\ file.entry = Empty \/ file.journal = Empty
  /\ call.at \in {"pushingDid", "launching", "storeHeld", "pushingStore"} => journal # Empty

(* The mint's journal and entry are ones the registry could hold.          *)
LEMMA UseStays ==
  ASSUME ChainInv, UseInv, [Next]_vars
  PROVE  UseInv'
<1>1. CASE JournalDid
  BY <1>1, MintAssumption DEF JournalDid, UseInv, OneState, ChainInv, TypeOK, CallShape, Mint
<1>2. CASE JournalStore
  BY <1>2, MintAssumption DEF JournalStore, UseInv, OneState, ChainInv, TypeOK, CallShape, Mint
<1>3. CASE Rejected
  BY <1>3 DEF Rejected, Pushing, UseInv, OneState, Idle
<1>4. CASE Advance \/ \E c \in Coins : HoldFunding(c)
  BY <1>4 DEF Advance, HoldFunding, UseInv, OneState
<1>5. CASE RecordMinted \/ AbandonMint \/ Save \/ Restart
  BY <1>5 DEF RecordMinted, AbandonMint, Save, Restart, UseInv, OneState, Idle
<1>6. CASE /\ UNCHANGED <<journal, entry, file>>
           /\ UNCHANGED call \/ call'.at \in {"idle", "didHeld"}
  BY <1>6 DEF UseInv, OneState
<1>7. QED
  BY <1>1, <1>2, <1>3, <1>4, <1>5, <1>6
  DEF Next, Minter, Host, Chain, Begin, Confirm, Abort, Accepted, Unanswered, Include,
      Bury, Grow, Reorg, Pay, Lapse, vars, host, Calling, Idle

(* A registry of one index with a mint or a profile is in order.           *)
LEMMA RegistryInOrder ==
  ASSUME NEW d \in Coins \cup {Empty}, NEW j \in Mint \cup {Empty}, d = Empty \/ j = Empty
  PROVE  Registry!Check(AsEntries(d), AsActive(d), AsJournal(j))
<1> USE MintAssumption, MarkerAssumption
<1>1. Registry!Ixs = {0}
  BY DEF Registry!Ixs
<1>2. /\ d = Empty => AsEntries(d)[0] = Empty /\ AsActive(d) = Empty
      /\ d # Empty => /\ AsEntries(d)[0] # Empty /\ AsActive(d) = 0
                      /\ AsEntries(d)[0].did = d /\ AsEntries(d)[0].launchedFrom = d
                      /\ AsEntries(d)[0].shown = TRUE /\ AsEntries(d)[0].ended = 0
  <2>1. CASE d = Empty
    BY <2>1 DEF AsEntries, AsActive
  <2>2. CASE d # Empty
    <3> DEFINE e == [did |-> d, launchedFrom |-> d, shown |-> TRUE, ended |-> 0]
    <3>1. AsEntries(d)[0] = e /\ AsActive(d) = 0
      BY <2>2 DEF AsEntries, AsActive
    <3>2. d \in Coins /\ TRUE \in BOOLEAN /\ 0 \in Nat
      BY <2>2
    <3>3. e \in Registry!Entry
      BY <3>2 DEF Registry!Entry
    <3>4. e # Empty
      BY <3>3
    <3>5. e.did = d /\ e.launchedFrom = d /\ e.shown = TRUE /\ e.ended = 0
      OBVIOUS
    <3> HIDE DEF e
    <3>6. QED
      BY <2>2, <3>1, <3>4, <3>5
  <2>3. QED
    BY <2>1, <2>2
<1>3. /\ j = Empty => AsJournal(j)[0] = Empty
      /\ j # Empty => AsJournal(j)[0].fee = 0
  BY DEF AsJournal
<1>4. Registry!Live(AsEntries(d)) = IF d = Empty THEN {} ELSE {0}
  BY <1>1, <1>2 DEF Registry!Live
<1>5. Registry!ActiveIsLive(AsEntries(d), AsActive(d))
  BY <1>2, <1>4 DEF Registry!ActiveIsLive
<1>6. Registry!OneStateEach(AsEntries(d), AsJournal(j))
  BY <1>1, <1>2, <1>3 DEF Registry!OneStateEach
<1>7. /\ Registry!ActiveIsShown(AsEntries(d), AsActive(d))
      /\ Registry!IdentitiesAreUnique(AsEntries(d))
      /\ Registry!HalvesPair(AsEntries(d))
  BY <1>1, <1>2
  DEF Registry!ActiveIsShown, Registry!IdentitiesAreUnique, Registry!HalvesPair,
      Registry!Confirmed
<1>8. Registry!FeesAreBounded(AsJournal(j))
  BY <1>1, <1>3 DEF Registry!FeesAreBounded
<1>9. QED
  BY <1>5, <1>6, <1>7, <1>8 DEF Registry!Check

RegistryState == ChainInv /\ UseInv

(* What the registry sees of a step.                                       *)
Seen == <<journal, entry, file>>

(* Each step of a mint is a mutator of the registry, a save, a restart, or *)
(* nothing the registry sees.                                              *)
LEMMA StepsRefine ==
  ASSUME RegistryState, RegistryState', [Next]_vars
  PROVE  [Registry!Next]_Registry!vars
<1> USE MintAssumption, MarkerAssumption
<1>0. /\ Registry!Ixs = {0}
      /\ journal \in Mint \cup {Empty} /\ journal' \in Mint \cup {Empty}
      /\ entry \in Coins \cup {Empty} /\ entry' \in Coins \cup {Empty}
      /\ entry = Empty \/ journal = Empty
      /\ entry' = Empty \/ journal' = Empty
  BY DEF Registry!Ixs, RegistryState, ChainInv, UseInv, OneState, TypeOK
<1>a. \A e, j : Registry!Becomes(AsEntries(e), AsActive(e), AsJournal(j)) <=>
        /\ AsEntries(entry)' = AsEntries(e) /\ AsActive(entry)' = AsActive(e)
        /\ AsJournal(journal)' = AsJournal(j)
        /\ FALSE = ~Registry!Check(AsEntries(e), AsActive(e), AsJournal(j))
        /\ UNCHANGED [entries |-> AsEntries(file.entry), active |-> AsActive(file.entry),
                       journal |-> AsJournal(file.journal)]
  BY DEF Registry!Becomes
<1>b. Registry!Check(AsEntries(entry'), AsActive(entry'), AsJournal(journal'))
  BY <1>0, RegistryInOrder
<1>c. UNCHANGED file => Registry!Becomes(AsEntries(entry'), AsActive(entry'), AsJournal(journal'))
  BY <1>a, <1>b DEF AsEntries, AsActive, AsJournal
<1>d. \A j \in Mint : AsJournal(j)[0].fee = 0 /\ AsJournal(j)[0] # Empty
  <2> SUFFICES ASSUME NEW j \in Mint
               PROVE  AsJournal(j)[0].fee = 0 /\ AsJournal(j)[0] # Empty
    OBVIOUS
  <2> DEFINE m == [stage |-> j.stage, fee |-> 0]
  <2>1. AsJournal(j)[0] = m
    BY DEF AsJournal
  <2>2. j.stage \in Registry!Stages /\ 0 \in 0 .. 0
    BY DEF Mint, Registry!Stages
  <2>3. m \in Registry!Mint
    BY <2>2 DEF Registry!Mint
  <2>4. QED
    BY <2>1, <2>3
<1>e. /\ call.at \in {"pushingDid", "pushingStore"} => journal \in Mint
      /\ call'.at \in {"pushingDid", "pushingStore"} => journal' \in Mint
  BY <1>0 DEF RegistryState, UseInv
<1>1. CASE UNCHANGED Seen
  BY <1>1 DEF Seen, Registry!vars, Registry!registry, AsEntries, AsActive, AsJournal
<1>2. CASE JournalDid
  <2>1. /\ journal = Empty /\ entry = Empty /\ entry' = entry /\ journal' # Empty
        /\ journal'.stage = "DidPushed" /\ UNCHANGED file
    <3>1. call'.at = "pushingDid"
      BY <1>2 DEF JournalDid, RegistryState, ChainInv, TypeOK
    <3>2. journal' # Empty
      BY <3>1, <1>e
    <3>3. QED
      BY <1>2, <3>2 DEF JournalDid
  <2>2. Registry!Becomes(AsEntries(entry), AsActive(entry), AsJournal(journal'))
    BY <1>c, <2>1
  <2>3. AsJournal(journal') = [AsJournal(journal) EXCEPT ![0] = [stage |-> "DidPushed", fee |-> 0]]
    BY <2>1 DEF AsJournal
  <2>4. AsEntries(entry)[0] = Empty /\ AsJournal(journal)[0] = Empty
    BY <2>1 DEF AsEntries, AsJournal
  <2>5. Registry!Reserve(0, "DidPushed", 0)
    BY <2>2, <2>3, <2>4 DEF Registry!Reserve
  <2>6. Registry!Mutate(0)
    BY <2>5 DEF Registry!Mutate, Registry!Stages
  <2>7. QED
    BY <2>6, <1>0 DEF Registry!Next
<1>3. CASE JournalStore \/ (Rejected /\ call.at = "pushingStore")
  <2>1. PICK stage \in Registry!Stages :
          /\ journal # Empty /\ journal' # Empty /\ journal'.stage = stage
          /\ UNCHANGED <<entry, file>>
    <3>1. CASE JournalStore
      <4>1. call'.at = "pushingStore" /\ call.at = "storeHeld"
        BY <3>1 DEF JournalStore, RegistryState, ChainInv, TypeOK
      <4>2. journal # Empty /\ journal' # Empty
        BY <4>1, <1>e DEF RegistryState, UseInv
      <4>3. QED
        BY <3>1, <4>2 DEF JournalStore, Registry!Stages
    <3>2. CASE Rejected /\ call.at = "pushingStore"
      <4>1. journal # Empty
        BY <3>2 DEF RegistryState, UseInv
      <4>2. /\ call.did \in Coins /\ call.floor \in 1 .. MaxPeak
            /\ journal' = [stage |-> "DidConfirmedStoreNotLaunched", did |-> call.did,
                           floor |-> call.floor, storeFloor |-> 0]
        BY <3>2 DEF Rejected, RegistryState, ChainInv, CallShape
      <4>3. journal' \in Mint
        BY <4>2 DEF Mint
      <4>4. QED
        BY <3>2, <4>1, <4>2, <4>3 DEF Rejected, Registry!Stages
    <3>3. QED
      BY <1>3, <3>1, <3>2
  <2>2. AsJournal(journal)[0].fee = 0
    BY <1>0, <1>d, <2>1
  <2>3. AsJournal(journal)[0] # Empty
    BY <1>0, <1>d, <2>1
  <2>4. AsJournal(journal') =
          [AsJournal(journal) EXCEPT ![0] = [stage |-> stage, fee |-> AsJournal(journal)[0].fee]]
    BY <2>1, <2>2 DEF AsJournal
  <2>5. Registry!AdvanceMint(0, stage)
    BY <2>1, <2>3, <2>4 DEF Registry!AdvanceMint, AsEntries, AsActive, AsJournal
  <2>6. Registry!Mutate(0)
    BY <2>5 DEF Registry!Mutate
  <2>7. QED
    BY <2>6, <1>0 DEF Registry!Next
<1>4. CASE AbandonMint \/ (Rejected /\ call.at # "pushingStore" /\ journal # Empty)
  <2>1. journal # Empty /\ journal' = Empty /\ UNCHANGED <<entry, file>>
    BY <1>4, <1>0 DEF AbandonMint, Rejected, Pushing, RegistryState, UseInv
  <2>2. Registry!Becomes(AsEntries(entry), AsActive(entry), AsJournal(Empty))
    BY <1>c, <2>1
  <2>3. AsJournal(Empty) = [AsJournal(journal) EXCEPT ![0] = Empty]
    BY <2>1 DEF AsJournal
  <2>4. AsJournal(journal)[0] # Empty
    BY <1>0, <1>d, <2>1
  <2>5. Registry!AbandonMint(0)
    BY <2>2, <2>3, <2>4 DEF Registry!AbandonMint
  <2>6. Registry!Mutate(0)
    BY <2>5 DEF Registry!Mutate
  <2>7. QED
    BY <2>6, <1>0 DEF Registry!Next
<1>5. CASE RecordMinted
  <2>1. /\ entry = Empty /\ entry' \in Coins /\ journal' = Empty /\ UNCHANGED file
    BY <1>5, <1>0 DEF RecordMinted, RegistryState, ChainInv, TypeOK
  <2>2. Registry!Becomes(AsEntries(entry'), AsActive(entry'), AsJournal(Empty))
    BY <1>c, <2>1
  <2>3. /\ AsJournal(Empty) = [AsJournal(journal) EXCEPT ![0] = Empty]
        /\ AsEntries(entry') =
             [AsEntries(entry) EXCEPT ![0] =
                [did |-> entry', launchedFrom |-> entry', shown |-> TRUE, ended |-> 0]]
        /\ AsActive(entry') = IF AsActive(entry) = Empty THEN 0 ELSE AsActive(entry)
        /\ AsEntries(entry)[0] = Empty
    BY <2>1 DEF AsJournal, AsEntries, AsActive
  <2>4. Registry!Confirmed(AsEntries(entry)) = {}
    BY <1>0, <2>3 DEF Registry!Confirmed
  <2>5. Registry!RecordMinted(0, entry', entry')
    BY <2>2, <2>3, <2>4 DEF Registry!RecordMinted
  <2>6. Registry!Mutate(0)
    BY <2>1, <2>5 DEF Registry!Mutate
  <2>7. QED
    BY <2>6, <1>0 DEF Registry!Next
<1>6. CASE Save
  BY <1>6 DEF Save, Registry!Save, Registry!registry, Registry!Next, AsEntries, AsActive, AsJournal
<1>7. CASE Restart
  <2>1. /\ file.entry \in Coins \cup {Empty} /\ file.journal \in Mint \cup {Empty}
        /\ file.entry = Empty \/ file.journal = Empty
    BY DEF RegistryState, ChainInv, UseInv, TypeOK
  <2>2. Registry!Check(AsEntries(file.entry), AsActive(file.entry), AsJournal(file.journal))
    BY <2>1, RegistryInOrder
  <2>3. QED
    BY <1>7, <2>2
    DEF Restart, Registry!Restart, Registry!Next, AsEntries, AsActive, AsJournal
<1>8. \/ UNCHANGED Seen \/ JournalDid \/ AbandonMint \/ RecordMinted \/ Save \/ Restart
      \/ JournalStore \/ (Rejected /\ call.at = "pushingStore")
      \/ (Rejected /\ call.at # "pushingStore" /\ journal # Empty)
  <2>1. Rejected /\ call.at # "pushingStore" => journal # Empty
    BY DEF Rejected, Pushing, RegistryState, UseInv
  <2>2. CASE Minter
    BY <2>1, <2>2
    DEF Minter, Begin, HoldFunding, Confirm, Advance, Abort, Accepted, Unanswered, Seen
  <2>3. CASE Host
    BY <2>3 DEF Host
  <2>4. CASE Chain
    BY <2>4 DEF Chain, Include, Bury, Grow, Reorg, Pay, Lapse, host, Seen
  <2>5. CASE UNCHANGED vars
    BY <2>5 DEF vars, host, Seen
  <2>6. QED
    BY <2>2, <2>3, <2>4, <2>5 DEF Next
<1>9. QED
  BY <1>1, <1>2, <1>3, <1>4, <1>5, <1>6, <1>7, <1>8

(* The mint's journal writes, handoff, saves and restarts are calls of the *)
(* registry: what the registry's theorems say of every sequence of calls   *)
(* holds of the registry a mint leaves behind.                             *)
THEOREM Refinement == Spec => ImplementsRegistry
<1>1. Init => UseInv
  BY DEF Init, UseInv, OneState, Idle
<1>2. Init => Registry!Init
  <2>1. Registry!Ixs = {0}
    BY DEF Registry!Ixs
  <2>2. QED
    BY <2>1 DEF Init, Registry!Init, Registry!Blank, AsEntries, AsActive, AsJournal
<1>3. ChainInv /\ ChainInv' /\ UseInv /\ [Next]_vars => UseInv' /\ [Registry!Next]_Registry!vars
  BY UseStays, StepsRefine DEF RegistryState
<1>4. QED
  BY <1>1, <1>2, <1>3, ChainInvariance, PTL DEF Spec, ImplementsRegistry, Registry!Spec
=============================================================================
