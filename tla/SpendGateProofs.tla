--------------------------- MODULE SpendGateProofs ---------------------------
(***************************************************************************)
(* Proofs about SpendGate, for every set of callers, spends and limits.    *)
(* The argument: a clock reading is never ahead of the clock, so a sweep   *)
(* drops only records whose period has passed, whoever sweeps and in       *)
(* whatever order; hence the ledger holds every charge of the last period, *)
(* and what the ledger holds never totals more than the cap.               *)
(*                                                                         *)
(* Then SpendSummary, for every purse and every bundle of it: what is      *)
(* weighed is never less than the wallet loses, so the cap on what is      *)
(* weighed is a cap on what is lost.                                       *)
(*                                                                         *)
(* Then the builders, for every purse, request and fee: the balance of a   *)
(* bundle is the sum of its spends' (BalanceGrows), so each bundle is      *)
(* accounted for spend by spend.  Last the whitelists: a plan holds some   *)
(* coins and keys (Held), and what its gate passes stays within (Within).  *)
(***************************************************************************)
EXTENDS BundleReference, SumProofs

Charged == {Recorded(a) : a \in Unattended}

ReadingsArePast == \A t \in Callers : call[t] # Idle => call[t].seen <= clock

(* No charge is forgotten before its period has passed.                    *)
LedgerRemembers ==
  \A a \in Unattended :
    a.at + Period > clock /\ a.spend.total > 0 => Recorded(a) \in ledger

LedgerWithinCap ==
  /\ IsFiniteSet(Mojos(ledger))
  /\ Worth(ledger) <= Cap
  /\ IsFiniteSet(Mojos(Charged))

PromptsRemember == \A p \in raised : p.at + Period > clock => p \in prompts

(* MAX_LEDGER_ENTRIES: the ledgers do not grow without bound.              *)
LedgersAreBounded ==
  /\ Cardinality(ledger) <= MaxLedger
  /\ Cardinality(prompts) <= MaxPrompts

Sizes ==
  /\ IsFiniteSet(ledger)
  /\ IsFiniteSet(prompts)
  /\ LedgersAreBounded

(* What a call still owes its caller.                                      *)
CallsAreRuled ==
  \A t \in Callers :
    LET c == call[t] IN
      /\ c # Idle => ~Forbidden(c.spend)
      /\ c.stage \in {"weighing", "charging"} => WithinBounds(c.spend)
      /\ c.stage = "pending" => \E p \in raised : p.id = c.id

(* A call rules on a spend presented to it, no two calls have one number,  *)
(* and a call is approved at most once.                                    *)
CallsAreNumbered ==
  /\ \A t \in Callers : call[t] # Idle =>
       /\ call[t].id < calls /\ call[t].spend \in Spends
       /\ \A a \in approvals : a.id # call[t].id
       /\ \A u \in Callers \ {t} : call[u] # Idle => call[u].id # call[t].id
  /\ \A a \in approvals : a.id < calls /\ a.spend \in Spends
  /\ \A a, b \in approvals : a.id = b.id => a = b
  /\ IsFiniteSet(approvals)

(***************************************************************************)
(* What sets of records are worth.                                         *)
(***************************************************************************)
(* Fewer records are worth no more.                                        *)
LEMMA WorthMonotone ==
  ASSUME NEW R, NEW S, R \subseteq S, IsFiniteSet(Mojos(S))
  PROVE  /\ IsFiniteSet(Mojos(R))
         /\ Worth(R) <= Worth(S)
         /\ Worth(R) \in Nat
<1>1. Mojos(R) \subseteq Mojos(S)
  BY DEF Mojos
<1> QED BY <1>1, FS_Subset, FS_CardinalityType DEF Worth

(* A record adds at most its own mojos.                                    *)
LEMMA WorthAdd ==
  ASSUME NEW R, NEW r, r.mojos \in Nat, IsFiniteSet(Mojos(R))
  PROVE  /\ IsFiniteSet(Mojos(R \cup {r}))
         /\ Worth(R \cup {r}) <= Worth(R) + r.mojos
<1> DEFINE New == {r.id} \X (1 .. r.mojos)
<1>1. IsFiniteSet(New) /\ Cardinality(New) = r.mojos
  <2>1. IsFiniteSet(1 .. r.mojos) /\ Cardinality(1 .. r.mojos) = r.mojos
    <3>1. 1 \in Int /\ r.mojos \in Int
      OBVIOUS
    <3>2. /\ IsFiniteSet(1 .. r.mojos)
          /\ Cardinality(1 .. r.mojos) = IF 1 > r.mojos THEN 0 ELSE r.mojos - 1 + 1
      BY <3>1, FS_Interval, Zenon
    <3> QED BY <3>2, SMT
  <2>2. IsFiniteSet({r.id}) /\ Cardinality({r.id}) = 1
    BY FS_Singleton, Zenon
  <2>3. /\ IsFiniteSet(New)
        /\ Cardinality(New) = Cardinality({r.id}) * Cardinality(1 .. r.mojos)
    BY <2>1, <2>2, FS_Product, Zenon
  <2>4. Cardinality({r.id}) * Cardinality(1 .. r.mojos) = r.mojos
    BY <2>1, <2>2
  <2> QED BY <2>3, <2>4, Zenon
<1>2. Mojos(R \cup {r}) = Mojos(R) \cup New
  BY Zenon DEF Mojos
<1>3. /\ IsFiniteSet(Mojos(R) \cup New)
      /\ Cardinality(Mojos(R) \cup New)
           = Cardinality(Mojos(R)) + Cardinality(New) - Cardinality(Mojos(R) \cap New)
  BY <1>1, FS_Union
<1>4. Cardinality(Mojos(R) \cap New) \in Nat
  BY <1>1, FS_Subset, FS_CardinalityType
<1>5. Cardinality(Mojos(R)) \in Nat
  BY FS_CardinalityType
<1>6. Cardinality(Mojos(R) \cup New) <= Cardinality(Mojos(R)) + r.mojos
  BY <1>1, <1>3, <1>4, <1>5, SMT
<1> HIDE DEF New
<1> QED BY <1>2, <1>3, <1>6, Zenon DEF Worth

(* Records of nothing are worth nothing.                                   *)
LEMMA WorthOfCharging ==
  ASSUME NEW R, NEW S, IsFiniteSet(Mojos(S)),
         \A r \in R : r.mojos \in Nat,
         \A r \in R : r.mojos > 0 => r \in S
  PROVE  IsFiniteSet(Mojos(R)) /\ Worth(R) <= Worth(S)
<1>1. Mojos(R) \subseteq Mojos(S)
  <2> SUFFICES ASSUME NEW r \in R, NEW m \in {r.id} \X (1 .. r.mojos)
               PROVE  m \in Mojos(S)
    BY DEF Mojos
  <2>1. r.mojos > 0
    OBVIOUS
  <2> QED BY <2>1 DEF Mojos
<1> QED BY <1>1, FS_Subset DEF Worth

(***************************************************************************)
(* Types                                                                   *)
(***************************************************************************)
LEMMA InitTypes == Init => TypeOK
  BY GateAssumption DEF Init, TypeOK, Idle

(* A step of a call leaves a call, or nobody, behind.                      *)
LEMMA CallTypes == TypeOK /\ [Next]_vars => call' \in [Callers -> Call \cup {Idle}]
<1> SUFFICES ASSUME TypeOK, [Next]_vars
             PROVE  call' \in [Callers -> Call \cup {Idle}]
  OBVIOUS
<1> USE DEF TypeOK
<1>1. ASSUME NEW t \in Callers, call[t].stage # "idle"
      PROVE  call[t] \in Call
  BY <1>1 DEF Idle
<1>2. ASSUME NEW t \in Callers, NEW s \in Spends, Authorize(t, s)
      PROVE  call' \in [Callers -> Call \cup {Idle}]
  <2> DEFINE c == [stage |-> IF WithinBounds(s) THEN "weighing" ELSE "escalating",
                   id |-> calls, spend |-> s, seen |-> 0]
  <2>1. c \in Call
    BY GateAssumption DEF Call, Stages
  <2>2. call' = [call EXCEPT ![t] = c]
    BY <1>2, Zenon DEF Authorize
  <2> HIDE DEF c
  <2> QED BY <2>1, <2>2
<1>3. ASSUME NEW t \in Callers, ReadClock(t)
      PROVE  call' \in [Callers -> Call \cup {Idle}]
  <2>1. call[t] \in Call
    BY <1>1, <1>3 DEF ReadClock
  <2>2. \A stage \in {"charging", "prompting"} :
          [call[t] EXCEPT !.stage = stage, !.seen = clock] \in Call
    BY <2>1 DEF Call, Stages
  <2> QED BY <1>3, <2>2 DEF ReadClock
<1>4. ASSUME NEW t \in Callers, OverCap(t)
      PROVE  call' \in [Callers -> Call \cup {Idle}]
  <2>1. call[t] \in Call
    BY <1>1, <1>4 DEF OverCap
  <2>2. [call[t] EXCEPT !.stage = "escalating"] \in Call
    BY <2>1 DEF Call, Stages
  <2> QED BY <1>4, <2>2 DEF OverCap
<1>5. ASSUME NEW t \in Callers, RaisePrompt(t)
      PROVE  call' \in [Callers -> Call \cup {Idle}]
  <2>1. call[t] \in Call
    BY <1>1, <1>5 DEF RaisePrompt
  <2>2. [call[t] EXCEPT !.stage = "pending"] \in Call
    BY <2>1 DEF Call, Stages
  <2> QED BY <1>5, <2>2 DEF RaisePrompt
<1>6. ASSUME NEW t \in Callers, Return(t)
      PROVE  call' \in [Callers -> Call \cup {Idle}]
  BY <1>6 DEF Return
<1>7. CASE UNCHANGED vars \/ Tick
  BY <1>7 DEF vars, Tick
<1> QED
  BY <1>2, <1>3, <1>4, <1>5, <1>6, <1>7
  DEF Next, Step, ClockFails, Charge, Indeterminate, TooManyPrompts, Confirm, Decline

(* A thread that is in a call has all of a call's fields.                  *)
LEMMA ActiveCall ==
  ASSUME TypeOK, NEW t \in Callers, call[t].stage # "idle"
  PROVE  /\ call[t] # Idle
         /\ call[t] \in Call
         /\ call[t].id \in Nat /\ call[t].seen \in Nat /\ call[t].spend \in Spend
         /\ call[t].spend.total \in Nat
<1> Idle.stage = "idle"
  BY DEF Idle
<1>1. call[t] # Idle
  OBVIOUS
<1>2. call[t] \in Call
  BY <1>1 DEF TypeOK
<1>3. call[t].id \in Nat /\ call[t].seen \in Nat /\ call[t].spend \in Spend
  BY <1>2 DEF Call
<1>4. call[t].spend.total \in Nat
  BY <1>3 DEF Spend
<1> QED BY <1>1, <1>2, <1>3, <1>4

(* Types are kept.                                                         *)
LEMMA TypesStep == TypeOK /\ [Next]_vars => TypeOK'
<1> SUFFICES ASSUME TypeOK, [Next]_vars PROVE TypeOK'
  OBVIOUS
<1>1. call' \in [Callers -> Call \cup {Idle}]
  BY CallTypes
<1>2. ASSUME NEW t \in Callers, call[t].stage # "idle"
      PROVE  /\ Kept(t) \subseteq Record /\ KeptPrompts(t) \subseteq Prompt
             /\ Charges(t) \subseteq Record
             /\ [id |-> call[t].id, at |-> call[t].seen] \in Prompt
             /\ \A by \in {"policy", "human"} : Approve(t, by) => approvals' \subseteq Approval
  <2>1. Kept(t) \subseteq Record /\ KeptPrompts(t) \subseteq Prompt
    BY DEF Kept, KeptPrompts, InWindow, TypeOK
  <2>2. Charges(t) \subseteq Record
    BY <1>2, ActiveCall DEF Charges, Record
  <2>3. [id |-> call[t].id, at |-> call[t].seen] \in Prompt
    BY <1>2, ActiveCall DEF Prompt
  <2>4. ASSUME NEW by \in {"policy", "human"}
        PROVE  [id |-> call[t].id, at |-> call[t].seen, when |-> clock,
                spend |-> call[t].spend, by |-> by] \in Approval
    BY <1>2, ActiveCall DEF Approval, TypeOK
  <2> QED BY <2>1, <2>2, <2>3, <2>4 DEF Approve, TypeOK
<1>3. ASSUME NEW t \in Callers, Step(t) PROVE TypeOK'
  <2>1. ASSUME NEW s \in Spends, Authorize(t, s) PROVE TypeOK'
    BY <1>1, <2>1 DEF Authorize, TypeOK
  <2>2. CASE ReadClock(t) \/ ClockFails(t)
    BY <1>1, <2>2 DEF ReadClock, ClockFails, TypeOK
  <2>3. CASE Charge(t)
    BY <1>1, <1>2, <2>3 DEF Charge, TypeOK
  <2>4. CASE OverCap(t) \/ Indeterminate(t)
    BY <1>1, <1>2, <2>4 DEF OverCap, Indeterminate, TypeOK
  <2>5. CASE RaisePrompt(t)
    BY <1>1, <1>2, <2>5 DEF RaisePrompt, TypeOK
  <2>6. CASE TooManyPrompts(t) \/ Decline(t)
    BY <1>1, <1>2, <2>6 DEF TooManyPrompts, Decline, TypeOK
  <2>7. CASE Confirm(t)
    BY <1>1, <1>2, <2>7 DEF Confirm, TypeOK
  <2> QED BY <1>3, <2>1, <2>2, <2>3, <2>4, <2>5, <2>6, <2>7 DEF Step
<1>4. CASE Tick
  BY <1>1, <1>4 DEF Tick, TypeOK
<1>5. CASE UNCHANGED vars
  BY <1>5 DEF vars, TypeOK
<1> QED BY <1>3, <1>4, <1>5 DEF Next

(***************************************************************************)
(* What a step does to the ledger and to the unattended approvals: nothing,*)
(* or a sweep, or a sweep and a charge.                                    *)
(***************************************************************************)
Sweeps(t) == call[t].stage = "charging" /\ ledger' = Kept(t) /\ Unattended' = Unattended

Granted(t) ==
  [id |-> call[t].id, at |-> call[t].seen, when |-> clock,
   spend |-> call[t].spend, by |-> "policy"]

ChargesOnce(t) ==
  /\ call[t].stage = "charging"
  /\ Projected(t) <= Cap
  /\ Cardinality(Kept(t)) < MaxLedger
  /\ ledger' = Kept(t) \cup Charges(t)
  /\ Unattended' = Unattended \cup {Granted(t)}

(* The steps that touch the ledger of charges, and how.                    *)
LEMMA LedgerSteps ==
  ASSUME TypeOK, [Next]_vars
  PROVE  \/ UNCHANGED ledger /\ Unattended' = Unattended
         \/ clock' = clock /\ \E t \in Callers : Sweeps(t) \/ ChargesOnce(t)
<1>1. ASSUME NEW t \in Callers, Charge(t)
      PROVE  clock' = clock /\ ChargesOnce(t)
  <2>1. Unattended' = Unattended \cup {Granted(t)}
    BY <1>1 DEF Charge, Approve, Unattended, Granted
  <2> QED BY <1>1, <2>1 DEF Charge, ChargesOnce
<1>2. ASSUME NEW t \in Callers, OverCap(t) \/ Indeterminate(t)
      PROVE  clock' = clock /\ Sweeps(t)
  BY <1>2 DEF OverCap, Indeterminate, Sweeps, Unattended
<1>3. ASSUME NEW t \in Callers, Confirm(t)
      PROVE  UNCHANGED ledger /\ Unattended' = Unattended
  BY <1>3 DEF Confirm, Approve, Unattended
<1>4. ASSUME UNCHANGED <<ledger, approvals>>
      PROVE  UNCHANGED ledger /\ Unattended' = Unattended
  BY <1>4 DEF Unattended
<1> QED
  BY <1>1, <1>2, <1>3, <1>4
  DEF Next, Step, Authorize, ReadClock, ClockFails, RaisePrompt, TooManyPrompts, Decline,
      Tick, vars

(* The clock never runs backwards.                                         *)
LEMMA ClockGrows == TypeOK /\ [Next]_vars => clock' >= clock
<1>1. [Next]_vars => Tick \/ clock' = clock
  BY Zenon
  DEF Next, Step, Authorize, ReadClock, ClockFails, Charge, OverCap,
      Indeterminate, RaisePrompt, TooManyPrompts, Confirm, Decline, vars
<1> QED BY <1>1 DEF Tick, TypeOK

(***************************************************************************)
(* The ledger                                                              *)
(***************************************************************************)
LEMMA ReadingsStep == TypeOK /\ ReadingsArePast /\ [Next]_vars => ReadingsArePast'
<1> SUFFICES ASSUME TypeOK, ReadingsArePast, [Next]_vars,
                    NEW u \in Callers, call'[u] # Idle
             PROVE  call'[u].seen <= clock'
  BY DEF ReadingsArePast
<1>1. clock \in Nat /\ clock' \in Nat /\ clock' >= clock
  BY TypesStep, ClockGrows DEF TypeOK
<1>2. CASE call'[u] = call[u]
  BY <1>1, <1>2 DEF ReadingsArePast, TypeOK, Call
<1>3. ASSUME NEW t \in Callers, Step(t), call'[u] # call[u]
      PROVE  call'[u].seen <= clock'
  <2> USE DEF TypeOK
  <2>1. ASSUME NEW s \in Spends, Authorize(t, s) PROVE call'[u].seen = 0
    BY <1>3, <2>1 DEF Authorize
  <2>2. CASE ReadClock(t)
    <3>1. call'[u].seen = clock
      BY <1>3, <2>2, ActiveCall DEF ReadClock, Call
    <3> QED BY <3>1, <1>1
  <2>3. CASE OverCap(t) \/ RaisePrompt(t)
    <3>1. call[u] # Idle /\ call'[u].seen = call[u].seen
      BY <1>3, <2>3, ActiveCall DEF OverCap, RaisePrompt, Call
    <3>2. call[u].seen \in Nat
      BY <3>1 DEF Call
    <3> QED BY <3>1, <3>2, <1>1 DEF ReadingsArePast
  <2>4. CASE Return(t)
    BY <1>3, <2>4 DEF Return
  <2> QED
    BY <1>3, <2>1, <2>2, <2>3, <2>4, <1>1
    DEF Step, ClockFails, Charge, Indeterminate, TooManyPrompts, Confirm, Decline
<1> QED BY <1>2, <1>3 DEF Next, Tick, vars

(* The record of an approval is its reading and its total.                 *)
LEMMA RecordedType ==
  ASSUME TypeOK, NEW a \in Unattended
  PROVE  /\ a.at \in Nat /\ a.spend.total \in Nat
         /\ Recorded(a).at = a.at /\ Recorded(a).mojos = a.spend.total
  BY DEF TypeOK, Unattended, Approval, Spend, Recorded

(* What a charge adds to the charges on record.                            *)
LEMMA ChargedStep ==
  ASSUME TypeOK, NEW t \in Callers, ChargesOnce(t)
  PROVE  /\ Charged' = Charged \cup {Recorded(Granted(t))}
         /\ Charges(t) = {r \in {Recorded(Granted(t))} : r.mojos > 0}
         /\ Recorded(Granted(t)).mojos = call[t].spend.total
         /\ Recorded(Granted(t)).at = call[t].seen
  BY DEF ChargesOnce, Charged, Charges, Recorded, Granted

(* The ledger keeps holding approvals only.                                *)
LEMMA OnlyApprovalsStep ==
  TypeOK /\ OnlyApprovalsAreCharged /\ [Next]_vars => OnlyApprovalsAreCharged'
<1> SUFFICES ASSUME TypeOK, ledger \subseteq Charged, [Next]_vars
             PROVE  ledger' \subseteq Charged'
  BY DEF OnlyApprovalsAreCharged, Charged
<1>1. CASE UNCHANGED ledger /\ Unattended' = Unattended
  BY <1>1 DEF Charged
<1>2. ASSUME NEW t \in Callers, Sweeps(t) PROVE ledger' \subseteq Charged'
  BY <1>2 DEF Sweeps, Kept, InWindow, Charged
<1>3. ASSUME NEW t \in Callers, ChargesOnce(t) PROVE ledger' \subseteq Charged'
  BY <1>3, ChargedStep DEF ChargesOnce, Kept, InWindow
<1> QED BY <1>1, <1>2, <1>3, LedgerSteps

(* The ledger keeps remembering the approvals of the last period.          *)
LEMMA RemembersStep ==
  TypeOK /\ ReadingsArePast /\ LedgerRemembers /\ [Next]_vars => LedgerRemembers'
<1> SUFFICES ASSUME TypeOK, ReadingsArePast, LedgerRemembers, [Next]_vars,
                    NEW a \in Unattended', a.at + Period > clock', a.spend.total > 0
             PROVE  Recorded(a) \in ledger'
  BY DEF LedgerRemembers, Recorded
<1>1. clock \in Nat /\ clock' \in Nat /\ clock' >= clock /\ Period \in Nat
  BY TypesStep, ClockGrows, GateAssumption DEF TypeOK
<1>2. ASSUME a \in Unattended
      PROVE  /\ Recorded(a) \in ledger
             /\ \A t \in Callers : call[t].stage = "charging" => Recorded(a) \in Kept(t)
  <2>1. Recorded(a) \in ledger
    BY <1>1, <1>2, RecordedType DEF LedgerRemembers
  <2>2. ASSUME NEW t \in Callers, call[t].stage = "charging"
        PROVE  Recorded(a) \in Kept(t)
    <3>1. call[t].seen <= clock /\ call[t].seen \in Nat
      BY <2>2, ActiveCall DEF ReadingsArePast
    <3>2. Recorded(a).at + Period > call[t].seen
      BY <1>1, <1>2, <3>1, RecordedType
    <3> QED BY <2>1, <3>2 DEF Kept, InWindow
  <2> QED BY <2>1, <2>2
<1>3. CASE UNCHANGED ledger /\ Unattended' = Unattended
  BY <1>2, <1>3
<1>4. ASSUME NEW t \in Callers, Sweeps(t) PROVE Recorded(a) \in ledger'
  BY <1>2, <1>4 DEF Sweeps
<1>5. ASSUME NEW t \in Callers, ChargesOnce(t) PROVE Recorded(a) \in ledger'
  <2>1. CASE a \in Unattended
    BY <1>2, <1>5, <2>1 DEF ChargesOnce
  <2>2. CASE a = Granted(t)
    BY <1>5, <2>2, ChargedStep DEF ChargesOnce, Granted
  <2> QED BY <1>5, <2>1, <2>2 DEF ChargesOnce
<1> QED BY <1>3, <1>4, <1>5, LedgerSteps

(* The records kept by a sweep are worth a natural, and Projected is what  *)
(* the ledger is worth once the call is charged.                           *)
LEMMA KeptWorth ==
  ASSUME TypeOK, LedgerWithinCap, NEW t \in Callers
  PROVE  /\ IsFiniteSet(Mojos(Kept(t)))
         /\ Worth(Kept(t)) \in Nat
         /\ Worth(Kept(t)) <= Worth(ledger)
<1>1. Kept(t) \subseteq ledger
  BY DEF Kept, InWindow
<1> QED BY <1>1, WorthMonotone DEF LedgerWithinCap

(* What the ledger holds stays within the cap.                             *)
LEMMA WithinCapStep ==
  TypeOK /\ LedgerWithinCap /\ [Next]_vars => LedgerWithinCap'
<1> SUFFICES ASSUME TypeOK, LedgerWithinCap, [Next]_vars PROVE LedgerWithinCap'
  OBVIOUS
<1>1. CASE UNCHANGED ledger /\ Unattended' = Unattended
  <2>1. Charged' = Charged
    BY <1>1 DEF Charged
  <2> QED BY <1>1, <2>1 DEF LedgerWithinCap
<1>2. ASSUME NEW t \in Callers, Sweeps(t) PROVE LedgerWithinCap'
  <2>1. Charged' = Charged
    BY <1>2 DEF Charged, Sweeps
  <2>2. Worth(ledger) \in Nat /\ Cap \in Nat
    BY WorthMonotone, GateAssumption DEF LedgerWithinCap
  <2>3. IsFiniteSet(Mojos(ledger')) /\ Worth(ledger') <= Cap
    BY <1>2, <2>2, KeptWorth DEF LedgerWithinCap, Sweeps
  <2> QED BY <2>1, <2>3 DEF LedgerWithinCap
<1>3. ASSUME NEW t \in Callers, ChargesOnce(t) PROVE LedgerWithinCap'
  <2> DEFINE r == Recorded(Granted(t))
  <2>1. /\ r.mojos = call[t].spend.total /\ r.mojos \in Nat
        /\ Charges(t) \subseteq {r}
    BY <1>3, ChargedStep, ActiveCall DEF ChargesOnce
  <2>2. IsFiniteSet(Mojos(Charged')) 
    BY <1>3, <2>1, ChargedStep, WorthAdd DEF LedgerWithinCap
  <2>3. /\ IsFiniteSet(Mojos(Kept(t) \cup {r}))
        /\ Worth(Kept(t) \cup {r}) <= Projected(t)
    BY <2>1, KeptWorth, WorthAdd DEF Projected
  <2>4. ledger' \subseteq Kept(t) \cup {r}
    BY <1>3, <2>1 DEF ChargesOnce
  <2>5. /\ IsFiniteSet(Mojos(ledger'))
        /\ Worth(ledger') <= Worth(Kept(t) \cup {r})
        /\ Worth(ledger') \in Nat
    BY <2>3, <2>4, WorthMonotone
  <2>6. Worth(Kept(t) \cup {r}) \in Nat
    BY <2>3, WorthMonotone
  <2>7. Worth(ledger') <= Cap
    <3>1. Projected(t) \in Nat /\ Cap \in Nat /\ Projected(t) <= Cap
      BY <1>3, <2>1, KeptWorth, GateAssumption DEF Projected, ChargesOnce
    <3> HIDE DEF r
    <3> QED BY <2>3, <2>5, <2>6, <3>1
  <2> QED BY <2>2, <2>5, <2>7 DEF LedgerWithinCap
<1> QED BY <1>1, <1>2, <1>3, LedgerSteps

(* The ledgers stay within their sizes.                                    *)
LEMMA SizesStep == TypeOK /\ Sizes /\ [Next]_vars => Sizes'
<1> SUFFICES ASSUME TypeOK, Sizes, [Next]_vars PROVE Sizes'
  OBVIOUS
<1> DEFINE Fits(S, n) == IsFiniteSet(S) /\ Cardinality(S) <= n
<1>1. \A S, T, n : n \in Nat /\ Fits(S, n) /\ T \subseteq S => Fits(T, n)
  BY FS_Subset, FS_CardinalityType
<1>2. ASSUME NEW S, NEW x, NEW n \in Nat, IsFiniteSet(S), Cardinality(S) < n
      PROVE  Fits(S \cup {x}, n)
  <2>1. Cardinality(S) \in Nat
    BY <1>2, FS_CardinalityType
  <2>2. /\ IsFiniteSet(S \cup {x})
        /\ Cardinality(S \cup {x}) \in {Cardinality(S), Cardinality(S) + 1}
    BY <1>2, FS_AddElement
  <2> QED BY <1>2, <2>1, <2>2
<1> HIDE DEF Fits
<1>3. Fits(ledger, MaxLedger) /\ Fits(prompts, MaxPrompts)
  BY DEF Sizes, LedgersAreBounded, Fits
<1> USE GateAssumption
<1>4. Fits(ledger', MaxLedger)
  <2>1. ASSUME NEW t \in Callers
        PROVE  /\ Kept(t) \subseteq ledger /\ Fits(Kept(t), MaxLedger)
               /\ IsFiniteSet(Kept(t))
    BY <1>1, <1>3 DEF Kept, InWindow, Fits
  <2>2. ASSUME NEW t \in Callers, ChargesOnce(t) PROVE Fits(ledger', MaxLedger)
    <3> DEFINE r == Recorded(Granted(t))
    <3>1. ledger' \subseteq Kept(t) \cup {r}
      BY <2>2, ChargedStep DEF ChargesOnce
    <3>2. Fits(Kept(t) \cup {r}, MaxLedger)
      BY <1>2, <2>1, <2>2 DEF ChargesOnce
    <3> QED BY <1>1, <3>1, <3>2
  <2>3. ASSUME NEW t \in Callers, Sweeps(t) PROVE Fits(ledger', MaxLedger)
    BY <2>1, <2>3 DEF Sweeps
  <2> QED BY <1>3, <2>2, <2>3, LedgerSteps
<1>5. Fits(prompts', MaxPrompts)
  <2>1. ASSUME NEW t \in Callers
        PROVE  /\ KeptPrompts(t) \subseteq prompts /\ Fits(KeptPrompts(t), MaxPrompts)
               /\ IsFiniteSet(KeptPrompts(t))
    BY <1>1, <1>3 DEF KeptPrompts, InWindow, Fits
  <2>2. ASSUME NEW t \in Callers, RaisePrompt(t) PROVE Fits(prompts', MaxPrompts)
    BY <1>2, <2>1, <2>2 DEF RaisePrompt
  <2>3. ASSUME NEW t \in Callers, TooManyPrompts(t) PROVE Fits(prompts', MaxPrompts)
    BY <2>1, <2>3 DEF TooManyPrompts
  <2>4. ASSUME UNCHANGED prompts PROVE Fits(prompts', MaxPrompts)
    BY <1>3, <2>4
  <2> QED
    BY <2>2, <2>3, <2>4
    DEF Next, Step, Authorize, ReadClock, ClockFails, Charge, OverCap, Indeterminate,
        Confirm, Decline, Tick, vars
<1> QED BY <1>4, <1>5 DEF Sizes, LedgersAreBounded, Fits

(***************************************************************************)
(* Prompts, and what a permission rests on                                 *)
(***************************************************************************)
LEMMA PromptsStep ==
  TypeOK /\ ReadingsArePast /\ PromptsRemember /\ [Next]_vars => PromptsRemember'
<1> SUFFICES ASSUME TypeOK, ReadingsArePast, PromptsRemember, [Next]_vars,
                    NEW p \in raised', p.at + Period > clock'
             PROVE  p \in prompts'
  BY DEF PromptsRemember
<1>1. clock \in Nat /\ clock' \in Nat /\ clock' >= clock /\ Period \in Nat
  BY TypesStep, ClockGrows, GateAssumption DEF TypeOK
<1>2. ASSUME p \in raised
      PROVE  /\ p \in prompts
             /\ \A t \in Callers : call[t].stage = "prompting" => p \in KeptPrompts(t)
  <2>1. p \in prompts /\ p.at \in Nat
    BY <1>1, <1>2 DEF PromptsRemember, TypeOK, Prompt
  <2>2. ASSUME NEW t \in Callers, call[t].stage = "prompting"
        PROVE  p \in KeptPrompts(t)
    <3>1. call[t].seen <= clock /\ call[t].seen \in Nat
      BY <2>2, ActiveCall DEF ReadingsArePast
    <3> QED BY <1>1, <2>1, <3>1 DEF KeptPrompts, InWindow
  <2> QED BY <2>1, <2>2
<1>3. ASSUME NEW t \in Callers, RaisePrompt(t) PROVE p \in prompts'
  BY <1>2, <1>3 DEF RaisePrompt
<1>4. ASSUME NEW t \in Callers, TooManyPrompts(t) PROVE p \in prompts'
  BY <1>2, <1>4 DEF TooManyPrompts
<1>5. ASSUME UNCHANGED <<prompts, raised>> PROVE p \in prompts'
  BY <1>2, <1>5
<1> QED
  BY <1>3, <1>4, <1>5
  DEF Next, Step, Authorize, ReadClock, ClockFails, Charge, OverCap, Indeterminate,
      Confirm, Decline, Tick, vars

(* The profile's custody is what the authorizer was made with.             *)
LEMMA CustodyStays == [Next]_vars => custody' = custody
  BY DEF Next, Step, Authorize, ReadClock, ClockFails, Charge, OverCap, Indeterminate,
         RaisePrompt, TooManyPrompts, Confirm, Decline, Tick, vars

(* A call in progress stays one the policy allows.                         *)
LEMMA RulesStep == TypeOK /\ CallsAreRuled /\ [Next]_vars => CallsAreRuled'
<1> SUFFICES ASSUME TypeOK, CallsAreRuled, [Next]_vars, NEW u \in Callers
             PROVE  /\ call'[u] # Idle => ~Forbidden(call'[u].spend)
                    /\ call'[u].stage \in {"weighing", "charging"} =>
                         WithinBounds(call'[u].spend)
                    /\ call'[u].stage = "pending" =>
                         \E p \in raised' : p.id = call'[u].id
  BY CustodyStays DEF CallsAreRuled, Forbidden, WithinBounds, Tier
<1> DEFINE Ruled(c) == /\ c # Idle => ~Forbidden(c.spend)
                       /\ c.stage \in {"weighing", "charging"} => WithinBounds(c.spend)
                       /\ c.stage = "pending" => \E p \in raised' : p.id = c.id
<1>1. raised \subseteq raised'
  BY DEF Next, Step, Authorize, ReadClock, ClockFails, Charge, OverCap, Indeterminate,
         RaisePrompt, TooManyPrompts, Confirm, Decline, Tick, vars
<1>2. Ruled(call[u])
  BY <1>1 DEF CallsAreRuled
<1>3. Ruled(Idle)
  BY DEF Idle
<1>4. ASSUME NEW t \in Callers, Step(t), call'[u] # call[u] PROVE Ruled(call'[u])
  <2> USE DEF TypeOK
  <2>1. ASSUME NEW s \in Spends, Authorize(t, s) PROVE Ruled(call'[u])
    BY <1>4, <2>1 DEF Authorize
  <2>2. CASE ReadClock(t)
    <3>1. /\ call[u].stage # "idle" /\ call'[u].spend = call[u].spend
          /\ call'[u].stage = "charging" => call[u].stage = "weighing"
          /\ call'[u].stage \in {"charging", "prompting"}
      BY <1>4, <2>2, ActiveCall DEF ReadClock, Call
    <3> QED BY <1>2, <3>1, ActiveCall
  <2>3. CASE OverCap(t)
    <3>1. /\ call[u].stage # "idle" /\ call'[u].spend = call[u].spend
          /\ call'[u].stage = "escalating"
      BY <1>4, <2>3, ActiveCall DEF OverCap, Call
    <3> QED BY <1>2, <3>1, ActiveCall
  <2>4. CASE RaisePrompt(t)
    <3>1. /\ call[u].stage # "idle" /\ call'[u].spend = call[u].spend
          /\ call'[u].stage = "pending" /\ call'[u].id = call[u].id
      BY <1>4, <2>4, ActiveCall DEF RaisePrompt, Call
    <3>2. t = u
      BY <1>4, <2>4 DEF RaisePrompt
    <3>3. [id |-> call[u].id, at |-> call[u].seen] \in raised'
      BY <2>4, <3>2 DEF RaisePrompt
    <3>4. \E p \in raised' : p.id = call[u].id
      BY <3>3
    <3> QED BY <1>2, <3>1, <3>4, ActiveCall
  <2>5. CASE Return(t)
    BY <1>3, <1>4, <2>5 DEF Return
  <2> QED
    BY <1>4, <2>1, <2>2, <2>3, <2>4, <2>5
    DEF Step, ClockFails, Charge, Indeterminate, TooManyPrompts, Confirm, Decline
<1>5. Ruled(call'[u])
  BY <1>2, <1>4 DEF Next, Tick, vars
<1> QED BY <1>5

(* Every permission stays earned.                                          *)
LEMMA EarnedStep ==
  TypeOK /\ CallsAreRuled /\ PermissionsAreEarned /\ [Next]_vars => PermissionsAreEarned'
<1> SUFFICES ASSUME TypeOK, CallsAreRuled, PermissionsAreEarned, [Next]_vars
             PROVE  PermissionsAreEarned'
  OBVIOUS
<1> DEFINE Earned(a) ==
      /\ a.by = "policy" => /\ custody = "Hot" /\ Enabled
                            /\ a.spend.plain
                            /\ a.spend.total <= HotLimit
                            /\ a.spend.class \in Classes
                            /\ Limits[a.spend.class].enabled
                            /\ a.spend.total <= Limits[a.spend.class].perTx
      /\ a.by = "human" => \E p \in raised' : p.id = a.id
      /\ custody = "Vault" => a.spend.pays = "hot wallet"
<1>1. raised \subseteq raised'
  BY DEF Next, Step, Authorize, ReadClock, ClockFails, Charge, OverCap, Indeterminate,
         RaisePrompt, TooManyPrompts, Confirm, Decline, Tick, vars
<1>2. \A a \in approvals : Earned(a)
  BY <1>1 DEF PermissionsAreEarned
<1>3. ASSUME NEW t \in Callers, NEW by \in {"policy", "human"}, Approve(t, by),
             IF by = "policy" THEN call[t].stage = "charging" ELSE call[t].stage = "pending"
      PROVE  \A a \in approvals' : Earned(a)
  <2> DEFINE n == [id |-> call[t].id, at |-> call[t].seen, when |-> clock,
                   spend |-> call[t].spend, by |-> by]
  <2>1. /\ call[t].stage # "idle" /\ ~Forbidden(call[t].spend)
        /\ call[t].spend \in Spend
    BY <1>3, ActiveCall DEF CallsAreRuled
  <2>2. by = "policy" => WithinBounds(call[t].spend)
    BY <1>3 DEF CallsAreRuled
  <2>3. by = "human" => \E p \in raised' : p.id = call[t].id
    BY <1>1, <1>3 DEF CallsAreRuled
  <2>4. Earned(n)
    BY <2>1, <2>2, <2>3, GateAssumption DEF TypeOK, WithinBounds, Forbidden, Tier, Spend
  <2> QED BY <1>2, <1>3, <2>4 DEF Approve
<1>4. \A a \in approvals' : Earned(a)
  BY <1>2, <1>3
  DEF Next, Step, Authorize, ReadClock, ClockFails, Charge, OverCap, Indeterminate,
      RaisePrompt, TooManyPrompts, Confirm, Decline, Tick, vars
<1> QED BY <1>4, CustodyStays DEF PermissionsAreEarned

(***************************************************************************)
(* The numbers of the calls                                                *)
(***************************************************************************)
(* What a step does to the numbers: a new call takes the next, an approval *)
(* takes the number of the call it ends, and the other steps keep them.    *)
OthersKept(t) == \A u \in Callers \ {t} : call'[u] = call[u]

Begins(t) ==
  /\ calls' = calls + 1 /\ approvals' = approvals
  /\ call'[t].id = calls /\ call'[t].spend \in Spends /\ OthersKept(t)

Approves(t) ==
  /\ calls' = calls /\ call[t] # Idle /\ call'[t] = Idle /\ OthersKept(t)
  /\ \E a \in Approval : /\ a.id = call[t].id /\ a.spend = call[t].spend
                         /\ approvals' = approvals \cup {a}

Numbered ==
  /\ calls' = calls /\ approvals' = approvals
  /\ \A u \in Callers : \/ call'[u] = Idle
                        \/ /\ call[u] # Idle /\ call'[u].id = call[u].id
                           /\ call'[u].spend = call[u].spend

LEMMA NumberSteps ==
  ASSUME TypeOK, [Next]_vars
  PROVE  Numbered \/ \E t \in Callers : Begins(t) \/ Approves(t)
<1> USE DEF TypeOK
<1>1. ASSUME NEW t \in Callers, NEW s \in Spends, Authorize(t, s)
      PROVE  Begins(t)
  BY <1>1 DEF Authorize, Begins, OthersKept
<1>2. ASSUME NEW t \in Callers, ReadClock(t) \/ OverCap(t) \/ RaisePrompt(t)
      PROVE  Numbered
  <2>1. call[t].stage # "idle"
    BY <1>2 DEF ReadClock, OverCap, RaisePrompt
  <2>2. call[t] # Idle /\ call[t] \in Call
    BY <2>1, ActiveCall
  <2>3. call'[t].id = call[t].id /\ call'[t].spend = call[t].spend
    <3>1. CASE ReadClock(t)
      BY <2>2, <3>1 DEF ReadClock, Call
    <3>2. CASE OverCap(t)
      BY <2>2, <3>2 DEF OverCap, Call
    <3>3. CASE RaisePrompt(t)
      BY <2>2, <3>3 DEF RaisePrompt, Call
    <3> QED BY <1>2, <3>1, <3>2, <3>3
  <2>4. \A u \in Callers \ {t} : call'[u] = call[u]
    BY <1>2 DEF ReadClock, OverCap, RaisePrompt
  <2>5. UNCHANGED <<calls, approvals>>
    BY <1>2 DEF ReadClock, OverCap, RaisePrompt
  <2> QED BY <2>2, <2>3, <2>4, <2>5, Zenon DEF Numbered
<1>3. ASSUME NEW t \in Callers, Return(t), UNCHANGED <<calls, approvals>>
      PROVE  Numbered
  BY <1>3 DEF Return, Numbered
<1>4. ASSUME NEW t \in Callers, NEW by \in {"policy", "human"}, Approve(t, by), Return(t),
             UNCHANGED calls, call[t].stage # "idle"
      PROVE  Approves(t)
  <2> DEFINE a == [id |-> call[t].id, at |-> call[t].seen, when |-> clock,
                   spend |-> call[t].spend, by |-> by]
  <2>1. a \in Approval
    BY <1>4, ActiveCall DEF Approval
  <2>2. a.id = call[t].id /\ a.spend = call[t].spend
    OBVIOUS
  <2>3. approvals' = approvals \cup {a}
    BY <1>4 DEF Approve
  <2> HIDE DEF a
  <2>4. call[t] # Idle /\ call'[t] = Idle /\ OthersKept(t)
    BY <1>4, ActiveCall DEF Return, OthersKept
  <2> QED BY <1>4, <2>1, <2>2, <2>3, <2>4 DEF Approves
<1>5. CASE UNCHANGED <<call, calls, approvals>>
  BY <1>5 DEF Numbered
<1> QED
  BY <1>1, <1>2, <1>3, <1>4, <1>5
  DEF Next, Step, ClockFails, Charge, Indeterminate, TooManyPrompts, Confirm, Decline,
      Tick, vars

(* Numbers stay one call's.                                                *)
LEMMA NumbersStep == TypeOK /\ CallsAreNumbered /\ [Next]_vars => CallsAreNumbered'
<1> SUFFICES ASSUME TypeOK, CallsAreNumbered, [Next]_vars
             PROVE  CallsAreNumbered'
  OBVIOUS
<1> USE DEF CallsAreNumbered
<1>1. /\ calls \in Nat
      /\ \A t \in Callers : call[t] # Idle => call[t].id \in Nat
      /\ \A a \in approvals : a.id \in Nat
  BY DEF TypeOK, Call, Approval
<1>2. CASE Numbered
  BY <1>2 DEF Numbered
<1>3. ASSUME NEW t \in Callers, Begins(t)
      PROVE  CallsAreNumbered'
  BY <1>1, <1>3 DEF Begins, OthersKept
<1>4. ASSUME NEW t \in Callers, Approves(t)
      PROVE  CallsAreNumbered'
  <2>1. PICK a \in Approval : /\ a.id = call[t].id /\ a.spend = call[t].spend
                              /\ approvals' = approvals \cup {a}
    BY <1>4 DEF Approves
  <2>2. IsFiniteSet(approvals')
    BY <2>1, FS_AddElement
  <2>3. call[t] # Idle
    BY <1>4 DEF Approves
  <2> QED BY <1>1, <1>4, <2>1, <2>2, <2>3 DEF Approves, OthersKept
<1> QED BY <1>2, <1>3, <1>4, NumberSteps

(***************************************************************************)
(* The inductive invariant, and what follows from it                       *)
(***************************************************************************)
IInv ==
  /\ TypeOK
  /\ ReadingsArePast
  /\ OnlyApprovalsAreCharged
  /\ LedgerRemembers
  /\ LedgerWithinCap
  /\ PromptsRemember
  /\ Sizes
  /\ CallsAreRuled
  /\ PermissionsAreEarned
  /\ CallsAreNumbered

(* The invariant holds of a new gate.                                      *)
LEMMA InitIInv == Init => IInv
<1> SUFFICES ASSUME Init PROVE IInv
  OBVIOUS
<1>1. Unattended = {} /\ Charged = {} /\ Mojos({}) = {}
  BY DEF Init, Unattended, Charged, Mojos
<1>2. LedgerWithinCap /\ Sizes
  <2>1. ledger = {} /\ prompts = {}
    BY DEF Init
  <2>2. IsFiniteSet({}) /\ Cardinality({}) = 0
    BY FS_EmptySet, Zenon
  <2>3. Worth(ledger) = 0
    BY <1>1, <2>1, <2>2, Zenon DEF Worth
  <2>4. 0 <= Cap /\ 0 <= MaxLedger /\ 0 <= MaxPrompts
    BY GateAssumption
  <2>5. LedgerWithinCap
    BY <1>1, <2>1, <2>2, <2>3, <2>4, Zenon DEF LedgerWithinCap
  <2>6. Sizes
    BY <2>1, <2>2, <2>4, Zenon DEF Sizes, LedgersAreBounded
  <2> QED BY <2>5, <2>6
<1>3. CallsAreRuled
  BY DEF Init, CallsAreRuled, Idle
<1>4. ReadingsArePast
  BY GateAssumption DEF Init, ReadingsArePast, Idle
<1>5. OnlyApprovalsAreCharged /\ LedgerRemembers /\ PromptsRemember /\ PermissionsAreEarned
  BY <1>1 DEF Init, OnlyApprovalsAreCharged, LedgerRemembers, PromptsRemember,
              PermissionsAreEarned
<1>6. CallsAreNumbered
  BY FS_EmptySet DEF Init, CallsAreNumbered
<1> QED
  BY <1>2, <1>3, <1>4, <1>5, <1>6, InitTypes, Zenon DEF IInv

(* The invariant is kept by every step.                                    *)
LEMMA StepIInv == IInv /\ [Next]_vars => IInv'
  BY TypesStep, ReadingsStep, OnlyApprovalsStep, RemembersStep, WithinCapStep,
     PromptsStep, SizesStep, RulesStep, EarnedStep, NumbersStep
  DEF IInv

(* Every reachable state of the gate satisfies the inductive invariant.    *)
THEOREM Invariance == Spec => []IInv
  BY InitIInv, StepIInv, PTL DEF Spec

(* The gate's state is always well-formed.                                 *)
THEOREM TypeCorrect == Spec => []TypeOK
  BY Invariance, PTL DEF IInv

(* What the records of the last period are worth is in the ledger.         *)
LEMMA LastPeriodIsCharged == IInv => RollingCap
<1> SUFFICES ASSUME IInv PROVE RollingCap
  OBVIOUS
<1> DEFINE R == LastPeriod(Charged, clock)
<1>1. \A r \in R : r.mojos \in Nat
  BY RecordedType DEF LastPeriod, Charged, IInv
<1>2. \A r \in R : r.mojos > 0 => r \in ledger
  BY RecordedType, GateAssumption DEF LastPeriod, Charged, IInv, LedgerRemembers
<1>3. IsFiniteSet(Mojos(ledger)) /\ Worth(ledger) <= Cap
  BY DEF IInv, LedgerWithinCap
<1>4. IsFiniteSet(Mojos(R)) /\ Worth(R) <= Worth(ledger)
  BY <1>1, <1>2, <1>3, WorthOfCharging
<1>5. Worth(R) \in Nat /\ Worth(ledger) \in Nat /\ Cap \in Nat
  BY <1>3, <1>4, WorthMonotone, GateAssumption
<1>6. Worth(R) <= Cap
  BY <1>3, <1>4, <1>5
<1> QED BY <1>6 DEF RollingCap, Charged

(* charge_the_rolling_period_cap: what is approved unattended with the     *)
(* readings of one period never totals more than the cap.                  *)
THEOREM CapHolds == Spec => []RollingCap
BY LastPeriodIsCharged, Invariance, PTL

(* charge_a_confirmation_prompt: no more ceremonies than the ceiling are   *)
(* raised with the readings of one period.                                 *)
THEOREM PromptsAreBounded == Spec => []PromptCeiling
<1>1. IInv => PromptCeiling
  <2> SUFFICES ASSUME IInv PROVE PromptCeiling
    OBVIOUS
  <2>1. LastPeriod(raised, clock) \subseteq prompts
    BY DEF LastPeriod, IInv, PromptsRemember
  <2>2. IsFiniteSet(prompts) /\ Cardinality(prompts) <= MaxPrompts
    BY DEF IInv, Sizes, LedgersAreBounded
  <2> QED BY <2>1, <2>2, FS_Subset, FS_CardinalityType, GateAssumption DEF PromptCeiling
<1> QED BY <1>1, Invariance, PTL

(* A spend that is escalated, declined or confirmed by hand uses up none   *)
(* of the unattended allowance.                                            *)
THEOREM NothingElseIsCharged == Spec => []OnlyApprovalsAreCharged
  BY Invariance, PTL DEF IInv

(* An unattended permission is within every bound of the policy, and vault *)
(* funds go only to the profile's own hot wallet.                          *)
THEOREM PermissionsEarned == Spec => []PermissionsAreEarned
  BY Invariance, PTL DEF IInv

(* MAX_LEDGER_ENTRIES bounds the ledger's length.                          *)
THEOREM LedgersBounded == Spec => []LedgersAreBounded
  BY Invariance, PTL DEF IInv, Sizes

(* The human is asked for the cap's sake only when the charges of the last *)
(* period really leave no room.                                            *)
THEOREM EscalationIsTrue == Spec => OverCapIsTrue
<1> DEFINE A == \A t \in Callers :
       call[t].stage = "charging" /\ call'[t].stage = "escalating" =>
         Worth(LastPeriod(Charged, call[t].seen)) + call[t].spend.total > Cap
<1>1. IInv /\ [Next]_vars => A
  <2> SUFFICES ASSUME IInv, [Next]_vars, NEW u \in Callers,
                      call[u].stage = "charging", call'[u].stage = "escalating"
               PROVE  Worth(LastPeriod(Charged, call[u].seen)) + call[u].spend.total > Cap
    OBVIOUS
  <2> USE DEF IInv
  <2>1. OverCap(u)
    <3> USE DEF TypeOK
    <3>1. ASSUME NEW t \in Callers, NEW s \in Spends, Authorize(t, s) PROVE FALSE
      BY <3>1 DEF Authorize
    <3>2. ASSUME NEW t \in Callers, ReadClock(t) PROVE FALSE
      BY <3>2, ActiveCall DEF ReadClock, Call
    <3>3. ASSUME NEW t \in Callers, RaisePrompt(t) PROVE FALSE
      BY <3>3 DEF RaisePrompt
    <3>4. ASSUME NEW t \in Callers, Return(t) PROVE FALSE
      BY <3>4 DEF Return, Idle
    <3>5. ASSUME NEW t \in Callers, OverCap(t) PROVE t = u
      BY <3>5 DEF OverCap
    <3> QED
      BY <3>1, <3>2, <3>3, <3>4, <3>5
      DEF Next, Step, ClockFails, Charge, Indeterminate, TooManyPrompts, Confirm, Decline,
          Tick, vars
  <2> DEFINE R == LastPeriod(Charged, call[u].seen)
  <2>2. Kept(u) \subseteq R
    BY DEF Kept, InWindow, LastPeriod, OnlyApprovalsAreCharged, Charged
  <2>3. IsFiniteSet(Mojos(R))
    BY WorthMonotone DEF LastPeriod, LedgerWithinCap
  <2>4. Worth(Kept(u)) <= Worth(R) /\ Worth(Kept(u)) \in Nat /\ Worth(R) \in Nat
    BY <2>2, <2>3, WorthMonotone
  <2>5. Worth(Kept(u)) + call[u].spend.total > Cap
    BY <2>1 DEF OverCap, Projected
  <2>6. call[u].spend.total \in Nat /\ Cap \in Nat
    BY ActiveCall, GateAssumption
  <2> HIDE DEF R
  <2>7. Worth(R) + call[u].spend.total > Cap
    BY <2>4, <2>5, <2>6
  <2> QED BY <2>7 DEF R
<1>2. IInv /\ [Next]_vars => [A]_vars
  BY <1>1
<1>3. Spec => [][A]_vars
  BY <1>2, Invariance, PTL DEF Spec
<1> QED BY <1>3 DEF OverCapIsTrue, Charged

(***************************************************************************)
(* Values                                                                  *)
(***************************************************************************)
Counted(C) == [c \in C |-> c.amount]

InAssets(coins, assets) == {c \in coins : c.asset \in assets}

(* The value of coins is the sum of their amounts.                         *)
LEMMA ValueIsSum ==
  ASSUME NEW C, IsFiniteSet(C), \A c \in C : c.amount \in Nat,
         NEW D \in SUBSET C, NEW assets
  PROVE  /\ IsFiniteSet(InAssets(D, assets)) /\ Weighs(Counted(C), InAssets(D, assets))
         /\ ValueOf(D, assets) = SumOf(Counted(C), InAssets(D, assets))
         /\ ValueOf(D, assets) \in Nat
<1> DEFINE f == Counted(C)
           S == InAssets(D, assets)
           IsSum(g) == g = [s \in SUBSET S |->
                    IF s = {} THEN 0
                    ELSE (CHOOSE x \in s : TRUE).amount + g[s \ {CHOOSE x \in s : TRUE}]]
           add == CHOOSE g : IsSum(g)
<1>1. IsFiniteSet(S)
  BY FS_Subset DEF InAssets
<1>2. Weighs(f, S)
  BY DEF Weighs, Counted, InAssets
<1>3. ValueOf(D, assets) = add[S]
  BY DEF ValueOf, MapThenSumSet, MapThenFoldSet, InAssets
<1>4. \A s \in SUBSET S : s # {} =>
        f[CHOOSE x \in s : TRUE] = (CHOOSE x \in s : TRUE).amount
  <2>1. \A s \in SUBSET S : s # {} => (CHOOSE x \in s : TRUE) \in C
    BY DEF InAssets
  <2> QED BY <2>1 DEF Counted
<1> HIDE DEF f, S
<1>5. \A g : IsSum(g) <=> Adds(g, f, S)
  <2> SUFFICES ASSUME NEW g
               PROVE  IsSum(g) <=> Adds(g, f, S)
    OBVIOUS
  <2>1. [s \in SUBSET S |->
                    IF s = {} THEN 0
                    ELSE (CHOOSE x \in s : TRUE).amount + g[s \ {CHOOSE x \in s : TRUE}]]
             = [s \in SUBSET S |->
                    IF s = {} THEN 0
                    ELSE f[CHOOSE x \in s : TRUE] + g[s \ {CHOOSE x \in s : TRUE}]]
    BY <1>4
  <2> QED BY <2>1, Zenon DEF Adds
<1>6. PICK g : Adds(g, f, S)
  BY <1>1, <1>2, AddingUp, Zenon
<1>7. Adds(add, f, S)
  <2> HIDE DEF IsSum
  <2> QED BY <1>5, <1>6, Zenon
<1> HIDE DEF add, IsSum
<1>8. add[S] = SumOf(f, S)
  BY <1>1, <1>2, <1>7, AddingUp, Zenon
<1>9. SumOf(f, S) \in Nat
  BY <1>1, <1>2, SumIsNat
<1> QED BY <1>1, <1>2, <1>3, <1>8, <1>9 DEF f, S

(* Coins and the rest of them are worth what all are; fewer, no more.      *)
LEMMA ValueSplits ==
  ASSUME NEW C, IsFiniteSet(C), \A c \in C : c.amount \in Nat, NEW assets,
         NEW D \in SUBSET C, NEW E \in SUBSET D
  PROVE  /\ ValueOf(D, assets) = ValueOf(E, assets) + ValueOf(D \ E, assets)
         /\ ValueOf(D, assets) \in Nat /\ ValueOf(E, assets) \in Nat
         /\ ValueOf(D \ E, assets) \in Nat
<1> DEFINE f == Counted(C)
           d == InAssets(D, assets)
           e == InAssets(E, assets)
<1>1. E \in SUBSET C /\ D \ E \in SUBSET C
  OBVIOUS
<1>2. e \in SUBSET d /\ d \ e = InAssets(D \ E, assets)
  BY DEF InAssets
<1> HIDE DEF f, d, e
<1>3. /\ IsFiniteSet(d) /\ Weighs(f, d) /\ ValueOf(D, assets) = SumOf(f, d)
      /\ ValueOf(D, assets) \in Nat
  BY ValueIsSum, Zenon DEF f, d
<1>4. ValueOf(E, assets) = SumOf(f, e) /\ ValueOf(E, assets) \in Nat
  BY <1>1, ValueIsSum, Zenon DEF f, e
<1>5. ValueOf(D \ E, assets) = SumOf(f, d \ e) /\ ValueOf(D \ E, assets) \in Nat
  <2>1. /\ ValueOf(D \ E, assets) = SumOf(Counted(C), InAssets(D \ E, assets))
        /\ ValueOf(D \ E, assets) \in Nat
    BY <1>1, ValueIsSum, Zenon
  <2> QED BY <1>2, <2>1 DEF f
<1>6. SumOf(f, d) = SumOf(f, e) + SumOf(f, d \ e)
  BY <1>2, <1>3, SumSplits
<1> QED BY <1>3, <1>4, <1>5, <1>6

(* The value of coins is that of those of the asset.                       *)
LEMMA ValueOfTheAsset ==
  ASSUME NEW D, NEW E, NEW assets, InAssets(D, assets) = InAssets(E, assets)
  PROVE  ValueOf(D, assets) = ValueOf(E, assets)
BY DEF ValueOf, InAssets

(* One coin is worth its amount, and none nothing.                         *)
LEMMA ValueOfOne ==
  /\ \A c, assets : c.amount \in Nat =>
       ValueOf({c}, assets) = IF c.asset \in assets THEN c.amount ELSE 0
  /\ \A assets : ValueOf({}, assets) = 0
<1>1. ASSUME NEW assets, NEW D, IsFiniteSet(D), InAssets(D, assets) = {},
             \A d \in D : d.amount \in Nat
      PROVE  ValueOf(D, assets) = 0
  <2>1. ValueOf(D, assets) = SumOf(Counted(D), InAssets(D, assets))
    BY <1>1, ValueIsSum, Zenon
  <2> QED BY <1>1, <2>1, SumOfNothing
<1>2. ASSUME NEW assets, NEW c, c.amount \in Nat
      PROVE  ValueOf({c}, assets) = IF c.asset \in assets THEN c.amount ELSE 0
  <2>1. IsFiniteSet({c}) /\ \A d \in {c} : d.amount \in Nat
    BY <1>2, FS_Singleton
  <2>2. ValueOf({c}, assets) = SumOf(Counted({c}), InAssets({c}, assets))
    BY <2>1, ValueIsSum, Zenon
  <2>3. CASE c.asset \in assets
    <3>1. InAssets({c}, assets) = {c} /\ Counted({c})[c] = c.amount
      BY <2>3 DEF InAssets, Counted
    <3> QED BY <1>2, <2>2, <2>3, <3>1, SumOfOne
  <2>4. CASE c.asset \notin assets
    <3>1. InAssets({c}, assets) = {}
      BY <2>4 DEF InAssets
    <3> QED BY <1>1, <2>1, <2>4, <3>1
  <2> QED BY <2>3, <2>4
<1>3. \A assets : InAssets({}, assets) = {}
  BY DEF InAssets
<1> QED BY <1>1, <1>2, <1>3, FS_EmptySet

(***************************************************************************)
(* What a bundle spends, makes and leaves                                  *)
(***************************************************************************)
MadeBy(s) == {Made(s.coin, o) : o \in ToSet(s.creates)}

(* The coins of a bundle are finitely many and of a natural value.         *)
LEMMA CoinsAreCountable ==
  ASSUME NEW bundle, WellFormed(bundle)
  PROVE  /\ IsFiniteSet(Spent(bundle)) /\ IsFiniteSet(Created(bundle))
         /\ \A c \in Spent(bundle) \cup Created(bundle) : c.amount \in Nat
<1>1. IsFiniteSet(Spent(bundle))
  <2> DEFINE f == [s \in bundle |-> s.coin]
  <2>1. f = [s \in bundle |-> f[s]] /\ {f[s] : s \in bundle} = Spent(bundle)
    BY DEF Spent
  <2> HIDE DEF f
  <2> QED BY <2>1, ValuesAreFinite DEF WellFormed
<1>2. ASSUME NEW s \in bundle
      PROVE  IsFiniteSet(MadeBy(s))
  <2> DEFINE f == [o \in ToSet(s.creates) |-> Made(s.coin, o)]
  <2>1. /\ f = [o \in ToSet(s.creates) |-> f[o]]
        /\ {f[o] : o \in ToSet(s.creates)} = MadeBy(s)
    BY DEF MadeBy
  <2>2. IsFiniteSet(ToSet(s.creates))
    BY DEF WellFormed
  <2> HIDE DEF f
  <2> QED BY <2>1, <2>2, ValuesAreFinite
<1>3. IsFiniteSet(Created(bundle))
  <2> DEFINE f == [s \in bundle |-> MadeBy(s)]
             T == {f[s] : s \in bundle}
  <2>1. f = [s \in bundle |-> f[s]] /\ UNION T = Created(bundle)
    BY DEF Created, MadeBy
  <2>2. \A t \in T : IsFiniteSet(t)
    BY <1>2
  <2> HIDE DEF f
  <2>3. IsFiniteSet(T)
    BY <2>1, ValuesAreFinite DEF WellFormed
  <2> HIDE DEF T
  <2> QED BY <2>1, <2>2, <2>3, FS_UNION
<1>4. \A c \in Spent(bundle) : c.amount \in Nat
  BY DEF Spent, WellFormed
<1>5. ASSUME NEW c \in Created(bundle)
      PROVE  c.amount \in Nat
  <2>1. PICK s \in bundle : \E o \in ToSet(s.creates) : c = Made(s.coin, o)
    BY DEF Created
  <2>2. PICK o \in ToSet(s.creates) : c = Made(s.coin, o)
    BY <2>1
  <2>3. c.amount = o.amount
    BY <2>2 DEF Made
  <2> QED BY <2>2, <2>3 DEF WellFormed
<1> QED BY <1>1, <1>3, <1>4, <1>5

(* A path grows by one step at its end.                                    *)
LEMMA PathsGrow ==
  ASSUME NEW p, NEW o, Len(p) \in Nat, p = [i \in 1 .. Len(p) |-> p[i]]
  PROVE  Front(Append(p, o)) = p /\ Len(Append(p, o)) = Len(p) + 1
<1> DEFINE X == {p[i] : i \in 1 .. Len(p)} \cup {o}
<1>1. p \in [1 .. Len(p) -> X] /\ o \in X
  OBVIOUS
<1> HIDE DEF X
<1>2. p \in Seq(X)
  BY <1>1
<1>3. Append(p, o) \in Seq(X) /\ Len(Append(p, o)) = Len(p) + 1
  BY <1>1, <1>2
<1>4. Front(Append(p, o)) = SubSeq(Append(p, o), 1, Len(p))
  BY <1>3 DEF Front
<1>5. SubSeq(Append(p, o), 1, Len(p)) = p
  BY <1>1, <1>2, <1>3
<1> QED BY <1>3, <1>4, <1>5

(* A coin that is made in a bundle is not one that it finds on the chain.  *)
LEMMA RootsAreNotMade ==
  ASSUME NEW bundle, WellFormed(bundle), NEW c \in Roots(bundle)
  PROVE  c \notin Created(bundle)
<1>1. SUFFICES ASSUME c \in Created(bundle)
               PROVE  FALSE
  OBVIOUS
<1>2. PICK s \in bundle : \E o \in ToSet(s.creates) : c = Made(s.coin, o)
  BY <1>1 DEF Created
<1> PICK o \in ToSet(s.creates) : c = Made(s.coin, o)
  BY <1>2
<1>3. c.id = Append(s.coin.id, o)
  BY DEF Made
<1>4. Front(Append(s.coin.id, o)) = s.coin.id
  <2>1. Len(s.coin.id) \in Nat /\ s.coin.id = [i \in 1 .. Len(s.coin.id) |-> s.coin.id[i]]
    BY DEF WellFormed
  <2> QED BY <2>1, PathsGrow
<1>5. s.coin \in Spent(bundle)
  BY DEF Spent
<1> QED BY <1>3, <1>4, <1>5 DEF Roots

(* What leaves a bundle is what it found less what it leaves behind: the   *)
(* coins it makes and spends come to nothing.                              *)
LEMMA WhatIsGiven ==
  ASSUME NEW bundle, WellFormed(bundle),
         Spent(bundle) \ Roots(bundle) \subseteq Created(bundle), NEW assets
  PROVE  /\ ValueOf(Spent(bundle), assets) - ValueOf(Created(bundle), assets)
              = ValueOf(Roots(bundle), assets) - ValueOf(Left(bundle), assets)
         /\ ValueOf(Roots(bundle), assets) \in Nat /\ ValueOf(Left(bundle), assets) \in Nat
         /\ ValueOf(Spent(bundle), assets) \in Nat /\ ValueOf(Created(bundle), assets) \in Nat
<1> DEFINE C == Spent(bundle) \cup Created(bundle)
           passing == Spent(bundle) \ Roots(bundle)
<1>1. IsFiniteSet(C) /\ \A c \in C : c.amount \in Nat
  BY CoinsAreCountable, FS_Union
<1>2. /\ Spent(bundle) \in SUBSET C /\ Created(bundle) \in SUBSET C
      /\ Roots(bundle) \in SUBSET Spent(bundle)
  BY DEF Roots
<1>3. passing \in SUBSET Created(bundle)
  OBVIOUS
<1>4. Created(bundle) \ passing = Left(bundle)
  BY <1>2, RootsAreNotMade DEF Left
<1>5. Spent(bundle) \ Roots(bundle) = passing
  OBVIOUS
<1> HIDE DEF C, passing
<1>6. /\ ValueOf(Spent(bundle), assets)
           = ValueOf(Roots(bundle), assets) + ValueOf(passing, assets)
      /\ ValueOf(Spent(bundle), assets) \in Nat
      /\ ValueOf(Roots(bundle), assets) \in Nat /\ ValueOf(passing, assets) \in Nat
  BY <1>1, <1>2, <1>5, ValueSplits
<1>7. /\ ValueOf(Created(bundle), assets)
           = ValueOf(passing, assets) + ValueOf(Created(bundle) \ passing, assets)
      /\ ValueOf(Created(bundle), assets) \in Nat
      /\ ValueOf(Created(bundle) \ passing, assets) \in Nat
  BY <1>1, <1>2, <1>3, ValueSplits
<1>8. ValueOf(Created(bundle) \ passing, assets) = ValueOf(Left(bundle), assets)
  BY <1>4, Zenon
<1> DEFINE a == ValueOf(Spent(bundle), assets)
           b == ValueOf(Roots(bundle), assets)
           c == ValueOf(Created(bundle), assets)
           d == ValueOf(Left(bundle), assets)
           e == ValueOf(passing, assets)
<1>9. a = b + e /\ a \in Nat /\ b \in Nat /\ e \in Nat
  BY <1>6
<1>10. c = e + d /\ c \in Nat /\ d \in Nat
  BY <1>7, <1>8
<1> HIDE DEF a, b, c, d, e
<1>11. a - c = b - d
  BY <1>9, <1>10
<1> QED BY <1>9, <1>10, <1>11 DEF a, b, c, d

(***************************************************************************)
(* What the summary shows                                                  *)
(***************************************************************************)
(* The total it weighs is what the bundle found, less what returns to an   *)
(* address it proves.                                                      *)
Returned(bundle) == {c \in Left(bundle) : c.owner \in P2Destinations(bundle)}

LEMMA TotalIsWhatDoesNotReturn ==
  ASSUME NEW bundle, WellFormed(bundle),
         Spent(bundle) \ Roots(bundle) \subseteq Created(bundle)
  PROVE  /\ NativeTotal(bundle)
              = ValueOf(Roots(bundle), {"XCH"}) - ValueOf(Returned(bundle), {"XCH"})
         /\ ValueOf(Roots(bundle), {"XCH"}) \in Nat
         /\ ValueOf(Returned(bundle), {"XCH"}) \in Nat
<1> DEFINE C == Spent(bundle) \cup Created(bundle)
<1>1. IsFiniteSet(C) /\ \A c \in C : c.amount \in Nat
  BY CoinsAreCountable, FS_Union
<1>2. Left(bundle) \in SUBSET C /\ Returned(bundle) \in SUBSET Left(bundle)
  BY DEF Left, Returned
<1>3. Left(bundle) \ Returned(bundle) = Recipients(bundle)
  BY DEF Returned, Recipients
<1> HIDE DEF C
<1> DEFINE l == ValueOf(Left(bundle), {"XCH"})
           r == ValueOf(Recipients(bundle), {"XCH"})
           b == ValueOf(Returned(bundle), {"XCH"})
           f == ValueOf(Roots(bundle), {"XCH"})
<1>4. l = b + ValueOf(Left(bundle) \ Returned(bundle), {"XCH"}) /\ b \in Nat
      /\ ValueOf(Left(bundle) \ Returned(bundle), {"XCH"}) \in Nat
  BY <1>1, <1>2, ValueSplits
<1>5. l = b + r /\ r \in Nat
  BY <1>3, <1>4, Zenon
<1>6. Donated(bundle) = f - l /\ f \in Nat /\ l \in Nat
  BY WhatIsGiven DEF Donated
<1>7. NativeTotal(bundle) = r + Donated(bundle)
  BY DEF NativeTotal
<1> HIDE DEF l, r, b, f
<1>8. NativeTotal(bundle) = f - b
  BY <1>4, <1>5, <1>6, <1>7
<1> QED BY <1>4, <1>6, <1>8 DEF f, b

(* The only address a bundle of the wallet proves is the wallet's.         *)
LEMMA OnlyTheWalletsAddress ==
  ASSUME NEW bundle, IsTheWallets(bundle)
  PROVE  P2Destinations(bundle) \in SUBSET {"me"}
<1> SUFFICES ASSUME NEW d \in P2Destinations(bundle)
             PROVE  d = "me"
  OBVIOUS
<1>1. PICK c \in Spent(bundle) : d = PuzzleHash(c) /\ d \in Addresses
  BY DEF P2Destinations
<1>2. c.owner = "me"
  BY <1>1 DEF IsTheWallets
<1>3. PuzzleHash(c) \in {"me", "wrapped for me"}
  BY <1>2 DEF PuzzleHash
<1> QED BY <1>1, <1>3 DEF Addresses

(* What returns to the address a bundle proves returns to the wallet.      *)
LEMMA ReturnedToTheWallet ==
  ASSUME NEW bundle, IsTheWallets(bundle)
  PROVE  Returned(bundle) \in SUBSET Of(Left(bundle), "me")
BY OnlyTheWalletsAddress DEF Returned, Of

(* A wallet loses no more than it is shown.                                *)
LEMMA LossIsShown ==
  ASSUME NEW bundle, WellFormed(bundle), IsTheWallets(bundle),
         Spent(bundle) \ Roots(bundle) \subseteq Created(bundle)
  PROVE  /\ NativeTotal(bundle) >= Loss(bundle, "XCH")
         /\ NativeTotal(bundle) \in Int /\ Loss(bundle, "XCH") \in Int
<1> DEFINE C == Spent(bundle) \cup Created(bundle)
<1>1. IsFiniteSet(C) /\ \A c \in C : c.amount \in Nat
  BY CoinsAreCountable, FS_Union
<1>2. /\ Left(bundle) \in SUBSET C /\ Of(Left(bundle), "me") \in SUBSET C
      /\ Roots(bundle) \in SUBSET C /\ Of(Roots(bundle), "me") \in SUBSET Roots(bundle)
  BY DEF Left, Roots, Of
<1>3. Returned(bundle) \in SUBSET Of(Left(bundle), "me")
  BY ReturnedToTheWallet
<1> HIDE DEF C
<1> DEFINE f == ValueOf(Roots(bundle), {"XCH"})
           m == ValueOf(Of(Roots(bundle), "me"), {"XCH"})
           k == ValueOf(Of(Left(bundle), "me"), {"XCH"})
           b == ValueOf(Returned(bundle), {"XCH"})
<1>4. /\ f = m + ValueOf(Roots(bundle) \ Of(Roots(bundle), "me"), {"XCH"})
      /\ f \in Nat /\ m \in Nat
      /\ ValueOf(Roots(bundle) \ Of(Roots(bundle), "me"), {"XCH"}) \in Nat
  BY <1>1, <1>2, ValueSplits
<1>5. /\ k = b + ValueOf(Of(Left(bundle), "me") \ Returned(bundle), {"XCH"})
      /\ k \in Nat /\ b \in Nat
      /\ ValueOf(Of(Left(bundle), "me") \ Returned(bundle), {"XCH"}) \in Nat
  BY <1>1, <1>2, <1>3, ValueSplits
<1>6. NativeTotal(bundle) = f - b
  BY TotalIsWhatDoesNotReturn
<1>7. Loss(bundle, "XCH") = m - k
  BY DEF Loss
<1> HIDE DEF f, m, k, b
<1> QED BY <1>4, <1>5, <1>6, <1>7

(* A bundle that ends with none of the wallet's singletons melts one: the  *)
(* last of a lineage that it spends makes no other.                        *)
LEMMA MeltsAreShown ==
  ASSUME NEW bundle, WellFormed(bundle), Singular(Roots(bundle)) # {},
         Singular(Left(bundle)) = {}
  PROVE  Melts(bundle) # {}
<1>1. SUFFICES ASSUME Melts(bundle) = {}
               PROVE  FALSE
  OBVIOUS
<1> DEFINE lineage == Singular(Spent(bundle))
           depths  == {Len(c.id) : c \in lineage}
           f       == [c \in lineage |-> Len(c.id)]
<1>2. lineage # {} /\ lineage \in SUBSET Spent(bundle)
  BY DEF Singular, Roots
<1>3. \A c \in lineage : Len(c.id) \in Nat /\ c.id = [i \in 1 .. Len(c.id) |-> c.id[i]]
  BY DEF Singular, Spent, WellFormed
<1>4. IsFiniteSet(lineage)
  BY <1>2, CoinsAreCountable, FS_Subset
<1>5. f = [c \in lineage |-> f[c]] /\ {f[c] : c \in lineage} = depths
  OBVIOUS
<1> HIDE DEF lineage, f
<1>6. IsFiniteSet(depths)
  <2>1. f = [c \in lineage |-> f[c]]
    BY <1>5, Zenon
  <2>2. IsFiniteSet({f[c] : c \in lineage})
    BY <1>4, <2>1, ValuesAreFinite, Zenon
  <2> QED BY <1>5, <2>2
<1>7. depths # {} /\ depths \in SUBSET Int
  <2>1. depths \in SUBSET Int
    BY <1>3
  <2>2. \A c \in lineage : Len(c.id) \in depths
    OBVIOUS
  <2> HIDE DEF depths
  <2> QED BY <1>2, <2>1, <2>2
<1>8. PICK n \in depths : \A m \in depths : m <= n
  BY <1>6, <1>7, LargestExists
<1>9. PICK c \in lineage : n = Len(c.id)
  OBVIOUS
<1>10. PICK s \in bundle : c = s.coin
  BY <1>2 DEF Spent
<1>11. c.owner \in Singletons /\ c.owner \in {o.owner : o \in ToSet(s.creates)}
  <2>1. c.owner \in Singletons
    BY DEF lineage, Singular
  <2>2. s.coin.owner \notin {o.owner : o \in ToSet(s.creates)} =>
          s \in {t \in bundle : /\ t.coin.owner \in Singletons
                               /\ t.coin.owner \notin {o.owner : o \in ToSet(t.creates)}}
    BY <1>10, <2>1, Zenon
  <2>3. s.coin.owner \notin {o.owner : o \in ToSet(s.creates)} => s.coin \in Melts(bundle)
    BY <2>2, Zenon DEF Melts
  <2> QED BY <1>1, <1>10, <2>1, <2>3, Zenon
<1>12. PICK o \in ToSet(s.creates) : c.owner = o.owner
  BY <1>11
<1> DEFINE d == Made(c, o)
<1>13. d \in Created(bundle) /\ d.owner \in Singletons /\ d.id = Append(c.id, o)
  <2>1. d \in {Made(s.coin, x) : x \in ToSet(s.creates)}
    BY <1>10, <1>12
  <2>2. d \in Created(bundle)
    BY <1>10, <2>1 DEF Created
  <2>3. d.owner = o.owner /\ d.id = Append(c.id, o)
    BY DEF Made
  <2> QED BY <1>11, <1>12, <2>2, <2>3
<1>14. d \in lineage
  BY <1>13 DEF lineage, Singular, Left
<1>15. Len(d.id) = n + 1
  BY <1>3, <1>9, <1>13, PathsGrow
<1>16. n + 1 \in depths /\ n \in Nat
  BY <1>3, <1>9, <1>14, <1>15
<1> QED BY <1>8, <1>16

(* Another asset that leaves the wallet is on a line: if there is no such  *)
(* line, all of it that is left is the wallet's, and none is made or lost. *)
LEMMA OtherAssetsAreShown ==
  ASSUME NEW bundle, WellFormed(bundle), IsTheWallets(bundle),
         Spent(bundle) \ Roots(bundle) \subseteq Created(bundle),
         ValueOf(Spent(bundle), {"DIG"}) = ValueOf(Created(bundle), {"DIG"}),
         Loss(bundle, "DIG") > 0
  PROVE  MovesOtherAssets(bundle)
<1>1. SUFFICES ASSUME ~MovesOtherAssets(bundle)
               PROVE  FALSE
  OBVIOUS
<1> DEFINE C == Spent(bundle) \cup Created(bundle)
<1>2. IsFiniteSet(C) /\ \A c \in C : c.amount \in Nat
  BY CoinsAreCountable, FS_Union
<1>3. Left(bundle) \in SUBSET C /\ Roots(bundle) \in SUBSET C
  BY DEF Left, Roots
<1>4. ASSUME NEW c \in Left(bundle), c.asset = "DIG"
      PROVE  c.owner = "me"
  <2>1. c \in Returned(bundle)
    BY <1>1, <1>4 DEF MovesOtherAssets, Recipients, Returned
  <2> QED BY <2>1, ReturnedToTheWallet DEF Of
<1>5. InAssets(Left(bundle), {"DIG"}) = InAssets(Of(Left(bundle), "me"), {"DIG"})
  BY <1>4 DEF InAssets, Of
<1> HIDE DEF C
<1> DEFINE f == ValueOf(Roots(bundle), {"DIG"})
           m == ValueOf(Of(Roots(bundle), "me"), {"DIG"})
           l == ValueOf(Left(bundle), {"DIG"})
           k == ValueOf(Of(Left(bundle), "me"), {"DIG"})
<1>6. l = k
  BY <1>5 DEF ValueOf, InAssets
<1>7. /\ f = m + ValueOf(Roots(bundle) \ Of(Roots(bundle), "me"), {"DIG"})
      /\ m \in Nat /\ ValueOf(Roots(bundle) \ Of(Roots(bundle), "me"), {"DIG"}) \in Nat
  <2>1. Of(Roots(bundle), "me") \in SUBSET Roots(bundle)
    BY DEF Of
  <2> QED BY <1>2, <1>3, <2>1, ValueSplits
<1> DEFINE s == ValueOf(Spent(bundle), {"DIG"})
<1>8. s - s = f - l /\ f \in Nat /\ l \in Nat /\ s \in Nat
  BY WhatIsGiven
<1>9. Loss(bundle, "DIG") = m - k
  BY DEF Loss
<1> HIDE DEF f, m, l, k, s
<1> QED BY <1>6, <1>7, <1>8, <1>9

(* What the wallet loses is shown, whatever the bundle.                    *)
LEMMA EveryLossIsShown ==
  ASSUME NEW bundle, WellFormed(bundle), IsTheWallets(bundle),
         Spent(bundle) \ Roots(bundle) \subseteq Created(bundle),
         ValueOf(Spent(bundle), {"DIG"}) = ValueOf(Created(bundle), {"DIG"})
  PROVE  Shows(bundle)
BY LossIsShown, OtherAssetsAreShown, MeltsAreShown DEF Shows

(***************************************************************************)
(* Every loss is shown                                                     *)
(***************************************************************************)
(* A coin of the purse is on the chain, and the wallet's.                  *)
LEMMA CoinsOfThePurse ==
  ASSUME NEW c \in Purse
  PROVE  /\ c.id = <<c.id[1]>> /\ Len(c.id) = 1 /\ c.id = [i \in 1 .. Len(c.id) |-> c.id[i]]
         /\ c.owner = "me" /\ c.amount \in Nat \ {0} /\ c.asset \in {"XCH", "DIG"}
<1>1. c = OnChain(c.id[1], "me", c.amount, c.asset)
  BY PurseAssumption
<1>2. c.id = <<c.id[1]>> /\ c.owner = "me"
  BY <1>1 DEF OnChain
<1>3. Len(c.id) = 1
  BY <1>2
<1>4. c.id = [i \in 1 .. Len(c.id) |-> c.id[i]]
  BY <1>2, <1>3
<1> QED BY <1>2, <1>3, <1>4, PurseAssumption

(* The elements of short sequences.                                        *)
LEMMA FewElements ==
  /\ ToSet(<<>>) = {}
  /\ \A o : ToSet(<<o>>) = {o}
  /\ \A o, u : ToSet(<<o, u>>) = {o, u}
BY DEF ToSet

(* A spend of a coin of the purse, and of what.                            *)
Ordinary(s) ==
  /\ s.coin \in Purse
  /\ \/ s.creates = <<>>
     \/ \E o : s.creates = <<o>> /\ o.amount \in Nat
     \/ \E o, u : s.creates = <<o, u>> /\ o.amount \in Nat /\ u.amount \in Nat

(* A bundle of them is a bundle of the wallet.                             *)
LEMMA OrdinaryBundles ==
  ASSUME NEW bundle, IsFiniteSet(bundle), \A s \in bundle : Ordinary(s)
  PROVE  WellFormed(bundle) /\ IsTheWallets(bundle)
<1>1. ASSUME NEW s \in bundle
      PROVE  IsFiniteSet(ToSet(s.creates)) /\ \A o \in ToSet(s.creates) : o.amount \in Nat
  <2>1. CASE s.creates = <<>>
    BY <2>1, FewElements, FS_EmptySet
  <2>2. CASE \E o : s.creates = <<o>> /\ o.amount \in Nat
    <3>1. PICK o : s.creates = <<o>> /\ o.amount \in Nat
      BY <2>2
    <3>2. ToSet(s.creates) = {o}
      BY <3>1, FewElements
    <3> QED BY <3>1, <3>2, FS_Singleton
  <2>3. CASE \E o, u : s.creates = <<o, u>> /\ o.amount \in Nat /\ u.amount \in Nat
    <3>1. PICK o, u : s.creates = <<o, u>> /\ o.amount \in Nat /\ u.amount \in Nat
      BY <2>3
    <3>2. ToSet(s.creates) = {o} \cup {u}
      BY <3>1, FewElements
    <3>3. IsFiniteSet({o} \cup {u})
      BY FS_Singleton, FS_Union
    <3> QED BY <3>1, <3>2, <3>3
  <2> QED BY <2>1, <2>2, <2>3 DEF Ordinary
<1>2. \A s \in bundle : s.coin \in Purse
  BY DEF Ordinary
<1>3. WellFormed(bundle)
  BY <1>1, <1>2, CoinsOfThePurse DEF WellFormed
<1>4. ASSUME NEW c \in Spent(bundle)
      PROVE  c.owner = "me"
  <2>1. c \in Purse
    BY <1>2 DEF Spent
  <2> QED BY <2>1, CoinsOfThePurse
<1>5. IsTheWallets(bundle)
  BY <1>4 DEF IsTheWallets
<1> QED BY <1>3, <1>5

(* A payment is of one mojo or more, and of no more than there is.         *)
LEMMA PaymentsPay ==
  ASSUME NEW n, NEW asset, NEW o \in Payments(n, asset)
  PROVE  o.amount \in 1 .. n
<1>1. PICK x \in {"me", "payee", "wrapped for me"} \X (1 .. n) : o = Output(x[1], x[2], asset)
  BY DEF Payments
<1> QED BY <1>1 DEF Output

(* Whatever is made of one or two coins of the purse is one.               *)
LEMMA CraftedIsOrdinary ==
  ASSUME NEW b \in Crafted
  PROVE  Accountable(b) /\ IsFiniteSet(b) /\ \A s \in b : Ordinary(s)
<1>1. Accountable(b)
  BY DEF Crafted
<1>2. PICK c \in Purse : b \in CraftedOf(c)
  BY DEF Crafted
<1> DEFINE outs == Payments(c.amount, c.asset)
           made == {<<>>} \cup {<<o>> : o \in outs} \cup {<<x[1], x[2]>> : x \in outs \X outs}
           few  == {E \in SUBSET (Purse \ {c}) : Cardinality(E) <= 1}
           kept(d) == Spending(d, <<Output("me", d.amount, d.asset)>>)
<1>3. PICK m \in made : b \in {{Spending(c, m)} \cup {kept(d) : d \in D} : D \in few}
  BY <1>2 DEF CraftedOf
<1>4. PICK D \in few : b = {Spending(c, m)} \cup {kept(d) : d \in D}
  BY <1>3
<1>5. ASSUME NEW o \in outs
      PROVE  o.amount \in Nat
  <2>1. o.amount \in 1 .. c.amount
    BY PaymentsPay
  <2> QED BY <2>1, CoinsOfThePurse
<1>6. Ordinary(Spending(c, m))
  <2>1. Spending(c, m).coin = c /\ Spending(c, m).creates = m
    BY DEF Spending
  <2>2. CASE m = <<>>
    BY <2>1, <2>2 DEF Ordinary
  <2>3. CASE m \in {<<o>> : o \in outs}
    BY <1>5, <2>1, <2>3 DEF Ordinary
  <2>4. CASE m \in {<<x[1], x[2]>> : x \in outs \X outs}
    <3>1. PICK x \in outs \X outs : m = <<x[1], x[2]>>
      BY <2>4
    <3>2. x[1] \in outs /\ x[2] \in outs
      BY <3>1
    <3> QED BY <1>5, <2>1, <3>1, <3>2 DEF Ordinary
  <2> QED BY <2>2, <2>3, <2>4
<1>7. ASSUME NEW d \in D
      PROVE  Ordinary(kept(d))
  <2>1. d \in Purse
    OBVIOUS
  <2>2. kept(d).coin = d /\ kept(d).creates = <<Output("me", d.amount, d.asset)>>
    BY DEF Spending
  <2>3. Output("me", d.amount, d.asset).amount \in Nat
    BY <2>1, CoinsOfThePurse DEF Output
  <2> QED BY <2>1, <2>2, <2>3 DEF Ordinary
<1>8. IsFiniteSet(b)
  <2> DEFINE f == [d \in D |-> kept(d)]
  <2>1. D \in SUBSET Purse /\ {f[d] : d \in D} = {kept(d) : d \in D} /\ f = [d \in D |-> f[d]]
    OBVIOUS
  <2> HIDE DEF f, kept, few, made, outs
  <2>2. IsFiniteSet(D)
    BY <2>1, FS_Subset, PurseAssumption, Zenon
  <2>3. IsFiniteSet({f[d] : d \in D})
    <3>1. f = [d \in D |-> f[d]]
      BY <2>1, Zenon
    <3> QED BY <2>2, <3>1, ValuesAreFinite, Zenon
  <2>4. IsFiniteSet({Spending(c, m)})
    BY FS_Singleton, Zenon
  <2> QED BY <1>4, <2>1, <2>3, <2>4, FS_Union, Zenon
<1>9. \A s \in b : Ordinary(s)
  <2> HIDE DEF kept, few, made, outs
  <2> QED BY <1>4, <1>6, <1>7
<1> QED BY <1>1, <1>8, <1>9

(* A melt ends the profile's two singletons, and makes nothing.            *)
LEMMA MeltIsWhole ==
  /\ WellFormed(MeltBundle) /\ IsTheWallets(MeltBundle)
  /\ Spent(MeltBundle) \ Roots(MeltBundle) \subseteq Created(MeltBundle)
  /\ ValueOf(Spent(MeltBundle), {"DIG"}) = ValueOf(Created(MeltBundle), {"DIG"})
<1>1. /\ Spent(MeltBundle) = {Did, Store}
      /\ \A s \in MeltBundle : s.creates = <<>> /\ s.coin \in {Did, Store}
  BY DEF MeltBundle, Spent, Spending
<1>2. Created(MeltBundle) = {}
  BY <1>1, FewElements DEF Created
<1>3. /\ Did.id = <<"did">> /\ Store.id = <<"store">> /\ Did.owner = "did"
      /\ Store.owner = "store" /\ \A c \in {Did, Store} : c.amount = 1 /\ c.asset = "XCH"
  BY DEF Did, Store, OnChain
<1>4. ASSUME NEW c \in {Did, Store}
      PROVE  Len(c.id) = 1 /\ c.id = [i \in 1 .. Len(c.id) |-> c.id[i]]
  <2>1. c.id = <<c.id[1]>>
    BY <1>3
  <2>2. Len(c.id) = 1
    BY <2>1
  <2> QED BY <2>1, <2>2
<1>5. WellFormed(MeltBundle)
  <2>1. IsFiniteSet({Spending(Did, <<>>)} \cup {Spending(Store, <<>>)})
    BY FS_Singleton, FS_Union, Zenon
  <2>2. IsFiniteSet(MeltBundle)
    BY <2>1 DEF MeltBundle
  <2>3. IsFiniteSet(ToSet(<<>>))
    BY FewElements, FS_EmptySet, Zenon
  <2>4. \A s \in MeltBundle : s.coin.amount = 1
    BY <1>1, <1>3
  <2> QED BY <1>1, <1>4, <2>2, <2>3, <2>4, FewElements DEF WellFormed
<1>6. IsTheWallets(MeltBundle)
  BY <1>1, <1>3 DEF IsTheWallets, PuzzleHash, Addresses
<1>7. Roots(MeltBundle) = Spent(MeltBundle)
  <2>1. ASSUME NEW c \in {Did, Store}, NEW d \in {Did, Store}
        PROVE  Front(c.id) # d.id
    <3>1. c.id = Append(<<>>, c.id[1])
      BY <1>3
    <3>2. Len(<<>>) = 0 /\ <<>> = [i \in 1 .. Len(<<>>) |-> <<>>[i]]
      OBVIOUS
    <3>3. Front(c.id) = <<>>
      BY <3>1, <3>2, PathsGrow
    <3> QED BY <1>4, <3>2, <3>3
  <2> QED BY <1>1, <2>1 DEF Roots
<1>8. InAssets(Spent(MeltBundle), {"DIG"}) = InAssets(Created(MeltBundle), {"DIG"})
  BY <1>1, <1>2, <1>3 DEF InAssets
<1> QED BY <1>5, <1>6, <1>7, <1>8 DEF ValueOf, InAssets

(* The summary shows every loss.                                           *)
LEMMA AllLossesAreShown == LossesAreShown
<1>1. ASSUME NEW b \in Crafted
      PROVE  Shows(b)
  BY CraftedIsOrdinary, OrdinaryBundles, EveryLossIsShown DEF Accountable, Lands
<1>2. Shows(MeltBundle)
  BY MeltIsWhole, EveryLossIsShown
<1> QED BY <1>1, <1>2 DEF LossesAreShown

(***************************************************************************)
(* Of a transfer the request is shown                                      *)
(***************************************************************************)
(* What the selector counts coins of the purse to be worth.                *)
LEMMA TotalIsValue ==
  ASSUME NEW asset, NEW S \in SUBSET Own(asset)
  PROVE  Selection!Total(Listing(asset), S) = ValueOf(S, {asset})
<1> DEFINE listing == Listing(asset)
           f == Counted(Purse)
           IsSum(g) == g = [s \in SUBSET S |->
                    IF s = {} THEN 0
                    ELSE listing[CHOOSE x \in s : TRUE].amount + g[s \ {CHOOSE x \in s : TRUE}]]
           add == CHOOSE g : IsSum(g)
<1>1. S \in SUBSET Purse /\ InAssets(S, {asset}) = S
  BY DEF Own, InAssets
<1>2. /\ IsFiniteSet(S) /\ Weighs(f, S) /\ ValueOf(S, {asset}) = SumOf(f, S)
  <2>1. IsFiniteSet(Purse) /\ \A c \in Purse : c.amount \in Nat
    BY PurseAssumption
  <2>2. /\ IsFiniteSet(InAssets(S, {asset})) /\ Weighs(Counted(Purse), InAssets(S, {asset}))
        /\ ValueOf(S, {asset}) = SumOf(Counted(Purse), InAssets(S, {asset}))
    BY <1>1, <2>1, ValueIsSum, Zenon
  <2> QED BY <1>1, <2>2
<1>3. Selection!Total(Listing(asset), S) = add[S]
  BY DEF Selection!Total, Selection!MapThenSumSet, Selection!MapThenFoldSet
<1>4. \A c \in S : listing[c].amount = f[c]
  BY <1>1 DEF Listing, Own, Counted
<1> HIDE DEF f, listing
<1>5. \A s \in SUBSET S : s # {} =>
        f[CHOOSE x \in s : TRUE] = listing[CHOOSE x \in s : TRUE].amount
  <2>1. \A s \in SUBSET S : s # {} => (CHOOSE x \in s : TRUE) \in S
    OBVIOUS
  <2> QED BY <1>4, <2>1
<1>6. \A g : IsSum(g) <=> Adds(g, f, S)
  <2> SUFFICES ASSUME NEW g
               PROVE  IsSum(g) <=> Adds(g, f, S)
    OBVIOUS
  <2>1. [s \in SUBSET S |->
                    IF s = {} THEN 0
                    ELSE listing[CHOOSE x \in s : TRUE].amount + g[s \ {CHOOSE x \in s : TRUE}]]
             = [s \in SUBSET S |->
                    IF s = {} THEN 0
                    ELSE f[CHOOSE x \in s : TRUE] + g[s \ {CHOOSE x \in s : TRUE}]]
    BY <1>5
  <2> QED BY <2>1, Zenon DEF Adds
<1>7. PICK g : Adds(g, f, S)
  BY <1>2, AddingUp, Zenon
<1>8. Adds(add, f, S)
  <2> HIDE DEF IsSum
  <2> QED BY <1>6, <1>7, Zenon
<1> HIDE DEF add, IsSum
<1>9. add[S] = SumOf(f, S)
  BY <1>2, <1>8, AddingUp, Zenon
<1> QED BY <1>2, <1>3, <1>9

(* Coins that are selected are the purse's, and cover what is asked for.   *)
LEMMA SelectionCovers ==
  ASSUME NEW asset, NEW required, NEW shortfall,
         NEW coins \in Selected(Selection!SelectMany(Listing(asset), {}, required, shortfall)),
         shortfall # "Chosen"
  PROVE  coins \in SUBSET Own(asset) /\ ValueOf(coins, {asset}) >= required
<1> DEFINE listing == Listing(asset)
           owned == Selection!Spendable(listing)
           free == owned \ {}
<1>1. PICK a \in Selection!SelectMany(listing, {}, required, shortfall) :
        a.verdict = "Chosen" /\ a.coins = coins
  BY DEF Selected
<1>2. owned = Own(asset)
  BY DEF Selection!Spendable, Listing, Own
<1>3. a \in Selection!FewestInputs(listing, free, required)
  <2>1. \A why : why # "Chosen" => a # Selection!Refused(why)
    BY <1>1 DEF Selection!Refused
  <2> QED BY <1>1, <2>1 DEF Selection!SelectMany
<1>4. CASE Selection!Covering(listing, free, required) # {}
  <2>1. PICK c \in Selection!SmallestCovering(listing, free, required) :
          a = Selection!Chosen({c})
    BY <1>3, <1>4 DEF Selection!FewestInputs
  <2>2. c \in Own(asset) /\ listing[c].amount >= required
    BY <1>2, <2>1 DEF Selection!SmallestCovering, Selection!Covering
  <2>3. coins = {c}
    BY <1>1, <2>1 DEF Selection!Chosen
  <2>4. listing[c].amount = c.amount /\ c \in Purse
    BY <2>2 DEF Listing, Own
  <2>5. c.amount \in Nat /\ c.asset = asset
    BY <2>2, PurseAssumption DEF Own
  <2>6. ValueOf({c}, {asset}) = c.amount
    BY <2>5, ValueOfOne
  <2> QED BY <2>2, <2>3, <2>4, <2>6
<1>5. CASE Selection!Covering(listing, free, required) = {}
  <2>1. PICK P \in Selection!LargestFirst(listing, free, required) :
          a \in {Selection!Refused("TooManyInputCoins"), Selection!Chosen(P)}
    BY <1>3, <1>5 DEF Selection!FewestInputs
  <2>2. coins = P
    BY <1>1, <2>1 DEF Selection!Chosen, Selection!Refused
  <2>3. P \in SUBSET Own(asset) /\ Selection!Total(listing, P) >= required
    BY <1>2, <2>1 DEF Selection!LargestFirst
  <2> QED BY <2>2, <2>3, TotalIsValue
<1> QED BY <1>4, <1>5

(* A fee is paid by nothing, or by one coin that covers it.                *)
LEMMA FeeIsCovered ==
  ASSUME NEW fee, NEW coins \in Selected(Selection!FeeSelect(Listing("XCH"), {}, fee))
  PROVE  \/ coins = {} /\ fee = 0
         \/ \E c \in Own("XCH") : coins = {c} /\ c.amount >= fee
<1> DEFINE listing == Listing("XCH")
           owned == Selection!Spendable(listing)
           free == owned \ {}
<1>1. PICK a \in Selection!FeeSelect(listing, {}, fee) :
        a.verdict = "Chosen" /\ a.coins = coins
  BY DEF Selected
<1>2. owned = Own("XCH")
  BY DEF Selection!Spendable, Listing, Own
<1>3. CASE fee = 0
  BY <1>1, <1>3 DEF Selection!FeeSelect, Selection!Chosen
<1>4. CASE fee # 0
  <2>1. \A why : why # "Chosen" => a # Selection!Refused(why)
    BY <1>1 DEF Selection!Refused
  <2>2. a \in Selection!SelectOne(listing, {}, fee)
    BY <1>1, <1>4, <2>1 DEF Selection!FeeSelect
  <2>3. PICK c \in Selection!SmallestCovering(listing, free, fee) : a = Selection!Chosen({c})
    BY <2>1, <2>2 DEF Selection!SelectOne
  <2>4. c \in Own("XCH") /\ listing[c].amount >= fee
    BY <1>2, <2>3 DEF Selection!SmallestCovering, Selection!Covering
  <2>5. coins = {c}
    BY <1>1, <2>3 DEF Selection!Chosen
  <2>6. listing[c].amount = c.amount
    BY <2>4 DEF Listing, Own
  <2> QED BY <2>4, <2>5, <2>6
<1> QED BY <1>3, <1>4

(* The lead is one of the coins.                                           *)
LEMMA LeadIsOne ==
  ASSUME NEW coins \in SUBSET Purse, coins # {}
  PROVE  Lead(coins) \in coins
<1> DEFINE f == [c \in coins |-> 0 - c.amount]
           less == {f[c] : c \in coins}
<1>1. \A c \in coins : c.amount \in Nat
  BY PurseAssumption
<1>2. \A c \in coins : f[c] \in Int /\ f[c] = 0 - c.amount
  BY <1>1
<1>3. IsFiniteSet(coins)
  BY PurseAssumption, FS_Subset, Zenon
<1>4. f = [c \in coins |-> f[c]]
  OBVIOUS
<1> HIDE DEF f
<1>5. IsFiniteSet(less)
  BY <1>3, <1>4, ValuesAreFinite, Zenon
<1>6. less \in SUBSET Int /\ less # {}
  BY <1>2
<1>7. PICK m \in less : \A n \in less : n <= m
  BY <1>5, <1>6, LargestExists
<1>8. PICK c \in coins : m = f[c]
  OBVIOUS
<1>9. ASSUME NEW d \in coins
      PROVE  c.amount <= d.amount
  <2>1. f[d] <= f[c]
    BY <1>7, <1>8
  <2> QED BY <1>1, <1>2, <2>1
<1>10. \E x \in coins : \A d \in coins : x.amount <= d.amount
  BY <1>9
<1> QED BY <1>10 DEF Lead

(* A bundle of coins of the purse finds all it spends, and leaves all it   *)
(* makes.                                                                  *)
LEMMA NothingPassesThrough ==
  ASSUME NEW bundle, \A s \in bundle : Ordinary(s)
  PROVE  Roots(bundle) = Spent(bundle) /\ Left(bundle) = Created(bundle)
<1>1. ASSUME NEW c \in Spent(bundle)
      PROVE  c \in Purse
  BY DEF Spent, Ordinary
<1>2. ASSUME NEW c \in Purse, NEW d \in Purse
      PROVE  Front(c.id) # d.id
  <2>1. c.id = <<c.id[1]>> /\ Len(d.id) = 1
    BY CoinsOfThePurse
  <2>2. c.id = Append(<<>>, c.id[1])
    BY <2>1
  <2>3. Len(<<>>) = 0 /\ <<>> = [i \in 1 .. Len(<<>>) |-> <<>>[i]]
    OBVIOUS
  <2>4. Front(c.id) = <<>>
    BY <2>2, <2>3, PathsGrow
  <2> DEFINE nothing == <<>>
  <2>5. Front(c.id) = nothing /\ Len(nothing) = 0
    BY <2>4
  <2> HIDE DEF nothing
  <2> QED BY <2>1, <2>5
<1>3. ASSUME NEW c \in Created(bundle)
      PROVE  c \notin Purse
  <2>1. PICK s \in bundle : \E o \in ToSet(s.creates) : c = Made(s.coin, o)
    BY DEF Created
  <2>2. PICK o \in ToSet(s.creates) : c = Made(s.coin, o)
    BY <2>1
  <2>3. s.coin \in Purse /\ c.id = Append(s.coin.id, o)
    BY <2>2 DEF Ordinary, Made
  <2>4. /\ Len(s.coin.id) = 1
        /\ s.coin.id = [i \in 1 .. Len(s.coin.id) |-> s.coin.id[i]]
    BY <2>3, CoinsOfThePurse
  <2>5. Len(c.id) = Len(s.coin.id) + 1
    BY <2>3, <2>4, PathsGrow
  <2>6. ASSUME c \in Purse
        PROVE  FALSE
    <3>1. Len(c.id) = 1
      BY <2>6, CoinsOfThePurse, Zenon
    <3> DEFINE a == Len(c.id)
               b == Len(s.coin.id)
    <3>2. a = b + 1 /\ b = 1 /\ a = 1
      BY <2>4, <2>5, <3>1, Zenon
    <3> HIDE DEF a, b
    <3> QED BY <3>2
  <2> QED BY <2>6
<1> QED BY <1>1, <1>2, <1>3 DEF Roots, Left

(* One output and then another.                                            *)
LEMMA OneAfterAnother ==
  ASSUME NEW o, NEW u
  PROVE  <<o>> \o <<>> = <<o>> /\ <<o>> \o <<u>> = <<o, u>>
<1> DEFINE S == {o, u}
           s == <<o>> \o <<u>>
           t == <<o, u>>
<1>1. o \in S /\ u \in S
  OBVIOUS
<1> HIDE DEF S
<1>2. <<o>> \o <<>> = <<o>>
  BY <1>1
<1>3. /\ s \in Seq(S) /\ t \in Seq(S) /\ Len(s) = 2 /\ Len(t) = 2
      /\ \A n \in 1 .. 2 : s[n] = t[n]
  BY <1>1
<1> HIDE DEF s, t
<1>4. s = t
  BY <1>3
<1> QED BY <1>2, <1>4 DEF s, t

(* A payment with its change is one output or two.                         *)
PaysAndKeeps(s, o, k, asset) ==
  /\ Ordinary(s)
  /\ ToSet(s.creates) = {o} \cup {x \in {Output("me", k, asset)} : k > 0}

(* The lead of a transfer makes the payment, and change if any is left.    *)
LEMMA PaymentAndChange ==
  ASSUME NEW o, o.amount \in Nat, NEW k \in Int, NEW asset,
         NEW s, s.coin \in Purse, s.creates = <<o>> \o Change(k, asset)
  PROVE  PaysAndKeeps(s, o, k, asset)
<1> DEFINE u == Output("me", k, asset)
<1>1. CASE k > 0
  <2>1. s.creates = <<o>> \o <<u>>
    BY <1>1 DEF Change
  <2>2. u.amount \in Nat
    BY <1>1 DEF Output
  <2> HIDE DEF u
  <2>3. s.creates = <<o, u>>
    BY <2>1, OneAfterAnother
  <2>4. ToSet(s.creates) = {o, u}
    BY <2>3, FewElements
  <2>5. Ordinary(s)
    BY <2>2, <2>3 DEF Ordinary
  <2>6. {x \in {u} : k > 0} = {u}
    BY <1>1
  <2> QED BY <2>4, <2>5, <2>6 DEF u, PaysAndKeeps
<1>2. CASE ~(k > 0)
  <2>1. s.creates = <<o>>
    BY <1>2, OneAfterAnother DEF Change
  <2>2. Ordinary(s) /\ ToSet(s.creates) = {o}
    BY <2>1, FewElements DEF Ordinary
  <2> QED BY <1>2, <2>2 DEF PaysAndKeeps
<1> QED BY <1>1, <1>2, Zenon

(* What the summary makes of a bundle that pays somebody, and returns the  *)
(* rest.                                                                   *)
LEMMA ThePaymentIsShown ==
  ASSUME NEW bundle, IsFiniteSet(bundle), \A s \in bundle : Ordinary(s),
         NEW pay, pay.owner = "payee", NEW mine, \A c \in mine : c.owner = "me",
         Created(bundle) = {pay} \cup mine
  PROVE  /\ pay \in Recipients(bundle) /\ Of(Left(bundle), "payee") = {pay}
         /\ "me" \in P2Destinations(bundle) =>
              Recipients(bundle) = {pay} /\ Returned(bundle) = mine
         /\ Returned(bundle) \in SUBSET mine
         /\ NativeTotal(bundle)
              = ValueOf(Spent(bundle), {"XCH"}) - ValueOf(Returned(bundle), {"XCH"})
<1>1. Roots(bundle) = Spent(bundle) /\ Left(bundle) = {pay} \cup mine
  BY NothingPassesThrough
<1>2. WellFormed(bundle) /\ IsTheWallets(bundle)
  BY OrdinaryBundles
<1>3. P2Destinations(bundle) \in SUBSET {"me"}
  BY <1>2, OnlyTheWalletsAddress
<1>4. NativeTotal(bundle)
        = ValueOf(Roots(bundle), {"XCH"}) - ValueOf(Returned(bundle), {"XCH"})
  BY <1>1, <1>2, TotalIsWhatDoesNotReturn
<1> QED BY <1>1, <1>3, <1>4 DEF Recipients, Returned, Of

(* What a spend makes.                                                     *)
LEMMA CreatedBySpends ==
  ASSUME NEW bundle
  PROVE  Created(bundle) = UNION {MadeBy(s) : s \in bundle}
BY DEF Created, MadeBy

(* The change of a payment, if any, is worth what is left.                 *)
ChangeOf(c, k, asset) == {Made(c, x) : x \in {y \in {Output("me", k, asset)} : k > 0}}

LEMMA ChangeIsWorth ==
  ASSUME NEW c, NEW k \in Nat, NEW asset
  PROVE  /\ \A x \in ChangeOf(c, k, asset) : x.owner = "me" /\ x.asset = asset
         /\ ValueOf(ChangeOf(c, k, asset), {asset}) = k
<1> DEFINE u == Output("me", k, asset)
           x == Made(c, u)
<1>1. x.owner = "me" /\ x.asset = asset /\ x.amount = k
  BY DEF Made, Output
<1>2. ChangeOf(c, k, asset) = IF k > 0 THEN {x} ELSE {}
  BY DEF ChangeOf
<1> HIDE DEF u, x
<1>3. ValueOf({x}, {asset}) = k /\ ValueOf({}, {asset}) = 0
  BY <1>1, ValueOfOne
<1> QED BY <1>1, <1>2, <1>3

(* What may be asked for, of a wallet that pays somebody.                  *)
LEMMA RequestsAsk ==
  ASSUME NEW req \in Requests, Payable("Hot", req)
  PROVE  req.to = "payee" /\ req.amount \in Nat \ {0} /\ req.fee \in Nat
<1>1. req.to \in Payees /\ req.amount \in Amounts /\ req.fee \in Fees
  BY DEF Requests
<1>2. req.amount \in Nat /\ req.fee \in Nat
  BY <1>1, NumbersAssumption
<1>3. req.amount > 0 /\ req.to # "me"
  BY DEF Payable
<1>4. req.to = "payee"
  BY <1>1, <1>3 DEF Payees
<1> QED BY <1>2, <1>3, <1>4

(* The lines of a transfer of XCH are what was asked for.                  *)
LEMMA TransferIsShown ==
  ASSUME NEW req \in Requests, NEW p \in Transfers("Hot", req)
  PROVE  IsTheRequest(Planned("transfer", p.bundle, Gets(p.to, p.amount, p.asset), p.fee, {}))
<1> DEFINE need == RequiredTotal(req)
<1>1. /\ Payable("Hot", req) /\ need <= Largest
      /\ \E coins \in Selected(Selection!TransferSelect(Listing("XCH"), {}, need)) :
           p = TransferPlan(coins, req)
  BY DEF Transfers
<1>2. PICK coins \in Selected(Selection!TransferSelect(Listing("XCH"), {}, need)) :
        p = TransferPlan(coins, req)
  BY <1>1
<1>3. req.to = "payee" /\ req.amount \in Nat \ {0} /\ req.fee \in Nat
  BY <1>1, RequestsAsk
<1>4. need \in Nat \ {0} /\ need = req.amount + req.fee
  BY <1>3 DEF RequiredTotal
<1> HIDE DEF need
<1>5. coins \in SUBSET Own("XCH") /\ ValueOf(coins, {"XCH"}) >= need
  <2>1. \E shortfall \in {"SpendabilityUnknown", "InsufficientFunds"} :
          coins \in Selected(Selection!SelectMany(Listing("XCH"), {}, need, shortfall))
    BY DEF Selection!TransferSelect
  <2>2. PICK shortfall \in {"SpendabilityUnknown", "InsufficientFunds"} :
          coins \in Selected(Selection!SelectMany(Listing("XCH"), {}, need, shortfall))
    BY <2>1
  <2> QED BY <2>2, SelectionCovers
<1>6. coins \in SUBSET Purse /\ \A c \in coins : c.asset = "XCH"
  BY <1>5 DEF Own
<1>7. /\ IsFiniteSet(coins)
      /\ ValueOf(coins, {"XCH"}) \in Nat
  <2>1. IsFiniteSet(Purse) /\ \A c \in Purse : c.amount \in Nat
    BY PurseAssumption
  <2> QED BY <1>6, <2>1, ValueIsSum, FS_Subset
<1>8. coins # {}
  BY <1>4, <1>5, ValueOfOne
<1> DEFINE lead   == Lead(coins)
           others == coins \ {lead}
           k      == ValueOf(coins, {"XCH"}) - need
           out    == Output("payee", req.amount, "XCH")
           first  == [Spending(lead, <<out>> \o Change(k, "XCH"))
                        EXCEPT !.fee = req.fee,
                               !.says = IF others = {} THEN {} ELSE {"input binding"}]
           next(c) == [Spending(c, <<>>) EXCEPT
                         !.needs = {[of |-> lead.id, said |-> "input binding"]}]
           bundle == {first} \cup {next(c) : c \in others}
           pay    == Made(lead, out)
           mine   == ChangeOf(lead, k, "XCH")
<1>9. p.bundle = bundle /\ p.to = "payee" /\ p.amount = req.amount /\ p.asset = "XCH"
      /\ p.fee = req.fee
  <2>1. /\ p.bundle = TransferBundle(coins, req) /\ p.to = req.to
        /\ p.amount = req.amount /\ p.asset = "XCH" /\ p.fee = req.fee
    BY <1>2 DEF TransferPlan
  <2>2. TransferBundle(coins, req) = bundle
    BY <1>3, Zenon DEF TransferBundle, need
  <2> QED BY <1>3, <2>1, <2>2, Zenon
<1>10. lead \in coins /\ lead \in Purse
  BY <1>6, <1>8, LeadIsOne
<1>11. k \in Nat
  BY <1>4, <1>5, <1>7
<1>12. first.coin = lead /\ first.creates = <<out>> \o Change(k, "XCH")
  BY DEF Spending
<1>13. \A c \in others : next(c).coin = c /\ next(c).creates = <<>>
  BY DEF Spending
<1>14. out.amount \in Nat
  BY <1>3 DEF Output
<1>15. pay.owner = "payee" /\ pay.amount = req.amount /\ pay.asset = "XCH"
  BY DEF Made, Output
<1>16. IsFiniteSet(bundle)
  <2> DEFINE f == [c \in others |-> next(c)]
  <2>1. IsFiniteSet(others)
    BY <1>7, FS_Subset
  <2>2. {f[c] : c \in others} = {next(c) : c \in others} /\ f = [c \in others |-> f[c]]
    OBVIOUS
  <2> HIDE DEF f, next, others, first
  <2>3. IsFiniteSet({f[c] : c \in others})
    <3>1. f = [c \in others |-> f[c]]
      BY <2>2, Zenon
    <3> QED BY <2>1, <3>1, ValuesAreFinite, Zenon
  <2>4. IsFiniteSet({first})
    BY FS_Singleton, Zenon
  <2> QED BY <2>2, <2>3, <2>4, FS_Union, Zenon
<1> HIDE DEF first, next, out, k, lead
<1>17. /\ Ordinary(first)
       /\ ToSet(first.creates) = {out} \cup {x \in {Output("me", k, "XCH")} : k > 0}
  <2>1. first.coin \in Purse /\ k \in Int
    BY <1>10, <1>11, <1>12
  <2>2. PaysAndKeeps(first, out, k, "XCH")
    BY <1>12, <1>14, <2>1, PaymentAndChange, Zenon
  <2> QED BY <2>2, Zenon DEF PaysAndKeeps
<1>18. \A s \in bundle : Ordinary(s)
  <2>1. \A c \in others : Ordinary(next(c))
    BY <1>6, <1>13 DEF Ordinary
  <2> QED BY <1>17, <2>1
<1>19. Spent(bundle) = coins
  <2>1. {next(c).coin : c \in others} = others
    BY <1>13
  <2>2. Spent(bundle) = {first.coin} \cup {next(c).coin : c \in others}
    BY DEF Spent
  <2> QED BY <1>10, <1>12, <2>1, <2>2
<1>20. Created(bundle) = {pay} \cup mine
  <2>1. \A c \in others : MadeBy(next(c)) = {}
    BY <1>13, FewElements DEF MadeBy
  <2>2. MadeBy(first) = {pay} \cup mine
    BY <1>12, <1>17 DEF MadeBy, ChangeOf
  <2>3. UNION {MadeBy(s) : s \in bundle} = MadeBy(first)
    BY <2>1
  <2> QED BY <2>2, <2>3, CreatedBySpends
<1> HIDE DEF bundle, pay, mine
<1>21. (\A c \in mine : c.owner = "me") /\ ValueOf(mine, {"XCH"}) = k
  BY <1>11, ChangeIsWorth DEF mine
<1>22. "me" \in P2Destinations(bundle)
  <2>1. lead.owner = "me" /\ lead.asset = "XCH"
    BY <1>6, <1>10, CoinsOfThePurse
  <2>2. PuzzleHash(lead) = "me"
    BY <2>1 DEF PuzzleHash
  <2> QED BY <1>10, <1>19, <2>2 DEF P2Destinations, Addresses
<1>23. /\ Recipients(bundle) = {pay} /\ Of(Left(bundle), "payee") = {pay}
       /\ NativeTotal(bundle) = ValueOf(coins, {"XCH"}) - ValueOf(mine, {"XCH"})
  BY <1>15, <1>16, <1>18, <1>19, <1>20, <1>21, <1>22, ThePaymentIsShown
<1>24. ValueOf({pay}, {"XCH"}) = req.amount
  BY <1>3, <1>15, ValueOfOne
<1>25. NativeTotal(bundle) = req.fee + ValueOf({pay}, {"XCH"})
  <2> DEFINE v == ValueOf(coins, {"XCH"})
             n == NativeTotal(bundle)
  <2>1. n = v - k /\ k = v - need /\ v \in Nat
    BY <1>7, <1>21, <1>23 DEF k
  <2> HIDE DEF v, n
  <2>2. n = req.fee + req.amount
    BY <1>3, <1>4, <2>1
  <2> QED BY <1>24, <2>2 DEF n
<1>26. Outputs(Recipients(bundle)) = Gets(p.to, p.amount, p.asset)
  <2>1. Outputs({pay}) = {Output(pay.owner, pay.amount, pay.asset)}
    BY DEF Outputs
  <2> QED BY <1>9, <1>15, <1>23, <2>1 DEF Gets
<1> QED BY <1>9, <1>23, <1>25, <1>26 DEF IsTheRequest, Planned

(* A change alone is one output or none.                                   *)
LEMMA ChangeAlone ==
  ASSUME NEW k \in Int, NEW asset, NEW s, s.coin \in Purse, s.creates = Change(k, asset)
  PROVE  Ordinary(s) /\ ToSet(s.creates) = {x \in {Output("me", k, asset)} : k > 0}
<1> DEFINE u == Output("me", k, asset)
<1>1. CASE k > 0
  <2>1. s.creates = <<u>>
    BY <1>1 DEF Change
  <2>2. u.amount \in Nat
    BY <1>1 DEF Output
  <2> HIDE DEF u
  <2>3. ToSet(s.creates) = {u} /\ Ordinary(s)
    BY <2>1, <2>2, FewElements DEF Ordinary
  <2>4. {x \in {u} : k > 0} = {u}
    BY <1>1
  <2> QED BY <2>3, <2>4 DEF u
<1>2. CASE ~(k > 0)
  <2>1. s.creates = <<>>
    BY <1>2 DEF Change
  <2> QED BY <1>2, <2>1, FewElements DEF Ordinary
<1> QED BY <1>1, <1>2

(* The lines of a CAT transfer are what was asked for, and what is weighed *)
(* of it is the fee.                                                       *)
LEMMA CatTransferIsShown ==
  ASSUME NEW req \in Requests, NEW p \in CatTransfers("Hot", req)
  PROVE  IsTheRequest(Planned("transfer", p.bundle, Gets(p.to, p.amount, p.asset), p.fee, {}))
<1>1. /\ Payable("Hot", req)
      /\ \E cats \in Selected(Selection!CatSelect(Listing("DIG"), {}, req.amount)) :
           \E fees \in Selected(Selection!FeeSelect(Listing("XCH"), {}, req.fee)) :
             p = CatTransferPlan(cats, fees, req)
  BY DEF CatTransfers
<1>2. PICK cats \in Selected(Selection!CatSelect(Listing("DIG"), {}, req.amount)) :
        \E fees \in Selected(Selection!FeeSelect(Listing("XCH"), {}, req.fee)) :
             p = CatTransferPlan(cats, fees, req)
  BY <1>1
<1>3. PICK fees \in Selected(Selection!FeeSelect(Listing("XCH"), {}, req.fee)) :
        p = CatTransferPlan(cats, fees, req)
  BY <1>2
<1>4. req.to = "payee" /\ req.amount \in Nat \ {0} /\ req.fee \in Nat
  BY <1>1, RequestsAsk
<1>5. cats \in SUBSET Own("DIG") /\ ValueOf(cats, {"DIG"}) >= req.amount
  <2>1. cats \in Selected(Selection!SelectMany(Listing("DIG"), {}, req.amount,
                                               "InsufficientFunds"))
    BY DEF Selection!CatSelect
  <2> QED BY <2>1, SelectionCovers
<1>6. \/ fees = {} /\ req.fee = 0
      \/ \E c \in Own("XCH") : fees = {c} /\ c.amount >= req.fee
  BY FeeIsCovered
<1>7. /\ cats \in SUBSET Purse /\ \A c \in cats : c.asset = "DIG"
      /\ fees \in SUBSET Purse /\ \A c \in fees : c.asset = "XCH"
  BY <1>5, <1>6 DEF Own
<1>8. /\ IsFiniteSet(cats) /\ IsFiniteSet(fees)
      /\ ValueOf(cats, {"DIG"}) \in Nat
  <2>1. IsFiniteSet(Purse) /\ \A c \in Purse : c.amount \in Nat
    BY PurseAssumption
  <2> QED BY <1>7, <2>1, ValueIsSum, FS_Subset
<1>9. cats # {}
  BY <1>4, <1>5, ValueOfOne
<1> DEFINE lead   == Lead(cats)
           others == cats \ {lead}
           k      == ValueOf(cats, {"DIG"}) - req.amount
           rest   == ValueOf(fees, {"XCH"}) - req.fee
           out    == Output("payee", req.amount, "DIG")
           first  == [Spending(lead, <<out>> \o Change(k, "DIG"))
                        EXCEPT !.says = IF fees = {} THEN {} ELSE {"fee binding"}]
           next(c) == Spending(c, <<>>)
           payer(c) == [Spending(c, Change(rest, "XCH")) EXCEPT
                          !.fee = req.fee,
                          !.needs = {[of |-> lead.id, said |-> "fee binding"]}]
           bundle == {first} \cup {next(c) : c \in others} \cup {payer(c) : c \in fees}
           pay    == Made(lead, out)
           mine   == ChangeOf(lead, k, "DIG") \cup UNION {ChangeOf(c, rest, "XCH") : c \in fees}
<1>10. /\ p.bundle = bundle /\ p.to = "payee" /\ p.amount = req.amount
       /\ p.asset = "DIG" /\ p.fee = req.fee
  <2>1. /\ p.bundle = CatBundle(cats, fees, req) /\ p.to = req.to
        /\ p.amount = req.amount /\ p.asset = "DIG" /\ p.fee = req.fee
    BY <1>3 DEF CatTransferPlan
  <2>2. CatBundle(cats, fees, req) = bundle
    BY <1>4, Zenon DEF CatBundle
  <2> QED BY <1>4, <2>1, <2>2, Zenon
<1>11. lead \in cats /\ lead \in Purse
  BY <1>7, <1>9, LeadIsOne
<1>12. k \in Nat
  BY <1>4, <1>5, <1>8
<1>13. rest \in Nat /\ ValueOf(fees, {"XCH"}) = rest + req.fee
  <2>1. CASE fees = {} /\ req.fee = 0
    BY <2>1, ValueOfOne
  <2>2. CASE \E c \in Own("XCH") : fees = {c} /\ c.amount >= req.fee
    <3>1. PICK c \in Own("XCH") : fees = {c} /\ c.amount >= req.fee
      BY <2>2
    <3>2. c.amount \in Nat /\ c.asset = "XCH"
      BY PurseAssumption DEF Own
    <3>3. ValueOf(fees, {"XCH"}) = c.amount
      BY <3>1, <3>2, ValueOfOne
    <3> QED BY <1>4, <3>1, <3>2, <3>3
  <2> QED BY <1>6, <2>1, <2>2
<1>14. first.coin = lead /\ first.creates = <<out>> \o Change(k, "DIG")
  BY DEF Spending
<1>15. \A c \in others : next(c).coin = c /\ next(c).creates = <<>>
  BY DEF Spending
<1>16. \A c \in fees : payer(c).coin = c /\ payer(c).creates = Change(rest, "XCH")
  BY DEF Spending
<1>17. out.amount \in Nat
  BY <1>4 DEF Output
<1>18. pay.owner = "payee" /\ pay.amount = req.amount /\ pay.asset = "DIG"
  BY DEF Made, Output
<1>19. IsFiniteSet(bundle)
  <2> DEFINE f == [c \in others |-> next(c)]
             g == [c \in fees |-> payer(c)]
  <2>1. IsFiniteSet(others)
    BY <1>8, FS_Subset
  <2>2. {f[c] : c \in others} = {next(c) : c \in others} /\ f = [c \in others |-> f[c]]
    OBVIOUS
  <2>3. {g[c] : c \in fees} = {payer(c) : c \in fees} /\ g = [c \in fees |-> g[c]]
    OBVIOUS
  <2> HIDE DEF f, g, next, payer, others, first
  <2>4. IsFiniteSet({f[c] : c \in others})
    <3>1. f = [c \in others |-> f[c]]
      BY <2>2, Zenon
    <3> QED BY <2>1, <3>1, ValuesAreFinite, Zenon
  <2>5. IsFiniteSet({g[c] : c \in fees})
    <3>1. IsFiniteSet(fees)
      BY <1>8, Zenon
    <3>2. g = [c \in fees |-> g[c]]
      BY <2>3, Zenon
    <3> QED BY <3>1, <3>2, ValuesAreFinite, Zenon
  <2>6. IsFiniteSet({first})
    BY FS_Singleton, Zenon
  <2>7. IsFiniteSet({first} \cup {next(c) : c \in others})
    BY <2>2, <2>4, <2>6, FS_Union, Zenon
  <2> QED BY <2>3, <2>5, <2>7, FS_Union, Zenon
<1> HIDE DEF first, next, payer, out, k, rest, lead
<1>20. /\ Ordinary(first)
       /\ ToSet(first.creates) = {out} \cup {x \in {Output("me", k, "DIG")} : k > 0}
  <2>1. first.coin \in Purse /\ k \in Int
    BY <1>11, <1>12, <1>14
  <2>2. first.creates = <<out>> \o Change(k, "DIG") /\ out.amount \in Nat
    BY <1>14, <1>17, Zenon
  <2> HIDE DEF bundle
  <2>3. PaysAndKeeps(first, out, k, "DIG")
    BY <2>1, <2>2, PaymentAndChange, Zenon
  <2> QED BY <2>3, Zenon DEF PaysAndKeeps
<1>21. ASSUME NEW c \in fees
       PROVE  /\ Ordinary(payer(c))
              /\ MadeBy(payer(c)) = ChangeOf(c, rest, "XCH")
  <2>1. payer(c).coin \in Purse /\ rest \in Int /\ payer(c).creates = Change(rest, "XCH")
    BY <1>7, <1>13, <1>16
  <2>2. /\ Ordinary(payer(c))
        /\ ToSet(payer(c).creates) = {x \in {Output("me", rest, "XCH")} : rest > 0}
    BY <2>1, ChangeAlone, Zenon
  <2> QED BY <1>16, <2>2 DEF MadeBy, ChangeOf
<1>22. \A s \in bundle : Ordinary(s)
  <2>1. \A c \in others : Ordinary(next(c))
    BY <1>7, <1>15 DEF Ordinary
  <2> QED BY <1>20, <1>21, <2>1
<1>23. Spent(bundle) = cats \cup fees
  <2>1. {next(c).coin : c \in others} = others /\ {payer(c).coin : c \in fees} = fees
    BY <1>15, <1>16
  <2>2. Spent(bundle) = {first.coin} \cup {next(c).coin : c \in others}
                          \cup {payer(c).coin : c \in fees}
    BY DEF Spent
  <2> QED BY <1>11, <1>14, <2>1, <2>2
<1>24. Created(bundle) = {pay} \cup mine
  <2>1. \A c \in others : MadeBy(next(c)) = {}
    BY <1>15, FewElements DEF MadeBy
  <2>2. MadeBy(first) = {pay} \cup ChangeOf(lead, k, "DIG")
    BY <1>14, <1>20 DEF MadeBy, ChangeOf
  <2>3. UNION {MadeBy(s) : s \in bundle}
          = MadeBy(first) \cup UNION {MadeBy(payer(c)) : c \in fees}
    BY <2>1
  <2>4. UNION {MadeBy(payer(c)) : c \in fees} = UNION {ChangeOf(c, rest, "XCH") : c \in fees}
    BY <1>21
  <2> QED BY <2>2, <2>3, <2>4, CreatedBySpends
<1>25. /\ \A c \in ChangeOf(lead, k, "DIG") : c.owner = "me" /\ c.asset = "DIG"
       /\ \A d \in fees : \A c \in ChangeOf(d, rest, "XCH") : c.owner = "me" /\ c.asset = "XCH"
  <2>1. \A c \in ChangeOf(lead, k, "DIG") : c.owner = "me" /\ c.asset = "DIG"
    BY <1>12, ChangeIsWorth, Zenon
  <2>2. ASSUME NEW d \in fees
        PROVE  \A c \in ChangeOf(d, rest, "XCH") : c.owner = "me" /\ c.asset = "XCH"
    BY <1>13, ChangeIsWorth, Zenon
  <2> QED BY <2>1, <2>2, Zenon
<1>26. \A c \in mine : c.owner = "me"
  BY <1>25
<1> HIDE DEF bundle, pay
<1>27. /\ pay \in Recipients(bundle) /\ Of(Left(bundle), "payee") = {pay}
       /\ "me" \in P2Destinations(bundle) =>
            Recipients(bundle) = {pay} /\ Returned(bundle) = mine
       /\ Returned(bundle) \in SUBSET mine
       /\ NativeTotal(bundle)
            = ValueOf(cats \cup fees, {"XCH"}) - ValueOf(Returned(bundle), {"XCH"})
  <2> HIDE DEF mine
  <2>1. /\ pay \in Recipients(bundle) /\ Of(Left(bundle), "payee") = {pay}
        /\ "me" \in P2Destinations(bundle) =>
             Recipients(bundle) = {pay} /\ Returned(bundle) = mine
        /\ Returned(bundle) \in SUBSET mine
        /\ NativeTotal(bundle)
             = ValueOf(Spent(bundle), {"XCH"}) - ValueOf(Returned(bundle), {"XCH"})
    BY <1>18, <1>19, <1>22, <1>24, <1>26, ThePaymentIsShown, Zenon
  <2> QED BY <1>23, <2>1, Zenon
<1>28. ValueOf(cats \cup fees, {"XCH"}) = rest + req.fee
  <2>1. InAssets(cats \cup fees, {"XCH"}) = InAssets(fees, {"XCH"})
    BY <1>7 DEF InAssets
  <2> QED BY <1>13, <2>1, ValueOfTheAsset
<1>29. ValueOf(Returned(bundle), {"XCH"}) = rest
  <2>1. CASE fees = {} /\ req.fee = 0
    <3>1. InAssets(Returned(bundle), {"XCH"}) = InAssets({}, {"XCH"})
      BY <1>25, <1>27, <2>1 DEF InAssets
    <3>2. ValueOf(Returned(bundle), {"XCH"}) = 0 /\ ValueOf(fees, {"XCH"}) = 0
      BY <2>1, <3>1, ValueOfTheAsset, ValueOfOne
    <3> QED BY <1>13, <2>1, <3>2
  <2>2. CASE \E c \in Own("XCH") : fees = {c} /\ c.amount >= req.fee
    <3>1. PICK c \in Own("XCH") : fees = {c}
      BY <2>2
    <3>2. PuzzleHash(c) = "me" /\ c \in Spent(bundle)
      BY <1>7, <1>23, <3>1, CoinsOfThePurse DEF PuzzleHash
    <3>3. "me" \in P2Destinations(bundle)
      BY <3>2 DEF P2Destinations, Addresses
    <3>4. InAssets(Returned(bundle), {"XCH"}) = InAssets(ChangeOf(c, rest, "XCH"), {"XCH"})
      BY <1>25, <1>27, <3>1, <3>3 DEF InAssets
    <3>5. ValueOf(ChangeOf(c, rest, "XCH"), {"XCH"}) = rest
      <4>1. rest \in Nat
        BY <1>13
      <4> QED BY <4>1, ChangeIsWorth
    <3> QED BY <3>4, <3>5, ValueOfTheAsset, Zenon
  <2> QED BY <1>6, <2>1, <2>2
<1>30. ValueOf({pay}, {"XCH"}) = 0
  BY <1>4, <1>18, ValueOfOne
<1>31. NativeTotal(bundle) = req.fee + ValueOf({pay}, {"XCH"})
  BY <1>4, <1>13, <1>27, <1>28, <1>29, <1>30
<1>32. {Output(pay.owner, pay.amount, pay.asset)} = Gets(p.to, p.amount, p.asset)
  BY <1>10, <1>18 DEF Gets
<1>33. /\ Gets(p.to, p.amount, p.asset) \subseteq Outputs(Recipients(bundle))
       /\ "me" \in P2Destinations(bundle) =>
            Outputs(Recipients(bundle)) = Gets(p.to, p.amount, p.asset)
  BY <1>27, <1>32 DEF Outputs
<1> QED BY <1>10, <1>27, <1>31, <1>33 DEF IsTheRequest, Planned

(* Of a transfer the summary shows the request.                            *)
LEMMA AllTransfersAreShown == TransfersAreShown
<1> SUFFICES ASSUME NEW p \in Transferred("Hot")
             PROVE  IsTheRequest(p)
  BY DEF TransfersAreShown
<1>1. PICK req \in Requests :
        p \in {Planned("transfer", q.bundle, Gets(q.to, q.amount, q.asset), q.fee, {}) :
                 q \in Transfers("Hot", req) \cup CatTransfers("Hot", req)}
  BY DEF Transferred
<1>2. PICK q \in Transfers("Hot", req) \cup CatTransfers("Hot", req) :
        p = Planned("transfer", q.bundle, Gets(q.to, q.amount, q.asset), q.fee, {})
  BY <1>1
<1> QED BY <1>2, TransferIsShown, CatTransferIsShown

(* The summary never shows less than the wallet loses, whatever is made of *)
(* its coins, and of a transfer it shows the request.                      *)
THEOREM NothingIsHidden == Spec => []SummaryHidesNothing
<1>1. SummaryHidesNothing
  BY AllLossesAreShown, AllTransfersAreShown DEF SummaryHidesNothing
<1> QED BY <1>1, PTL

(***************************************************************************)
(* What the cap is worth to the wallet                                     *)
(***************************************************************************)
(* What the bundles the gate knows as a spend can cost is no more than the *)
(* total the gate weighs.                                                  *)
LEMMA WorstLossIsWeighed ==
  ASSUME NEW s \in Spends
  PROVE  WorstLoss(s) \in Nat /\ WorstLoss(s) <= s.total
<1> DEFINE P == {q \in Derivable : Derived(q.bundle, q.class) = s}
           f == [p \in P |-> Loss(p.bundle, "XCH")]
           T == {0} \cup {f[p] : p \in P}
<1>1. s.total \in Nat
  BY GateAssumption DEF Spend
<1>2. ASSUME NEW p \in P
      PROVE  f[p] \in Int /\ f[p] <= s.total
  <2>1. /\ p \in Presented /\ Accountable(p.bundle) /\ Derived(p.bundle, p.class) = s
    BY DEF Derivable
  <2>2. /\ WellFormed(p.bundle) /\ IsTheWallets(p.bundle)
        /\ Spent(p.bundle) \ Roots(p.bundle) \subseteq Created(p.bundle)
    BY <2>1, PresentedAssumption DEF Accountable, Lands
  <2>3. NativeTotal(p.bundle) = s.total
    BY <2>1 DEF Derived
  <2>4. s.total >= Loss(p.bundle, "XCH") /\ Loss(p.bundle, "XCH") \in Int
    BY <2>2, <2>3, LossIsShown
  <2>5. f[p] = Loss(p.bundle, "XCH")
    OBVIOUS
  <2> HIDE DEF P, f
  <2> QED BY <1>1, <2>4, <2>5
<1>3. IsFiniteSet(P) /\ f = [p \in P |-> f[p]]
  <2>1. P \in SUBSET Presented /\ IsFiniteSet(Presented)
    BY PresentedAssumption DEF Derivable
  <2> HIDE DEF P
  <2>2. IsFiniteSet(P)
    BY <2>1, FS_Subset
  <2> QED BY <2>2
<1>4. WorstLoss(s) = Max(T)
  BY DEF WorstLoss
<1> HIDE DEF P, f
<1>5. IsFiniteSet(T)
  <2>1. IsFiniteSet({f[p] : p \in P})
    BY <1>3, ValuesAreFinite, Zenon
  <2>2. IsFiniteSet({0})
    BY FS_Singleton, Zenon
  <2> QED BY <2>1, <2>2, FS_Union, Zenon
<1>6. /\ T \in SUBSET Int /\ 0 \in T
      /\ \A x \in T : x <= s.total
  BY <1>1, <1>2
<1> HIDE DEF T
<1>7. \E m \in T : \A n \in T : m >= n
  <2>1. PICK m \in T : \A n \in T : n <= m
    BY <1>5, <1>6, LargestExists
  <2> QED BY <1>6, <2>1
<1>8. Max(T) \in T /\ \A n \in T : Max(T) >= n
  BY <1>7 DEF Max
<1>9. Max(T) \in Int /\ Max(T) >= 0 /\ Max(T) <= s.total
  BY <1>6, <1>8
<1> QED BY <1>4, <1>9

(* What calls with numbers of their own approved is what their records are *)
(* worth.                                                                  *)
LEMMA TotalsAreWorth ==
  ASSUME NEW A, IsFiniteSet(A), \A a, b \in A : a.id = b.id => a = b,
         NEW f, \A a \in A : f[a] = a.spend.total /\ a.spend.total \in Nat,
         IsFiniteSet(Mojos({Recorded(a) : a \in A}))
  PROVE  SumOf(f, A) <= Worth({Recorded(a) : a \in A})
<1> DEFINE M == Mojos({Recorded(a) : a \in A})
           U == Units(f, A)
           h == [u \in U |-> <<u[1].id, u[2]>>]
<1>1. \A u \in U : u[1] \in A /\ u[2] \in 1 .. u[1].spend.total /\ u = <<u[1], u[2]>>
  <2> SUFFICES ASSUME NEW u \in U
               PROVE  u[1] \in A /\ u[2] \in 1 .. u[1].spend.total /\ u = <<u[1], u[2]>>
    OBVIOUS
  <2>1. u \in A \X Nat /\ u[2] \in 1 .. f[u[1]]
    BY DEF Units
  <2>2. u[1] \in A /\ u = <<u[1], u[2]>>
    BY <2>1
  <2> QED BY <2>1, <2>2
<1>2. \A u \in U : h[u] \in M
  <2> SUFFICES ASSUME NEW u \in U
               PROVE  h[u] \in M
    OBVIOUS
  <2> DEFINE r == Recorded(u[1])
  <2>1. r \in {Recorded(a) : a \in A} /\ r.id = u[1].id /\ r.mojos = u[1].spend.total
    BY <1>1 DEF Recorded
  <2>2. h[u] = <<r.id, u[2]>> /\ u[2] \in 1 .. r.mojos
    BY <1>1, <2>1
  <2> HIDE DEF h, U, r
  <2> QED BY <2>1, <2>2 DEF Mojos
<1>3. \A u, v \in U : h[u] = h[v] => u = v
  <2> SUFFICES ASSUME NEW u \in U, NEW v \in U, h[u] = h[v]
               PROVE  u = v
    OBVIOUS
  <2>1. u[1].id = v[1].id /\ u[2] = v[2]
    OBVIOUS
  <2>2. u[1] = v[1]
    BY <1>1, <2>1
  <2> QED BY <1>1, <2>1, <2>2
<1>4. h = [u \in U |-> h[u]]
  OBVIOUS
<1> HIDE DEF h, U, M
<1>5. h \in [U -> M]
  BY <1>2, <1>4
<1>6. h \in Injection(U, M)
  BY <1>3, <1>5, Zenon DEF Injection, IsInjective
<1>7. Cardinality(U) <= Cardinality(M)
  BY <1>6, FS_Injection DEF M
<1> QED BY <1>7 DEF U, M, SumOf, Worth

(* The sum that the rolling cap is about.                                  *)
LEMMA LossesAddUp ==
  ASSUME NEW A, IsFiniteSet(A), \A a \in A : a.spend \in Spends
  PROVE  LET f == [a \in A |-> WorstLoss(a.spend)]
         IN  MapThenSumSet(LAMBDA a : WorstLoss(a.spend), A) = SumOf(f, A)
<1> DEFINE f == [a \in A |-> WorstLoss(a.spend)]
           IsSum(g) == g = [s \in SUBSET A |->
                    IF s = {} THEN 0
                    ELSE WorstLoss((CHOOSE x \in s : TRUE).spend)
                           + g[s \ {CHOOSE x \in s : TRUE}]]
           add == CHOOSE g : IsSum(g)
<1>1. Weighs(f, A)
  BY WorstLossIsWeighed DEF Weighs
<1>2. MapThenSumSet(LAMBDA a : WorstLoss(a.spend), A) = add[A]
  BY DEF MapThenSumSet, MapThenFoldSet
<1>3. \A s \in SUBSET A : s # {} =>
        f[CHOOSE x \in s : TRUE] = WorstLoss((CHOOSE x \in s : TRUE).spend)
  <2>1. \A s \in SUBSET A : s # {} => (CHOOSE x \in s : TRUE) \in A
    OBVIOUS
  <2> QED BY <2>1
<1> HIDE DEF f
<1>4. \A g : IsSum(g) <=> Adds(g, f, A)
  <2> SUFFICES ASSUME NEW g
               PROVE  IsSum(g) <=> Adds(g, f, A)
    OBVIOUS
  <2>1. [s \in SUBSET A |->
                    IF s = {} THEN 0
                    ELSE WorstLoss((CHOOSE x \in s : TRUE).spend)
                           + g[s \ {CHOOSE x \in s : TRUE}]]
             = [s \in SUBSET A |->
                    IF s = {} THEN 0
                    ELSE f[CHOOSE x \in s : TRUE] + g[s \ {CHOOSE x \in s : TRUE}]]
    BY <1>3
  <2> QED BY <2>1, Zenon DEF Adds
<1>5. PICK g : Adds(g, f, A)
  BY <1>1, AddingUp, Zenon
<1>6. Adds(add, f, A)
  <2> HIDE DEF IsSum
  <2> QED BY <1>4, <1>5, Zenon
<1> HIDE DEF add, IsSum
<1>7. add[A] = SumOf(f, A)
  BY <1>1, <1>6, AddingUp, Zenon
<1> QED BY <1>2, <1>7 DEF f

(* What the wallet loses by the unattended approvals of a period is within *)
(* the cap.                                                                *)
LEMMA LossIsWithinCap ==
  ASSUME IInv, Worth(LastPeriod(Charged, clock)) <= Cap
  PROVE  CapBoundsTheLoss
<1> DEFINE A == LastPeriod(Unattended, clock)
           R == {Recorded(a) : a \in A}
           lost == [a \in A |-> WorstLoss(a.spend)]
           weighed == [a \in A |-> a.spend.total]
<1>1. A \in SUBSET Unattended
  BY DEF LastPeriod
<1>2. \A a \in A : a.spend \in Spends /\ a.spend.total \in Nat
  BY <1>1, RecordedType DEF IInv, CallsAreNumbered, Unattended
<1>3. IsFiniteSet(A) /\ \A a, b \in A : a.id = b.id => a = b
  BY <1>1, FS_Subset DEF IInv, CallsAreNumbered, Unattended
<1>4. R = LastPeriod(Charged, clock)
  BY RecordedType DEF LastPeriod, Charged, IInv
<1>5. IsFiniteSet(Mojos(R)) /\ Worth(R) <= Cap /\ Worth(R) \in Nat /\ Cap \in Nat
  <2>1. R \in SUBSET Charged /\ IsFiniteSet(Mojos(Charged)) /\ Worth(R) <= Cap
    BY <1>4 DEF LastPeriod, IInv, LedgerWithinCap
  <2> HIDE DEF R
  <2> QED BY <2>1, WorthMonotone, GateAssumption
<1>6. \A a \in A : /\ lost[a] = WorstLoss(a.spend)
                   /\ weighed[a] = a.spend.total
  OBVIOUS
<1>7. CapBoundsTheLoss <=> MapThenSumSet(LAMBDA a : WorstLoss(a.spend), A) <= Cap
  BY DEF CapBoundsTheLoss
<1>8. MapThenSumSet(LAMBDA a : WorstLoss(a.spend), A) = SumOf(lost, A)
  <2> HIDE DEF A
  <2> QED BY <1>2, <1>3, LossesAddUp
<1> HIDE DEF A, R, lost, weighed
<1>9. Weighs(lost, A) /\ Weighs(weighed, A) /\ \A a \in A : lost[a] <= weighed[a]
  BY <1>2, <1>6, WorstLossIsWeighed DEF Weighs
<1>10. SumOf(lost, A) <= SumOf(weighed, A)
  BY <1>3, <1>9, SumGrows
<1>11. SumOf(weighed, A) <= Worth(R)
  BY <1>2, <1>3, <1>5, <1>6, TotalsAreWorth DEF R
<1>12. SumOf(lost, A) \in Nat /\ SumOf(weighed, A) \in Nat
  BY <1>3, <1>9, SumIsNat
<1>13. SumOf(lost, A) <= Cap
  BY <1>5, <1>10, <1>11, <1>12
<1> QED BY <1>7, <1>8, <1>13

(* The rolling cap bounds what the wallet really loses unattended, whatever*)
(* the bundles it was asked about claim.                                   *)
THEOREM CapIsTheWallets == Spec => []CapBoundsTheLoss
<1>1. IInv => CapBoundsTheLoss
  BY LastPeriodIsCharged, LossIsWithinCap DEF RollingCap, Charged
<1> QED BY <1>1, Invariance, PTL

(***************************************************************************)
(* What a bundle takes and what it makes, spend by spend                   *)
(***************************************************************************)
Countable(coins) == IsFiniteSet(coins) /\ \A c \in coins : c.amount \in Nat

(* What a coin, or an output, is worth of an asset.                        *)
Bears(c, asset) == IF c.asset = asset THEN c.amount ELSE 0

(* What a bundle spends of an asset and does not make again.               *)
Balance(bundle, asset) ==
  ValueOf(Spent(bundle), {asset}) - ValueOf(Created(bundle), {asset})

(* Coins and other coins are worth what both are.                          *)
AreBoth(D, E, assets) ==
  /\ Countable(D \cup E)
  /\ ValueOf(D \cup E, assets) = ValueOf(D, assets) + ValueOf(E, assets)

(* Coins that are no other's coins are worth, with them, the sum.          *)
LEMMA ApartAddUp ==
  ASSUME NEW D, Countable(D), NEW E, Countable(E), \A d \in D : d \notin E, NEW assets
  PROVE  AreBoth(D, E, assets)
<1> DEFINE C == D \cup E
<1>1. IsFiniteSet(C) /\ \A c \in C : c.amount \in Nat
  BY FS_Union DEF Countable
<1>2. C \ D = E /\ D \in SUBSET C /\ C \in SUBSET C
  OBVIOUS
<1> HIDE DEF C
<1>3. ValueOf(C, assets) = ValueOf(D, assets) + ValueOf(C \ D, assets)
  BY <1>1, <1>2, ValueSplits, Zenon
<1>4. /\ Countable(C)
      /\ ValueOf(C, assets) = ValueOf(D, assets) + ValueOf(E, assets)
  BY <1>1, <1>2, <1>3, Zenon DEF Countable
<1> QED BY <1>4, Zenon DEF C, AreBoth

(* Countable coins are worth a natural number.                             *)
LEMMA CountableIsNat ==
  ASSUME NEW D, Countable(D), NEW assets
  PROVE  ValueOf(D, assets) \in Nat
<1>1. D \in SUBSET D /\ IsFiniteSet(D) /\ \A c \in D : c.amount \in Nat
  BY DEF Countable
<1> QED BY <1>1, ValueIsSum, Zenon

(* One coin is worth what it bears.                                        *)
LEMMA OneCoin ==
  ASSUME NEW c, c.amount \in Nat, NEW asset
  PROVE  Countable({c}) /\ ValueOf({c}, {asset}) = Bears(c, asset) /\ Bears(c, asset) \in Nat
<1>1. ValueOf({c}, {asset}) = IF c.asset \in {asset} THEN c.amount ELSE 0
  BY ValueOfOne, Zenon
<1>2. ValueOf({c}, {asset}) = Bears(c, asset) /\ Bears(c, asset) \in Nat
  BY <1>1 DEF Bears
<1>3. Countable({c})
  BY FS_Singleton DEF Countable
<1> QED BY <1>2, <1>3

(* No coins are worth nothing.                                             *)
LEMMA NoCoin == Countable({}) /\ \A asset : ValueOf({}, {asset}) = 0
<1>1. Countable({})
  BY FS_EmptySet DEF Countable
<1>2. ASSUME NEW asset
      PROVE  ValueOf({}, {asset}) = 0
  BY ValueOfOne, Zenon
<1> QED BY <1>1, <1>2

(* One coin more is worth its amount more.                                 *)
LEMMA OneMoreCoin ==
  ASSUME NEW D, Countable(D), NEW c, c.amount \in Nat, c \notin D, NEW asset
  PROVE  /\ Countable(D \cup {c})
         /\ ValueOf(D \cup {c}, {asset}) = ValueOf(D, {asset}) + Bears(c, asset)
<1>1. \A d \in D : d \notin {c}
  OBVIOUS
<1>2. Countable({c}) /\ ValueOf({c}, {asset}) = Bears(c, asset)
  BY OneCoin, Zenon
<1>3. /\ Countable(D \cup {c})
      /\ ValueOf(D \cup {c}, {asset}) = ValueOf(D, {asset}) + ValueOf({c}, {asset})
  <2> DEFINE E == {c}
             assets == {asset}
  <2>1. Countable(E) /\ \A d \in D : d \notin E
    BY <1>1, <1>2
  <2> HIDE DEF E, assets
  <2>2. AreBoth(D, E, assets)
    BY <2>1, ApartAddUp, Zenon
  <2> QED BY <2>2, Zenon DEF E, assets, AreBoth
<1> QED BY <1>2, <1>3

(* The coins of a well-formed bundle are countable.                        *)
LEMMA BundlesAreCountable ==
  ASSUME NEW bundle, WellFormed(bundle)
  PROVE  Countable(Spent(bundle)) /\ Countable(Created(bundle))
BY CoinsAreCountable DEF Countable

(* No coin of one spend is a coin of the other, nor one that it makes.     *)
Apart(s, t) == s.coin # t.coin /\ MadeBy(s) \cap MadeBy(t) = {}

(* A spend more adds its own balance.                                      *)
AddsUp(bundle, s, asset) ==
  /\ WellFormed(bundle \cup {s})
  /\ Balance(bundle \cup {s}, asset) = Balance(bundle, asset) + Balance({s}, asset)

(* Balances add up as long as no coin is taken or made twice: this is what *)
(* turns the account of a bundle into one of its spends.                   *)
LEMMA BalanceGrows ==
  ASSUME NEW bundle, WellFormed(bundle), NEW s, WellFormed({s}),
         \A t \in bundle : Apart(s, t), NEW asset
  PROVE  AddsUp(bundle, s, asset)
<1> DEFINE more == bundle \cup {s}
           one  == {s}
<1>1. WellFormed(more)
  <2>1. IsFiniteSet(bundle) /\ IsFiniteSet({s})
    BY DEF WellFormed
  <2>2. IsFiniteSet(more)
    BY <2>1, FS_Union, Zenon
  <2> QED BY <2>2, Zenon DEF WellFormed
<1>2. /\ Spent(more) = Spent(bundle) \cup Spent(one)
      /\ Created(more) = Created(bundle) \cup Created(one)
  BY DEF Spent, Created
<1>3. \A c \in Spent(bundle) : c \notin Spent(one)
  BY DEF Spent, Apart
<1>4. \A c \in Created(bundle) : c \notin Created(one)
  <2>1. /\ Created(bundle) = UNION {MadeBy(t) : t \in bundle}
        /\ Created(one) = UNION {MadeBy(t) : t \in one}
    BY CreatedBySpends, Zenon
  <2>2. Created(one) = MadeBy(s)
    BY <2>1
  <2>3. \A t \in bundle : MadeBy(s) \cap MadeBy(t) = {}
    BY DEF Apart
  <2> QED BY <2>1, <2>2, <2>3
<1>5. /\ Countable(Spent(bundle)) /\ Countable(Created(bundle))
      /\ Countable(Spent(one)) /\ Countable(Created(one))
  BY BundlesAreCountable, Zenon
<1> HIDE DEF more, one
<1>6. /\ ValueOf(Spent(more), {asset})
           = ValueOf(Spent(bundle), {asset}) + ValueOf(Spent(one), {asset})
      /\ ValueOf(Spent(bundle), {asset}) \in Nat /\ ValueOf(Spent(one), {asset}) \in Nat
  <2> DEFINE D == Spent(bundle)
             E == Spent(one)
             assets == {asset}
  <2>1. Countable(D) /\ Countable(E) /\ \A d \in D : d \notin E
    BY <1>3, <1>5, Zenon
  <2> HIDE DEF D, E, assets
  <2>2. AreBoth(D, E, assets)
    BY <2>1, ApartAddUp, Zenon
  <2>3. ValueOf(D, assets) \in Nat /\ ValueOf(E, assets) \in Nat
    BY <2>1, CountableIsNat, Zenon
  <2> QED BY <1>2, <2>2, <2>3, Zenon DEF D, E, assets, AreBoth
<1>7. /\ ValueOf(Created(more), {asset})
           = ValueOf(Created(bundle), {asset}) + ValueOf(Created(one), {asset})
      /\ ValueOf(Created(bundle), {asset}) \in Nat /\ ValueOf(Created(one), {asset}) \in Nat
  <2> DEFINE D == Created(bundle)
             E == Created(one)
             assets == {asset}
  <2>1. Countable(D) /\ Countable(E) /\ \A d \in D : d \notin E
    BY <1>4, <1>5, Zenon
  <2> HIDE DEF D, E, assets
  <2>2. AreBoth(D, E, assets)
    BY <2>1, ApartAddUp, Zenon
  <2>3. ValueOf(D, assets) \in Nat /\ ValueOf(E, assets) \in Nat
    BY <2>1, CountableIsNat, Zenon
  <2> QED BY <1>2, <2>2, <2>3, Zenon DEF D, E, assets, AreBoth
<1>8. Balance(more, asset) = Balance(bundle, asset) + Balance(one, asset)
  BY <1>6, <1>7 DEF Balance
<1> QED BY <1>1, <1>8, Zenon DEF more, one, AddsUp

(***************************************************************************)
(* What a spend makes, by how many outputs it has                          *)
(***************************************************************************)
IsPath(p) == Len(p) \in Nat \ {0} /\ p = [i \in 1 .. Len(p) |-> p[i]]

(* Two outputs that are not one coin.                                      *)
Differ(o, u) == o.owner # u.owner \/ o.amount # u.amount \/ o.asset # u.asset

(* A spend brings its coin, and what it makes of the asset is so much.     *)
Takes(s, asset, made) == Balance({s}, asset) = Bears(s.coin, asset) - made

(* A spend by itself is a bundle, and its outputs are coins of their own.  *)
Sound(s) == WellFormed({s}) /\ Cardinality(ToSet(s.creates)) = Len(s.creates)

Pays(s, o) ==
  Sound(s) /\ ToSet(s.creates) = {o} /\ \A asset : Takes(s, asset, Bears(o, asset))

PaysTwo(s, o, u) ==
  /\ Sound(s) /\ ToSet(s.creates) = {o, u}
  /\ \A asset : Takes(s, asset, Bears(o, asset) + Bears(u, asset))

PaysThree(s, o, u, v) ==
  /\ Sound(s) /\ ToSet(s.creates) = {o, u} \cup {v}
  /\ \A asset : Takes(s, asset, Bears(o, asset) + Bears(u, asset) + Bears(v, asset))

(* A coin that is made bears what its output says, and two outputs that    *)
(* differ make two coins.                                                  *)
LEMMA MadeBears ==
  ASSUME NEW c, NEW o, o.amount \in Nat
  PROVE  /\ Made(c, o).amount \in Nat
         /\ \A asset : Bears(Made(c, o), asset) = Bears(o, asset)
         /\ \A u : Differ(o, u) => Made(c, o) # Made(c, u)
BY DEF Made, Bears, Differ

(* A spend by itself: well formed, and short of what it makes.             *)
LEMMA SpendOf ==
  ASSUME NEW s, s.coin.amount \in Nat, IsPath(s.coin.id), NEW outs, IsFiniteSet(outs),
         ToSet(s.creates) = outs, \A o \in outs : o.amount \in Nat
  PROVE  /\ WellFormed({s}) /\ MadeBy(s) = {Made(s.coin, o) : o \in outs}
         /\ \A asset : Balance({s}, asset) = Bears(s.coin, asset) - ValueOf(MadeBy(s), {asset})
<1>1. IsFiniteSet({s})
  BY FS_Singleton, Zenon
<1>2. WellFormed({s})
  BY <1>1 DEF WellFormed, IsPath
<1>3. MadeBy(s) = {Made(s.coin, o) : o \in outs}
  BY Zenon DEF MadeBy
<1>4. Spent({s}) = {s.coin}
  BY DEF Spent
<1>5. Created({s}) = MadeBy(s)
  <2>1. Created({s}) = UNION {MadeBy(t) : t \in {s}}
    BY CreatedBySpends, Zenon
  <2> QED BY <2>1
<1>6. ASSUME NEW asset
      PROVE  Balance({s}, asset) = Bears(s.coin, asset) - ValueOf(MadeBy(s), {asset})
  <2>1. ValueOf({s.coin}, {asset}) = Bears(s.coin, asset)
    BY OneCoin, Zenon
  <2> QED BY <1>4, <1>5, <2>1 DEF Balance
<1> QED BY <1>2, <1>3, <1>6

(* A spend that makes nothing gives up its coin.                           *)
LEMMA MakesNothing ==
  ASSUME NEW s, s.coin.amount \in Nat, IsPath(s.coin.id), s.creates = <<>>
  PROVE  /\ Sound(s) /\ MadeBy(s) = {} /\ ToSet(s.creates) = {}
         /\ \A asset : Balance({s}, asset) = Bears(s.coin, asset)
<1>1. ToSet(s.creates) = {} /\ IsFiniteSet({}) /\ Len(s.creates) = 0
  BY FewElements, FS_EmptySet
<1>2. /\ WellFormed({s}) /\ MadeBy(s) = {Made(s.coin, o) : o \in {}}
      /\ \A asset : Balance({s}, asset) = Bears(s.coin, asset) - ValueOf(MadeBy(s), {asset})
  BY <1>1, SpendOf
<1>3. MadeBy(s) = {}
  BY <1>2
<1>4. Sound(s)
  BY <1>1, <1>2, FS_EmptySet DEF Sound
<1>5. ASSUME NEW asset
      PROVE  Balance({s}, asset) = Bears(s.coin, asset)
  <2>1. Bears(s.coin, asset) \in Nat
    BY OneCoin, Zenon
  <2>2. Balance({s}, asset) = Bears(s.coin, asset) - 0
    BY <1>2, <1>3, NoCoin
  <2> QED BY <2>1, <2>2
<1> QED BY <1>1, <1>3, <1>4, <1>5

(* A spend of one output (driver_builders.rs, a relay or a singleton made  *)
(* again).                                                                 *)
LEMMA MakesOne ==
  ASSUME NEW s, s.coin.amount \in Nat, IsPath(s.coin.id),
         NEW o, o.amount \in Nat, s.creates = <<o>>
  PROVE  Pays(s, o)
<1>1. ToSet(s.creates) = {o} /\ Len(s.creates) = 1
  BY FewElements
<1>2. IsFiniteSet({o}) /\ Cardinality({o}) = 1
  BY FS_Singleton, Zenon
<1>3. /\ WellFormed({s}) /\ MadeBy(s) = {Made(s.coin, x) : x \in {o}}
      /\ \A asset : Balance({s}, asset) = Bears(s.coin, asset) - ValueOf(MadeBy(s), {asset})
  <2>1. \A x \in {o} : x.amount \in Nat
    OBVIOUS
  <2> QED BY <1>1, <1>2, <2>1, SpendOf
<1>4. MadeBy(s) = {Made(s.coin, o)}
  BY <1>3
<1>5. Sound(s)
  BY <1>1, <1>2, <1>3 DEF Sound
<1>6. ASSUME NEW asset
      PROVE  Takes(s, asset, Bears(o, asset))
  <2> DEFINE a == Made(s.coin, o)
  <2>1. a.amount \in Nat /\ Bears(a, asset) = Bears(o, asset)
    BY MadeBears
  <2> HIDE DEF a
  <2>2. ValueOf({a}, {asset}) = Bears(a, asset)
    BY <2>1, OneCoin, Zenon
  <2> QED BY <1>3, <1>4, <2>1, <2>2 DEF a, Takes
<1> QED BY <1>1, <1>5, <1>6, Zenon DEF Pays

(* A spend of two outputs that differ.                                     *)
LEMMA MakesTwo ==
  ASSUME NEW s, s.coin.amount \in Nat, IsPath(s.coin.id),
         NEW o, NEW u, o.amount \in Nat, u.amount \in Nat, Differ(o, u), s.creates = <<o, u>>
  PROVE  PaysTwo(s, o, u)
<1>1. ToSet(s.creates) = {o} \cup {u} /\ Len(s.creates) = 2 /\ o # u
  BY FewElements DEF Differ
<1>2. IsFiniteSet({o} \cup {u}) /\ Cardinality({o} \cup {u}) = 2
  <2>1. IsFiniteSet({o}) /\ Cardinality({o}) = 1
    BY FS_Singleton, Zenon
  <2>2. /\ IsFiniteSet({o} \cup {u})
        /\ Cardinality({o} \cup {u})
             = IF u \in {o} THEN Cardinality({o}) ELSE Cardinality({o}) + 1
    BY <2>1, FS_AddElement, Zenon
  <2> QED BY <1>1, <2>1, <2>2
<1>3. /\ WellFormed({s}) /\ MadeBy(s) = {Made(s.coin, x) : x \in {o} \cup {u}}
      /\ \A asset : Balance({s}, asset) = Bears(s.coin, asset) - ValueOf(MadeBy(s), {asset})
  <2>1. \A x \in {o} \cup {u} : x.amount \in Nat
    OBVIOUS
  <2> QED BY <1>1, <1>2, <2>1, SpendOf
<1>4. MadeBy(s) = {Made(s.coin, o)} \cup {Made(s.coin, u)}
  BY <1>3
<1>5. Sound(s)
  BY <1>1, <1>2, <1>3 DEF Sound
<1>6. ASSUME NEW asset
      PROVE  Takes(s, asset, Bears(o, asset) + Bears(u, asset))
  <2> DEFINE a == Made(s.coin, o)
             b == Made(s.coin, u)
  <2>1. a.amount \in Nat /\ b.amount \in Nat /\ b \notin {a}
    BY MadeBears
  <2>2. Bears(a, asset) = Bears(o, asset) /\ Bears(b, asset) = Bears(u, asset)
    BY MadeBears
  <2> HIDE DEF a, b
  <2>3. Countable({a}) /\ ValueOf({a}, {asset}) = Bears(a, asset)
    BY <2>1, OneCoin
  <2>4. ValueOf({a} \cup {b}, {asset}) = ValueOf({a}, {asset}) + Bears(b, asset)
    BY <2>1, <2>3, OneMoreCoin
  <2>5. ValueOf(MadeBy(s), {asset}) = Bears(o, asset) + Bears(u, asset)
    BY <1>4, <2>2, <2>3, <2>4 DEF a, b
  <2> QED BY <1>3, <2>5, Zenon DEF Takes
<1>7. ToSet(s.creates) = {o, u}
  BY <1>1
<1> QED BY <1>5, <1>6, <1>7, Zenon DEF PaysTwo

(* What a well-formed bundle of distinct outputs takes of each asset.      *)
Comes(bundle, x, d) ==
  /\ WellFormed(bundle)
  /\ \A s \in bundle : Cardinality(ToSet(s.creates)) = Len(s.creates)
  /\ Balance(bundle, "XCH") = x /\ Balance(bundle, "DIG") = d /\ x \in Int /\ d \in Int

(* A spend of coins of its own joins a bundle, and its balance the         *)
(* bundle's.                                                               *)
LEMMA Joined ==
  ASSUME NEW bundle, NEW s, NEW x, NEW d, NEW y, NEW e, Comes(bundle, x, d), Comes({s}, y, e),
         \A t \in bundle : Apart(s, t)
  PROVE  Comes(bundle \cup {s}, x + y, d + e)
<1>1. WellFormed(bundle) /\ WellFormed({s})
  BY DEF Comes
<1>2. AddsUp(bundle, s, "XCH") /\ AddsUp(bundle, s, "DIG")
  BY <1>1, BalanceGrows, Zenon
<1>3. \A t \in bundle \cup {s} : Cardinality(ToSet(t.creates)) = Len(t.creates)
  <2>1. \A t \in bundle : Cardinality(ToSet(t.creates)) = Len(t.creates)
    BY Zenon DEF Comes
  <2>2. \A t \in {s} : Cardinality(ToSet(t.creates)) = Len(t.creates)
    BY Zenon DEF Comes
  <2> QED BY <2>1, <2>2
<1> DEFINE more == bundle \cup {s}
           one  == {s}
<1>4. /\ WellFormed(more)
      /\ Balance(more, "XCH") = Balance(bundle, "XCH") + Balance(one, "XCH")
      /\ Balance(more, "DIG") = Balance(bundle, "DIG") + Balance(one, "DIG")
  BY <1>2, Zenon DEF AddsUp
<1>5. /\ Balance(bundle, "XCH") = x /\ Balance(bundle, "DIG") = d /\ x \in Int /\ d \in Int
      /\ Balance(one, "XCH") = y /\ Balance(one, "DIG") = e /\ y \in Int /\ e \in Int
  BY Zenon DEF Comes
<1> HIDE DEF more, one
<1>6. /\ Balance(more, "XCH") = x + y /\ Balance(more, "DIG") = d + e
      /\ x + y \in Int /\ d + e \in Int
  BY <1>4, <1>5
<1>7. \A t \in more : Cardinality(ToSet(t.creates)) = Len(t.creates)
  BY <1>3 DEF more
<1>8. Comes(more, x + y, d + e)
  BY <1>4, <1>6, <1>7, Zenon DEF Comes
<1> QED BY <1>8, Zenon DEF more

(* A spend by itself.                                                      *)
LEMMA ByItself ==
  ASSUME NEW s, Sound(s), NEW x \in Int, NEW d \in Int,
         Balance({s}, "XCH") = x, Balance({s}, "DIG") = d
  PROVE  Comes({s}, x, d)
BY DEF Sound, Comes

(* Spends of different coins are apart when no output of one could be an   *)
(* output of the other.                                                    *)
LEMMA ApartByOutputs ==
  ASSUME NEW s, NEW t, s.coin # t.coin,
         \A o \in ToSet(s.creates) : \A u \in ToSet(t.creates) : Differ(o, u)
  PROVE  Apart(s, t)
<1>1. ASSUME NEW c \in MadeBy(s), c \in MadeBy(t)
      PROVE  FALSE
  <2>1. PICK o \in ToSet(s.creates) : c = Made(s.coin, o)
    BY DEF MadeBy
  <2>2. PICK u \in ToSet(t.creates) : c = Made(t.coin, u)
    BY <1>1 DEF MadeBy
  <2>3. o.owner = u.owner /\ o.amount = u.amount /\ o.asset = u.asset
    BY <2>1, <2>2 DEF Made
  <2> QED BY <2>3 DEF Differ
<1>2. MadeBy(s) \cap MadeBy(t) = {}
  BY <1>1
<1> QED BY <1>2 DEF Apart

(* What an output is worth.                                                *)
LEMMA OutputBears ==
  \A owner, amount, asset, a :
    /\ Bears(Output(owner, amount, asset), a) = IF asset = a THEN amount ELSE 0
    /\ Output(owner, amount, asset).amount = amount
    /\ Output(owner, amount, asset).owner = owner
    /\ Output(owner, amount, asset).asset = asset
BY DEF Bears, Output

IsTrio(outs, o, u, v) == ToSet(outs) = {o, u} \cup {v} /\ Len(outs) = 3

(* A spend of three outputs that differ from one another.                  *)
LEMMA MakesThree ==
  ASSUME NEW s, s.coin.amount \in Nat, IsPath(s.coin.id),
         NEW o, NEW u, NEW v, o.amount \in Nat, u.amount \in Nat, v.amount \in Nat,
         Differ(o, u), Differ(o, v), Differ(u, v),
         IsTrio(s.creates, o, u, v)
  PROVE  PaysThree(s, o, u, v)
<1>1. /\ o # u /\ o # v /\ u # v
      /\ ToSet(s.creates) = {o, u} \cup {v} /\ Len(s.creates) = 3
  BY DEF Differ, IsTrio
<1>2. IsFiniteSet({o, u} \cup {v}) /\ Cardinality({o, u} \cup {v}) = 3
  <2>1. IsFiniteSet({o}) /\ Cardinality({o}) = 1
    BY FS_Singleton, Zenon
  <2>2. /\ IsFiniteSet({o} \cup {u})
        /\ Cardinality({o} \cup {u})
             = IF u \in {o} THEN Cardinality({o}) ELSE Cardinality({o}) + 1
    BY <2>1, FS_AddElement, Zenon
  <2>3. {o} \cup {u} = {o, u}
    OBVIOUS
  <2>4. IsFiniteSet({o, u}) /\ Cardinality({o, u}) = 2
    BY <1>1, <2>1, <2>2, <2>3
  <2>5. /\ IsFiniteSet({o, u} \cup {v})
        /\ Cardinality({o, u} \cup {v})
             = IF v \in {o, u} THEN Cardinality({o, u}) ELSE Cardinality({o, u}) + 1
    BY <2>4, FS_AddElement, Zenon
  <2> QED BY <1>1, <2>4, <2>5
<1>3. /\ WellFormed({s}) /\ MadeBy(s) = {Made(s.coin, x) : x \in {o, u} \cup {v}}
      /\ \A asset : Balance({s}, asset) = Bears(s.coin, asset) - ValueOf(MadeBy(s), {asset})
  <2>1. \A x \in {o, u} \cup {v} : x.amount \in Nat
    OBVIOUS
  <2> QED BY <1>1, <1>2, <2>1, SpendOf
<1>4. MadeBy(s) = {Made(s.coin, o)} \cup {Made(s.coin, u)} \cup {Made(s.coin, v)}
  BY <1>3
<1>5. Sound(s)
  BY <1>1, <1>2, <1>3 DEF Sound
<1>6. ASSUME NEW asset
      PROVE  Takes(s, asset, Bears(o, asset) + Bears(u, asset) + Bears(v, asset))
  <2> DEFINE a == Made(s.coin, o)
             b == Made(s.coin, u)
             c == Made(s.coin, v)
  <2>1. /\ a.amount \in Nat /\ b.amount \in Nat /\ c.amount \in Nat
        /\ b # a /\ c # a /\ c # b
    BY MadeBears
  <2>2. /\ Bears(a, asset) = Bears(o, asset) /\ Bears(b, asset) = Bears(u, asset)
        /\ Bears(c, asset) = Bears(v, asset)
    BY MadeBears
  <2>3. MadeBy(s) = {a} \cup {b} \cup {c}
    BY <1>4
  <2> HIDE DEF a, b, c
  <2>4. Countable({a}) /\ ValueOf({a}, {asset}) = Bears(a, asset)
    BY <2>1, OneCoin
  <2>5. b \notin {a} /\ c \notin {a} \cup {b}
    BY <2>1
  <2>6. /\ Countable({a} \cup {b})
        /\ ValueOf({a} \cup {b}, {asset}) = ValueOf({a}, {asset}) + Bears(b, asset)
    BY <2>1, <2>4, <2>5, OneMoreCoin
  <2> DEFINE D == {a} \cup {b}
  <2>7. Countable(D) /\ c \notin D
    BY <2>5, <2>6
  <2> HIDE DEF D
  <2>8. ValueOf(D \cup {c}, {asset}) = ValueOf(D, {asset}) + Bears(c, asset)
    BY <2>1, <2>7, OneMoreCoin
  <2>9. ValueOf(MadeBy(s), {asset}) = Bears(o, asset) + Bears(u, asset) + Bears(v, asset)
    BY <2>2, <2>3, <2>4, <2>6, <2>8 DEF D
  <2> QED BY <1>3, <2>9, Zenon DEF Takes
<1> QED BY <1>1, <1>5, <1>6, Zenon DEF PaysThree

(***************************************************************************)
(* Spends with a change                                                    *)
(***************************************************************************)
(* A change has one output, or none when there is nothing to return.       *)
LEMMA MakesChange ==
  ASSUME NEW s, s.coin.amount \in Nat, IsPath(s.coin.id), NEW k \in Nat, NEW asset,
         s.creates = Change(k, asset)
  PROVE  /\ Sound(s) /\ \A x \in ToSet(s.creates) : x = Output("me", k, asset)
         /\ \A a : Takes(s, a, Bears(Output("me", k, asset), a))
<1> DEFINE u == Output("me", k, asset)
<1>1. u.amount = k /\ \A a : Bears(u, a) \in Nat
  BY DEF Output, Bears
<1>2. CASE k > 0
  <2>1. s.creates = <<u>>
    BY <1>2 DEF Change
  <2> HIDE DEF u
  <2>2. u.amount \in Nat
    BY <1>1
  <2>3. Pays(s, u)
    BY <2>1, <2>2, MakesOne
  <2> QED BY <2>3 DEF u, Pays
<1>3. CASE k = 0
  <2>1. s.creates = <<>>
    BY <1>3 DEF Change
  <2>2. Sound(s) /\ ToSet(s.creates) = {} /\ \A a : Balance({s}, a) = Bears(s.coin, a)
    BY <2>1, MakesNothing
  <2>3. \A a : Bears(s.coin, a) \in Nat
    BY OneCoin
  <2>4. \A a : Bears(u, a) = 0
    BY <1>3 DEF Output, Bears
  <2> HIDE DEF u
  <2>5. ASSUME NEW a
        PROVE  Takes(s, a, Bears(u, a))
    BY <2>2, <2>3, <2>4 DEF Takes
  <2> QED BY <2>2, <2>5 DEF u
<1> QED BY <1>2, <1>3

(* An output and a change.                                                 *)
LEMMA MakesOneAndChange ==
  ASSUME NEW s, s.coin.amount \in Nat, IsPath(s.coin.id), NEW o, o.amount \in Nat,
         NEW k \in Nat, NEW asset, Differ(o, Output("me", k, asset)) \/ k = 0,
         s.creates = <<o>> \o Change(k, asset)
  PROVE  /\ Sound(s) /\ o \in ToSet(s.creates)
         /\ \A x \in ToSet(s.creates) : x = o \/ x = Output("me", k, asset)
         /\ \A a : Takes(s, a, Bears(o, a) + Bears(Output("me", k, asset), a))
<1> DEFINE u == Output("me", k, asset)
<1>1. u.amount = k /\ \A a : Bears(u, a) \in Nat
  BY DEF Output, Bears
<1>2. CASE k > 0
  <2>1. s.creates = <<o>> \o <<u>>
    BY <1>2 DEF Change
  <2>2. Differ(o, u)
    BY <1>2
  <2> HIDE DEF u
  <2>3. u.amount \in Nat /\ s.creates = <<o, u>>
    BY <1>1, <2>1, OneAfterAnother
  <2>4. PaysTwo(s, o, u)
    BY <2>2, <2>3, MakesTwo
  <2> QED BY <2>4 DEF u, PaysTwo
<1>3. CASE k = 0
  <2>1. s.creates = <<o>>
    BY <1>3, OneAfterAnother DEF Change
  <2>2. Pays(s, o)
    BY <2>1, MakesOne
  <2>3. \A a : Bears(s.coin, a) \in Nat /\ Bears(o, a) \in Nat
    BY OneCoin
  <2>4. \A a : Bears(u, a) = 0
    BY <1>3 DEF Output, Bears
  <2> HIDE DEF u
  <2>5. ASSUME NEW a
        PROVE  Takes(s, a, Bears(o, a) + Bears(u, a))
    <3>1. Bears(o, a) + Bears(u, a) = Bears(o, a)
      BY <2>3, <2>4
    <3> QED BY <2>2, <3>1, Zenon DEF Pays
  <2> QED BY <2>2, <2>5 DEF u, Pays
<1> QED BY <1>2, <1>3

(* Two outputs and a third.                                                *)
LEMMA TwoAndAnother ==
  ASSUME NEW o, NEW u, NEW v
  PROVE  /\ <<o, u>> \o <<>> = <<o, u>>
         /\ \A t : t = <<o, u>> \o <<v>> => IsTrio(t, o, u, v)
<1> DEFINE S == {o, u, v}
           p == <<o, u>>
           t == <<o, u>> \o <<v>>
<1>1. /\ p \in Seq(S) /\ Len(p) = 2 /\ v \in S /\ o \in S /\ u \in S
  OBVIOUS
<1> HIDE DEF S
<1>2. p \o <<>> = p
  BY <1>1
<1>3. t \in Seq(S) /\ Len(t) = 3 /\ t[1] = o /\ t[2] = u /\ t[3] = v
  BY <1>1
<1> HIDE DEF t
<1>4. DOMAIN t = 1 .. 3
  BY <1>3
<1>5. ToSet(t) = {o, u, v}
  BY <1>3, <1>4 DEF ToSet
<1>6. ToSet(t) = {o, u} \cup {v}
  BY <1>5
<1>7. \A w : w = <<o, u>> \o <<v>> => w = t
  BY DEF t
<1>8. \A w : w = <<o, u>> \o <<v>> => IsTrio(w, o, u, v)
  BY <1>3, <1>6, <1>7, Zenon DEF IsTrio
<1> QED BY <1>2, <1>8, Zenon DEF p

(* Two outputs and a change.                                               *)
LEMMA MakesTwoAndChange ==
  ASSUME NEW s, s.coin.amount \in Nat, IsPath(s.coin.id), NEW o, NEW u, o.amount \in Nat,
         u.amount \in Nat, Differ(o, u), NEW k \in Nat, NEW asset,
         Differ(o, Output("me", k, asset)), Differ(u, Output("me", k, asset)),
         s.creates = <<o, u>> \o Change(k, asset)
  PROVE  /\ Sound(s)
         /\ \A x \in ToSet(s.creates) : x = o \/ x = u \/ x = Output("me", k, asset)
         /\ \A a : Takes(s, a, Bears(o, a) + Bears(u, a) + Bears(Output("me", k, asset), a))
<1> DEFINE v == Output("me", k, asset)
<1>1. v.amount = k /\ \A a : Bears(v, a) \in Nat
  BY DEF Output, Bears
<1>2. CASE k > 0
  <2>1. s.creates = <<o, u>> \o <<v>>
    BY <1>2 DEF Change
  <2>2. Differ(o, v) /\ Differ(u, v)
    OBVIOUS
  <2> HIDE DEF v
  <2>3. v.amount \in Nat
    BY <1>1
  <2>4. IsTrio(s.creates, o, u, v)
    BY <2>1, TwoAndAnother, Zenon
  <2>5. PaysThree(s, o, u, v)
    BY <2>2, <2>3, <2>4, MakesThree
  <2> QED BY <2>5 DEF v, PaysThree
<1>3. CASE k = 0
  <2>1. s.creates = <<o, u>>
    BY <1>3, TwoAndAnother DEF Change
  <2>2. PaysTwo(s, o, u)
    BY <2>1, MakesTwo
  <2>3. \A a : Bears(s.coin, a) \in Nat /\ Bears(o, a) \in Nat /\ Bears(u, a) \in Nat
    BY OneCoin
  <2>4. \A a : Bears(v, a) = 0
    BY <1>3 DEF Output, Bears
  <2> HIDE DEF v
  <2>5. ASSUME NEW a
        PROVE  Takes(s, a, Bears(o, a) + Bears(u, a) + Bears(v, a))
    <3>1. Bears(o, a) + Bears(u, a) + Bears(v, a) = Bears(o, a) + Bears(u, a)
      BY <2>3, <2>4
    <3> QED BY <2>2, <3>1, Zenon DEF PaysTwo
  <2> QED BY <2>2, <2>5 DEF v, PaysTwo
<1>4. k > 0 \/ k = 0
  OBVIOUS
<1> QED BY <1>2, <1>3, <1>4, Zenon

(***************************************************************************)
(* What a block asks                                                       *)
(***************************************************************************)
(* One spend reserves the fee, and the others nothing.                     *)
LEMMA ReservedByOne ==
  ASSUME NEW bundle, IsFiniteSet(bundle), NEW s \in bundle, s.fee \in Nat,
         \A t \in bundle : t # s => t.fee = 0
  PROVE  Reserved(bundle) = s.fee
<1> DEFINE f == [t \in bundle |-> t.fee]
           IsSum(g) == g = [S \in SUBSET bundle |->
                    IF S = {} THEN 0
                    ELSE (CHOOSE x \in S : TRUE).fee + g[S \ {CHOOSE x \in S : TRUE}]]
           add == CHOOSE g : IsSum(g)
<1>1. Weighs(f, bundle) /\ f[s] = s.fee
  BY DEF Weighs
<1>2. Reserved(bundle) = add[bundle]
  BY DEF Reserved, MapThenSumSet, MapThenFoldSet
<1>3. \A S \in SUBSET bundle : S # {} =>
        f[CHOOSE x \in S : TRUE] = (CHOOSE x \in S : TRUE).fee
  <2>1. \A S \in SUBSET bundle : S # {} => (CHOOSE x \in S : TRUE) \in bundle
    OBVIOUS
  <2> QED BY <2>1
<1>4. Units(f, bundle \ {s}) = {}
  <2>1. \A t \in bundle \ {s} : f[t] = 0
    OBVIOUS
  <2> HIDE DEF f
  <2> QED BY <2>1 DEF Units
<1> HIDE DEF f
<1>5. \A g : IsSum(g) <=> Adds(g, f, bundle)
  <2> SUFFICES ASSUME NEW g
               PROVE  IsSum(g) <=> Adds(g, f, bundle)
    OBVIOUS
  <2>1. [S \in SUBSET bundle |->
                    IF S = {} THEN 0
                    ELSE (CHOOSE x \in S : TRUE).fee + g[S \ {CHOOSE x \in S : TRUE}]]
             = [S \in SUBSET bundle |->
                    IF S = {} THEN 0
                    ELSE f[CHOOSE x \in S : TRUE] + g[S \ {CHOOSE x \in S : TRUE}]]
    BY <1>3
  <2> QED BY <2>1, Zenon DEF Adds
<1>6. PICK g : Adds(g, f, bundle)
  BY <1>1, AddingUp, Zenon
<1>7. Adds(add, f, bundle)
  <2> HIDE DEF IsSum
  <2> QED BY <1>5, <1>6, Zenon
<1> HIDE DEF add, IsSum
<1>8. add[bundle] = SumOf(f, bundle)
  BY <1>1, <1>7, AddingUp, Zenon
<1>9. SumOf(f, bundle) = f[s] + SumOf(f, bundle \ {s})
  BY <1>1, SumOfTheRest, Zenon
<1>10. SumOf(f, bundle \ {s}) = 0
  BY <1>4, FS_EmptySet DEF SumOf
<1> QED BY <1>1, <1>2, <1>8, <1>9, <1>10

(* Every coin of the bundle is on the chain, or made in it; no spend waits *)
(* for another; and a singleton makes no more than one odd coin.           *)
IsSupplied(bundle) == \A c \in Spent(bundle) : Len(c.id) = 1 \/ c \in Created(bundle)

OddCoins(s) == {o \in ToSet(s.creates) : o.asset = "XCH" /\ o.amount % 2 = 1}

MakesOneOdd(s) == s.coin.owner \in Singletons => Cardinality(OddCoins(s)) <= 1

(* What a supplied bundle finds is what is on the chain.                   *)
LEMMA RootsAreOnChain ==
  ASSUME NEW bundle, WellFormed(bundle), IsSupplied(bundle)
  PROVE  /\ Roots(bundle) = {c \in Spent(bundle) : Len(c.id) = 1}
         /\ Spent(bundle) \ Roots(bundle) \subseteq Created(bundle)
<1>1. \A c \in Spent(bundle) : IsPath(c.id)
  BY DEF WellFormed, Spent, IsPath
<1>2. ASSUME NEW c \in Spent(bundle), Len(c.id) = 1
      PROVE  c \in Roots(bundle)
  <2>1. Len(Front(c.id)) = 0
    <3> DEFINE p == c.id
    <3>1. Len(p) = 1 /\ p = [i \in 1 .. Len(p) |-> p[i]]
      BY <1>1, <1>2, Zenon DEF IsPath
    <3> HIDE DEF p
    <3>2. p = Append(<<>>, p[1])
      BY <3>1
    <3>3. Len(<<>>) = 0 /\ <<>> = [i \in 1 .. Len(<<>>) |-> <<>>[i]]
      OBVIOUS
    <3>4. Front(p) = <<>>
      BY <3>2, <3>3, PathsGrow
    <3>5. Len(Front(p)) = 0
      BY <3>3, <3>4
    <3> QED BY <3>5 DEF p
  <2>2. \A d \in Spent(bundle) : Len(d.id) # 0
    BY <1>1 DEF IsPath
  <2> QED BY <2>1, <2>2, Zenon DEF Roots
<1>3. ASSUME NEW c \in Roots(bundle)
      PROVE  c \in Spent(bundle) /\ Len(c.id) = 1
  <2>1. c \in Spent(bundle)
    BY Zenon DEF Roots
  <2>2. c \notin Created(bundle)
    BY RootsAreNotMade, Zenon
  <2> QED BY <2>1, <2>2, Zenon DEF IsSupplied
<1>4. Roots(bundle) = {c \in Spent(bundle) : Len(c.id) = 1}
  BY <1>2, <1>3
<1>5. Spent(bundle) \ Roots(bundle) \subseteq Created(bundle)
  BY <1>2 DEF IsSupplied
<1> QED BY <1>4, <1>5

(* A bundle that gives up what it reserves, or more, lands.                *)
LEMMA ItLandsGiving ==
  ASSUME NEW bundle, NEW given \in Nat, Comes(bundle, given, 0), IsSupplied(bundle),
         NEW fee \in Nat, fee <= given,
         \A s \in bundle : MakesOneOdd(s),
         \A s \in bundle : \A n \in s.needs :
           \E t \in bundle : n.of = t.coin.id /\ n.said \in t.says,
         \E s \in bundle : s.fee = fee /\ \A t \in bundle : t # s => t.fee = 0
  PROVE  Lands(bundle) /\ Donated(bundle) = given
<1>1. /\ WellFormed(bundle) /\ Balance(bundle, "XCH") = given /\ Balance(bundle, "DIG") = 0
      /\ \A s \in bundle : Cardinality(ToSet(s.creates)) = Len(s.creates)
  BY Zenon DEF Comes
<1>2. Donated(bundle) = given
  BY <1>1, Zenon DEF Balance, Donated
<1>3. Reserved(bundle) = fee
  <2>1. PICK s \in bundle : s.fee = fee /\ \A t \in bundle : t # s => t.fee = 0
    OBVIOUS
  <2>2. IsFiniteSet(bundle)
    BY <1>1, Zenon DEF WellFormed
  <2>3. s.fee \in Nat
    BY <2>1
  <2>4. Reserved(bundle) = s.fee
    BY <2>1, <2>2, <2>3, ReservedByOne, Zenon
  <2> QED BY <2>1, <2>4
<1>4. ValueOf(Spent(bundle), {"DIG"}) = ValueOf(Created(bundle), {"DIG"})
  <2> DEFINE in  == ValueOf(Spent(bundle), {"DIG"})
             out == ValueOf(Created(bundle), {"DIG"})
  <2>1. in \in Nat /\ out \in Nat
    BY <1>1, BundlesAreCountable, CountableIsNat, Zenon
  <2>2. in - out = 0
    BY <1>1, Zenon DEF Balance
  <2> HIDE DEF in, out
  <2>3. in = out
    BY <2>1, <2>2
  <2> QED BY <2>3, Zenon DEF in, out
<1>5. \A c \in Roots(bundle) : Len(c.id) = 1
  BY <1>1, RootsAreOnChain
<1>6. Spent(bundle) \ Roots(bundle) \subseteq Created(bundle)
  BY <1>1, RootsAreOnChain, Zenon
<1>7. \A s \in bundle : s.coin.owner \in Singletons =>
       Cardinality({o \in ToSet(s.creates) : o.asset = "XCH" /\ o.amount % 2 = 1}) <= 1
  BY Zenon DEF MakesOneOdd, OddCoins
<1>8. Donated(bundle) >= Reserved(bundle)
  BY <1>2, <1>3
<1> QED BY <1>1, <1>2, <1>4, <1>5, <1>6, <1>7, <1>8, Zenon DEF Lands

(* A bundle that reserves what it gives up, in one of its spends, lands.   *)
LEMMA ItLands ==
  ASSUME NEW bundle, NEW fee \in Nat, Comes(bundle, fee, 0), IsSupplied(bundle),
         \A s \in bundle : MakesOneOdd(s),
         \A s \in bundle : \A n \in s.needs :
           \E t \in bundle : n.of = t.coin.id /\ n.said \in t.says,
         \E s \in bundle : s.fee = fee /\ \A t \in bundle : t # s => t.fee = 0
  PROVE  Lands(bundle) /\ Donated(bundle) = fee
<1>1. fee <= fee
  OBVIOUS
<1> QED BY <1>1, ItLandsGiving, Zenon

(***************************************************************************)
(* The bundles of the builders are exact                                   *)
(***************************************************************************)
(* What every builder's bundle comes to.                                   *)
Settles(bundle, gets, fee) ==
  /\ WellFormed(bundle) /\ IsSupplied(bundle)
  /\ Lands(bundle) /\ Donated(bundle) = fee
  /\ gets \subseteq Outputs(Left(bundle))

(* A coin of the chain has an id of one step, and what it was given.       *)
LEMMA OnChainCoins ==
  \A name, owner, amount, asset :
    /\ IsPath(OnChain(name, owner, amount, asset).id)
    /\ Len(OnChain(name, owner, amount, asset).id) = 1
    /\ OnChain(name, owner, amount, asset).owner = owner
    /\ OnChain(name, owner, amount, asset).amount = amount
    /\ OnChain(name, owner, amount, asset).asset = asset
<1> SUFFICES ASSUME NEW name, NEW owner, NEW amount, NEW asset
             PROVE  LET c == OnChain(name, owner, amount, asset)
                    IN  /\ IsPath(c.id) /\ Len(c.id) = 1
                        /\ c.owner = owner /\ c.amount = amount /\ c.asset = asset
  OBVIOUS
<1> DEFINE c == OnChain(name, owner, amount, asset)
<1>1. c.id = <<name>> /\ c.owner = owner /\ c.amount = amount /\ c.asset = asset
  BY DEF OnChain
<1> HIDE DEF c
<1>2. Len(c.id) = 1 /\ c.id = [i \in 1 .. Len(c.id) |-> c.id[i]]
  BY <1>1
<1>3. IsPath(c.id)
  BY <1>2 DEF IsPath
<1> QED BY <1>1, <1>2, <1>3 DEF c

(* A coin that is made is a step further than its parent, and what its     *)
(* output says.                                                            *)
LEMMA MadeCoins ==
  ASSUME NEW c, IsPath(c.id), NEW o
  PROVE  /\ IsPath(Made(c, o).id) /\ Len(Made(c, o).id) = Len(c.id) + 1
         /\ Made(c, o).owner = o.owner /\ Made(c, o).amount = o.amount
         /\ Made(c, o).asset = o.asset
<1> DEFINE p == c.id
           q == Append(p, o)
           X == {p[i] : i \in 1 .. Len(p)} \cup {o}
<1>1. Len(p) \in Nat \ {0} /\ p = [i \in 1 .. Len(p) |-> p[i]]
  BY DEF IsPath
<1>2. /\ Made(c, o).id = q
      /\ Made(c, o).owner = o.owner /\ Made(c, o).amount = o.amount
      /\ Made(c, o).asset = o.asset
  BY DEF Made
<1> HIDE DEF p
<1>3. p \in [1 .. Len(p) -> X] /\ o \in X
  BY <1>1
<1> HIDE DEF X
<1>4. p \in Seq(X)
  BY <1>1, <1>3
<1>5. q \in Seq(X) /\ Len(q) = Len(p) + 1
  BY <1>3, <1>4
<1> HIDE DEF q
<1>6. q = [i \in 1 .. Len(q) |-> q[i]] /\ Len(q) \in Nat \ {0}
  BY <1>1, <1>5
<1>7. IsPath(q)
  BY <1>6 DEF IsPath
<1> QED BY <1>2, <1>5, <1>7 DEF p

(* What a plain spend is.                                                  *)
LEMMA SpendingIs ==
  \A coin, creates :
    /\ Spending(coin, creates).coin = coin /\ Spending(coin, creates).creates = creates
    /\ Spending(coin, creates).fee = 0 /\ Spending(coin, creates).needs = {}
    /\ Spending(coin, creates).keys = KeyOf(coin.owner)
    /\ Spending(coin, creates).domain = "AGG_SIG_ME" /\ Spending(coin, creates).quoted = TRUE
BY DEF Spending

(* A spend of coins that are counted.                                      *)
LEMMA StepIs ==
  ASSUME NEW s, NEW x, NEW d, s.coin.amount \in Nat, Sound(s),
         NEW m \in Nat, NEW n \in Nat, Takes(s, "XCH", m), Takes(s, "DIG", n),
         x = Bears(s.coin, "XCH") - m, d = Bears(s.coin, "DIG") - n
  PROVE  Comes({s}, x, d)
<1>1. Bears(s.coin, "XCH") \in Nat /\ Bears(s.coin, "DIG") \in Nat
  BY DEF Bears
<1>2. x \in Int /\ d \in Int
  BY <1>1
<1>3. Balance({s}, "XCH") = x /\ Balance({s}, "DIG") = d
  BY DEF Takes
<1> QED BY <1>2, <1>3, ByItself

(* What a spend makes and no spend of the bundle takes is left.            *)
LEMMA OutputIsLeft ==
  ASSUME NEW bundle, NEW s \in bundle, NEW owner, NEW amount, NEW asset,
         Output(owner, amount, asset) \in ToSet(s.creates),
         Made(s.coin, Output(owner, amount, asset)) \notin Spent(bundle)
  PROVE  Output(owner, amount, asset) \in Outputs(Left(bundle))
<1> DEFINE o == Output(owner, amount, asset)
           c == Made(s.coin, o)
<1>1. c \in Created(bundle)
  BY DEF Created
<1>2. c.owner = owner /\ c.amount = amount /\ c.asset = asset
  BY DEF Made, Output
<1> HIDE DEF c
<1>3. c \in Left(bundle)
  BY <1>1 DEF Left, c
<1>4. Output(c.owner, c.amount, c.asset) \in Outputs(Left(bundle))
  BY <1>3 DEF Outputs
<1> QED BY <1>2, <1>4

(* A spend of one odd output makes one odd coin.                           *)
LEMMA OneOdd ==
  ASSUME NEW s, NEW o, OddCoins(s) \subseteq {o}
  PROVE  MakesOneOdd(s)
<1>1. IsFiniteSet({o}) /\ Cardinality({o}) = 1
  BY FS_Singleton, Zenon
<1>2. Cardinality(OddCoins(s)) <= Cardinality({o})
  BY <1>1, FS_Subset
<1> QED BY <1>1, <1>2 DEF MakesOneOdd

(* A spend of one output, of the same asset.                               *)
Gives(s, o, x, d) == Comes({s}, x, d) /\ ToSet(s.creates) = {o}

(* A coin that makes one output of its own asset gives the difference.     *)
LEMMA OneForOne ==
  ASSUME NEW s, NEW o, IsPath(s.coin.id), s.coin.amount \in Nat, o.amount \in Nat,
         s.creates = <<o>>, s.coin.asset = o.asset, NEW x, x = s.coin.amount - o.amount
  PROVE  /\ o.asset = "XCH" => Gives(s, o, x, 0)
         /\ o.asset = "DIG" => Gives(s, o, 0, x)
<1>1. Pays(s, o)
  BY MakesOne
<1>2. /\ Sound(s) /\ ToSet(s.creates) = {o}
      /\ Takes(s, "XCH", Bears(o, "XCH")) /\ Takes(s, "DIG", Bears(o, "DIG"))
  BY <1>1, Zenon DEF Pays
<1> DEFINE m == Bears(o, "XCH")
           n == Bears(o, "DIG")
<1>3. ASSUME o.asset = "XCH"
      PROVE  Comes({s}, x, 0)
  <2>1. m \in Nat /\ n \in Nat /\ x = Bears(s.coin, "XCH") - m /\ 0 = Bears(s.coin, "DIG") - n
    BY <1>3 DEF Bears
  <2> HIDE DEF m, n
  <2> QED BY <1>2, <2>1, StepIs, Zenon DEF m, n
<1>4. ASSUME o.asset = "DIG"
      PROVE  Comes({s}, 0, x)
  <2>1. m \in Nat /\ n \in Nat /\ 0 = Bears(s.coin, "XCH") - m /\ x = Bears(s.coin, "DIG") - n
    BY <1>4 DEF Bears
  <2> HIDE DEF m, n
  <2> QED BY <1>2, <2>1, StepIs, Zenon DEF m, n
<1> QED BY <1>2, <1>3, <1>4, Zenon DEF Gives

(* A spend of no output.                                                   *)
LEMMA OneForNone ==
  ASSUME NEW s, IsPath(s.coin.id), s.coin.amount \in Nat, s.creates = <<>>
  PROVE  /\ s.coin.asset = "XCH" => Comes({s}, s.coin.amount, 0)
         /\ s.coin.asset = "DIG" => Comes({s}, 0, s.coin.amount)
         /\ ToSet(s.creates) = {}
<1>1. Sound(s) /\ ToSet(s.creates) = {} /\ \A a : Balance({s}, a) = Bears(s.coin, a)
  BY MakesNothing
<1>2. ASSUME s.coin.asset = "XCH"
      PROVE  Comes({s}, s.coin.amount, 0)
  <2>1. Balance({s}, "XCH") = s.coin.amount /\ Balance({s}, "DIG") = 0
    BY <1>1, <1>2 DEF Bears
  <2>2. s.coin.amount \in Int /\ 0 \in Int
    OBVIOUS
  <2> QED BY <1>1, <2>1, <2>2, ByItself, Zenon
<1>3. ASSUME s.coin.asset = "DIG"
      PROVE  Comes({s}, 0, s.coin.amount)
  <2>1. Balance({s}, "XCH") = 0 /\ Balance({s}, "DIG") = s.coin.amount
    BY <1>1, <1>3 DEF Bears
  <2>2. s.coin.amount \in Int /\ 0 \in Int
    OBVIOUS
  <2> QED BY <1>1, <2>1, <2>2, ByItself, Zenon
<1> QED BY <1>1, <1>2, <1>3

(* A funding coin is one of the wallet's, and covers the mojo and the fee. *)
LEMMA FundingCovers ==
  ASSUME NEW fee \in Fees, NEW c \in Funding(fee)
  PROVE  /\ c \in Purse /\ c.asset = "XCH" /\ c.owner = "me" /\ fee \in Nat
         /\ c.amount \in Nat /\ c.amount >= 1 + fee
         /\ IsPath(c.id) /\ Len(c.id) = 1
<1> DEFINE listing == Listing("XCH")
           owned == Selection!Spendable(listing)
           free == owned \ {}
<1>1. PICK coins \in Selected(Selection!FundingSelect(listing, {}, 1 + fee)) : c \in coins
  BY DEF Funding
<1>2. PICK a \in Selection!FundingSelect(listing, {}, 1 + fee) :
        a.verdict = "Chosen" /\ a.coins = coins
  BY DEF Selected
<1>3. owned = Own("XCH")
  BY DEF Selection!Spendable, Listing, Own
<1>4. \A why : why # "Chosen" => a # Selection!Refused(why)
  BY <1>2 DEF Selection!Refused
<1>5. PICK d \in Selection!SmallestCovering(listing, free, 1 + fee) : a = Selection!Chosen({d})
  BY <1>4 DEF Selection!FundingSelect, Selection!SelectOne
<1>6. d \in Own("XCH") /\ listing[d].amount >= 1 + fee
  BY <1>3, <1>5 DEF Selection!SmallestCovering, Selection!Covering
<1>7. c = d
  BY <1>1, <1>2, <1>5 DEF Selection!Chosen
<1>8. listing[d].amount = d.amount /\ d \in Purse /\ d.asset = "XCH"
  BY <1>6 DEF Listing, Own
<1>9. fee \in Nat
  BY NumbersAssumption
<1>10. IsPath(d.id) /\ Len(d.id) = 1 /\ d.owner = "me" /\ d.amount \in Nat
  BY <1>8, CoinsOfThePurse DEF IsPath
<1> QED BY <1>6, <1>7, <1>8, <1>9, <1>10

(* build_mint_spends: the DID is launched and the rest comes back.         *)
LEMMA DidMintIsExact ==
  ASSUME NEW fee \in Fees, NEW source \in Funding(fee)
  PROVE  Settles(DidMintBundle(source, fee), Gets("did", 1, "XCH"), ChangeAndFee(source, fee).fee)
<1> DEFINE split    == ChangeAndFee(source, fee)
           k        == split.change
           f        == split.fee
           one      == Output("me", 1, "XCH")
           launch   == Output("launcher", 1, "XCH")
           did      == Output("did", 1, "XCH")
           back     == Output("me", k, "XCH")
           funding  == Made(source, one)
           launcher == Made(funding, launch)
           s1 == [Spending(source, <<one>> \o Change(k, "XCH")) EXCEPT !.fee = f]
           s2 == Spending(funding, <<launch>>)
           s3 == Spending(launcher, <<did>>)
           bundle == {s1} \cup {s2} \cup {s3}
<1>1. DidMintBundle(source, fee) = bundle
  BY Zenon DEF DidMintBundle
<1>2. /\ source.asset = "XCH" /\ source.owner = "me" /\ source.amount \in Nat
      /\ source.amount >= 1 + fee /\ fee \in Nat /\ IsPath(source.id) /\ Len(source.id) = 1
  BY FundingCovers
<1>3. k \in Nat /\ f \in Nat /\ k # 1 /\ source.amount = 1 + k + f
  BY <1>2 DEF ChangeAndFee
<1> HIDE DEF split, k, f
<1>4. /\ one.owner = "me" /\ one.amount = 1 /\ one.asset = "XCH"
      /\ launch.owner = "launcher" /\ launch.amount = 1 /\ launch.asset = "XCH"
      /\ did.owner = "did" /\ did.amount = 1 /\ did.asset = "XCH"
      /\ back.owner = "me" /\ back.amount = k /\ back.asset = "XCH"
  BY DEF Output
<1> HIDE DEF one, launch, back
<1>5. /\ IsPath(funding.id) /\ Len(funding.id) = 2 /\ funding.owner = "me"
      /\ funding.amount = 1 /\ funding.asset = "XCH"
  <2>1. /\ IsPath(funding.id) /\ Len(funding.id) = Len(source.id) + 1
        /\ funding.owner = one.owner /\ funding.amount = one.amount
        /\ funding.asset = one.asset
    BY <1>2, MadeCoins, Zenon
  <2> HIDE DEF funding
  <2> QED BY <1>2, <1>4, <2>1
<1> HIDE DEF funding
<1>6. /\ IsPath(launcher.id) /\ Len(launcher.id) = 3 /\ launcher.owner = "launcher"
      /\ launcher.amount = 1 /\ launcher.asset = "XCH"
  <2>1. /\ IsPath(launcher.id) /\ Len(launcher.id) = Len(funding.id) + 1
        /\ launcher.owner = launch.owner /\ launcher.amount = launch.amount
        /\ launcher.asset = launch.asset
    BY <1>5, MadeCoins, Zenon
  <2> HIDE DEF launcher
  <2> QED BY <1>4, <1>5, <2>1
<1> HIDE DEF launcher
<1>7. /\ s1.coin = source /\ s1.creates = <<one>> \o Change(k, "XCH") /\ s1.fee = f
      /\ s1.needs = {}
      /\ s2.coin = funding /\ s2.creates = <<launch>> /\ s2.fee = 0 /\ s2.needs = {}
      /\ s3.coin = launcher /\ s3.creates = <<did>> /\ s3.fee = 0 /\ s3.needs = {}
  BY DEF Spending
<1> HIDE DEF did, s1, s2, s3
<1>8. /\ Comes({s1}, f, 0) /\ one \in ToSet(s1.creates)
      /\ \A x \in ToSet(s1.creates) : x = one \/ x = back
  <2>1. Differ(one, back) /\ one.amount \in Nat
    BY <1>3, <1>4 DEF Differ
  <2>2. /\ Sound(s1) /\ one \in ToSet(s1.creates)
        /\ \A x \in ToSet(s1.creates) : x = one \/ x = back
        /\ \A a : Takes(s1, a, Bears(one, a) + Bears(back, a))
    BY <1>2, <1>3, <1>7, <2>1, MakesOneAndChange, Zenon DEF back
  <2>3. /\ Bears(one, "XCH") + Bears(back, "XCH") = 1 + k
        /\ Bears(one, "DIG") + Bears(back, "DIG") = 0
        /\ f = Bears(s1.coin, "XCH") - (1 + k) /\ 0 = Bears(s1.coin, "DIG") - 0
    BY <1>2, <1>3, <1>4, <1>7 DEF Bears
  <2>4. Takes(s1, "XCH", 1 + k) /\ Takes(s1, "DIG", 0)
    BY <2>2, <2>3
  <2>5. Comes({s1}, f, 0)
    BY <1>2, <1>3, <1>7, <2>2, <2>3, <2>4, StepIs
  <2> QED BY <2>2, <2>5
<1>9. Comes({s2}, 0, 0) /\ ToSet(s2.creates) = {launch}
  <2>1. /\ s2.coin.amount \in Nat /\ IsPath(s2.coin.id) /\ launch.amount \in Nat
        /\ s2.creates = <<launch>> /\ s2.coin.asset = launch.asset /\ launch.asset = "XCH"
        /\ 0 = s2.coin.amount - launch.amount
    BY <1>4, <1>5, <1>7
  <2>2. Gives(s2, launch, 0, 0)
    BY <2>1, OneForOne, Zenon
  <2> QED BY <2>2, Zenon DEF Gives
<1>10. Comes({s3}, 0, 0) /\ ToSet(s3.creates) = {did}
  <2>1. /\ s3.coin.amount \in Nat /\ IsPath(s3.coin.id) /\ did.amount \in Nat
        /\ s3.creates = <<did>> /\ s3.coin.asset = did.asset /\ did.asset = "XCH"
        /\ 0 = s3.coin.amount - did.amount
    BY <1>4, <1>6, <1>7
  <2>2. Gives(s3, did, 0, 0)
    BY <2>1, OneForOne, Zenon
  <2> QED BY <2>2, Zenon DEF Gives
<1>11. Apart(s2, s1) /\ Apart(s3, s1) /\ Apart(s3, s2)
  <2>1. s1.coin # s2.coin /\ s1.coin # s3.coin /\ s2.coin # s3.coin
    <3>1. s1.coin = source /\ s2.coin = funding /\ s3.coin = launcher
      BY <1>7
    <3> QED BY <1>2, <1>5, <1>6, <3>1
  <2>2. /\ Differ(launch, one) /\ Differ(launch, back)
        /\ Differ(did, one) /\ Differ(did, back) /\ Differ(did, launch)
    BY <1>4 DEF Differ
  <2> QED BY <1>8, <1>9, <1>10, <2>1, <2>2, ApartByOutputs
<1>12. Comes(bundle, f, 0)
  <2>1. Comes({s1} \cup {s2}, f + 0, 0 + 0)
    BY <1>8, <1>9, <1>11, Joined
  <2> DEFINE two == {s1} \cup {s2}
  <2>2. \A t \in two : Apart(s3, t)
    BY <1>11
  <2> HIDE DEF two
  <2>3. Comes(two \cup {s3}, f + 0 + 0, 0 + 0 + 0)
    BY <1>10, <2>1, <2>2, Joined DEF two
  <2>4. f + 0 + 0 = f /\ 0 + 0 + 0 = 0
    BY <1>3
  <2> QED BY <2>3, <2>4 DEF two
<1>13. Spent(bundle) = {source, funding, launcher}
  BY <1>7 DEF Spent
<1>14. funding \in Created(bundle) /\ launcher \in Created(bundle)
  <2>1. funding \in MadeBy(s1)
    BY <1>7, <1>8 DEF MadeBy, funding
  <2>2. launcher \in MadeBy(s2)
    BY <1>7, <1>9 DEF MadeBy, launcher
  <2> QED BY <2>1, <2>2, CreatedBySpends
<1>15. IsSupplied(bundle)
  BY <1>2, <1>13, <1>14 DEF IsSupplied
<1>16. \A s \in bundle : MakesOneOdd(s)
  BY <1>2, <1>5, <1>6, <1>7 DEF MakesOneOdd, Singletons
<1>17. Lands(bundle) /\ Donated(bundle) = f
  <2>1. \A s \in bundle : \A n \in s.needs :
           \E t \in bundle : n.of = t.coin.id /\ n.said \in t.says
    BY <1>7
  <2>2. \E s \in bundle : s.fee = f /\ \A t \in bundle : t # s => t.fee = 0
    BY <1>7
  <2> HIDE DEF bundle
  <2> QED BY <1>3, <1>12, <1>15, <1>16, <2>1, <2>2, ItLands
<1>18. did \in Outputs(Left(bundle))
  <2>1. Made(launcher, did).owner = "did"
    BY <1>4 DEF Made
  <2>2. Made(s3.coin, did) \notin Spent(bundle)
    BY <1>2, <1>5, <1>6, <1>7, <1>13, <2>1
  <2>3. s3 \in bundle /\ did \in ToSet(s3.creates)
    BY <1>10
  <2> HIDE DEF bundle
  <2> QED BY <2>2, <2>3, OutputIsLeft, Zenon DEF did
<1>19. WellFormed(bundle)
  BY <1>12 DEF Comes
<1>20. Settles(bundle, {did}, f)
  <2> HIDE DEF bundle
  <2> QED BY <1>15, <1>17, <1>18, <1>19 DEF Settles
<1>21. Gets("did", 1, "XCH") = {did}
  BY DEF Gets, did
<1> QED BY <1>1, <1>20, <1>21, Zenon DEF f, split

(* Four spends of coins of their own.                                      *)
Four(a, b, c, d) == {a} \cup {b} \cup {c} \cup {d}

(* Four spends that share no coin come to what each of them comes to.      *)
LEMMA FourTogether ==
  ASSUME NEW s1, NEW s2, NEW s3, NEW s4, NEW x1, NEW x2, NEW x3, NEW x4,
         NEW d1, NEW d2, NEW d3, NEW d4, NEW x, NEW d,
         Comes({s1}, x1, d1), Comes({s2}, x2, d2), Comes({s3}, x3, d3), Comes({s4}, x4, d4),
         x = x1 + x2 + x3 + x4, d = d1 + d2 + d3 + d4,
         Apart(s2, s1), Apart(s3, s1), Apart(s3, s2),
         Apart(s4, s1), Apart(s4, s2), Apart(s4, s3)
  PROVE  Comes(Four(s1, s2, s3, s4), x, d)
<1> DEFINE two   == {s1} \cup {s2}
           three == two \cup {s3}
<1>1. Comes(two, x1 + x2, d1 + d2)
  <2>1. \A t \in {s1} : Apart(s2, t)
    OBVIOUS
  <2> QED BY <2>1, Joined, Zenon
<1>2. (\A t \in two : Apart(s3, t)) /\ \A t \in three : Apart(s4, t)
  OBVIOUS
<1>3. Four(s1, s2, s3, s4) = three \cup {s4}
  BY DEF Four
<1> HIDE DEF two
<1>4. Comes(three, x1 + x2 + x3, d1 + d2 + d3)
  BY <1>1, <1>2, Joined, Zenon
<1> HIDE DEF three
<1>5. Comes(three \cup {s4}, x1 + x2 + x3 + x4, d1 + d2 + d3 + d4)
  BY <1>2, <1>4, Joined, Zenon
<1> QED BY <1>3, <1>5

(* A coin made by a spend of the bundle is created in it.                  *)
LEMMA MadeIsCreated ==
  ASSUME NEW bundle, NEW s \in bundle, NEW o, o \in ToSet(s.creates)
  PROVE  Made(s.coin, o) \in Created(bundle)
BY DEF Created

(* The profile's DID and store, as the chain holds them.                   *)
LEMMA OwnSingletons ==
  /\ IsPath(Did.id) /\ Len(Did.id) = 1 /\ Did.owner = "did"
  /\ Did.amount = 1 /\ Did.asset = "XCH"
  /\ IsPath(Store.id) /\ Len(Store.id) = 1 /\ Store.owner = "store"
  /\ Store.amount = 1 /\ Store.asset = "XCH"
<1>1. /\ IsPath(Did.id) /\ Len(Did.id) = 1 /\ Did.owner = "did"
      /\ Did.amount = 1 /\ Did.asset = "XCH"
  BY OnChainCoins DEF Did
<1>2. /\ IsPath(Store.id) /\ Len(Store.id) = 1 /\ Store.owner = "store"
      /\ Store.amount = 1 /\ Store.asset = "XCH"
  BY OnChainCoins DEF Store
<1> QED BY <1>1, <1>2

(* build_and_sign_store_launch: the DID is made again and the store is     *)
(* launched.                                                               *)
LEMMA StoreLaunchIsExact ==
  ASSUME NEW fee \in Fees, NEW funding \in Funding(fee)
  PROVE  Settles(StoreLaunchBundle(funding, fee),
                 Gets("did", 1, "XCH") \cup Gets("store", 1, "XCH"), fee)
<1> DEFINE k        == funding.amount - 1 - fee
           did      == Output("did", 1, "XCH")
           inter    == Output("intermediate", 0, "XCH")
           launch   == Output("launcher", 1, "XCH")
           store    == Output("store", 1, "XCH")
           back     == Output("me", k, "XCH")
           between  == Made(Did, inter)
           launcher == Made(between, launch)
           s1 == Spending(Did, <<did, inter>>)
           s2 == Spending(between, <<launch>>)
           s3 == Spending(launcher, <<store>>)
           s4 == [Spending(funding, Change(k, "XCH")) EXCEPT !.fee = fee]
           bundle == Four(s1, s2, s3, s4)
<1>1. StoreLaunchBundle(funding, fee) = bundle
  <2>1. StoreLaunchBundle(funding, fee) = {s1, s2, s3, s4}
    BY Zenon DEF StoreLaunchBundle, FundingSpend
  <2> HIDE DEF s1, s2, s3, s4
  <2> QED BY <2>1 DEF Four
<1>2. /\ funding.asset = "XCH" /\ funding.owner = "me" /\ funding.amount \in Nat
      /\ funding.amount >= 1 + fee /\ fee \in Nat /\ IsPath(funding.id) /\ Len(funding.id) = 1
  BY FundingCovers
<1>3. k \in Nat /\ funding.amount = 1 + k + fee
  BY <1>2
<1> HIDE DEF k
<1>4. /\ did.owner = "did" /\ did.amount = 1 /\ did.asset = "XCH"
      /\ inter.owner = "intermediate" /\ inter.amount = 0 /\ inter.asset = "XCH"
      /\ launch.owner = "launcher" /\ launch.amount = 1 /\ launch.asset = "XCH"
      /\ store.owner = "store" /\ store.amount = 1 /\ store.asset = "XCH"
      /\ back.owner = "me" /\ back.amount = k /\ back.asset = "XCH"
  BY DEF Output
<1> HIDE DEF inter, launch, back
<1>5. /\ IsPath(between.id) /\ Len(between.id) = 2 /\ between.owner = "intermediate"
      /\ between.amount = 0 /\ between.asset = "XCH"
  <2>1. /\ IsPath(between.id) /\ Len(between.id) = Len(Did.id) + 1
        /\ between.owner = inter.owner /\ between.amount = inter.amount
        /\ between.asset = inter.asset
    BY OwnSingletons, MadeCoins, Zenon
  <2> HIDE DEF between
  <2> QED BY <1>4, <2>1, OwnSingletons
<1> HIDE DEF between
<1>6. /\ IsPath(launcher.id) /\ launcher.owner = "launcher"
      /\ launcher.amount = 1 /\ launcher.asset = "XCH"
  <2>1. /\ IsPath(launcher.id)
        /\ launcher.owner = launch.owner /\ launcher.amount = launch.amount
        /\ launcher.asset = launch.asset
    BY <1>5, MadeCoins, Zenon
  <2> HIDE DEF launcher
  <2> QED BY <1>4, <2>1
<1> HIDE DEF launcher
<1>7. /\ s1.coin = Did /\ s2.coin = between /\ s3.coin = launcher /\ s4.coin = funding
      /\ s1.creates = <<did, inter>> /\ s2.creates = <<launch>> /\ s3.creates = <<store>>
      /\ s4.creates = Change(k, "XCH")
  BY DEF Spending
<1>8. /\ s1.fee = 0 /\ s2.fee = 0 /\ s3.fee = 0 /\ s4.fee = fee
      /\ s1.needs = {} /\ s2.needs = {} /\ s3.needs = {} /\ s4.needs = {}
  BY DEF Spending
<1> HIDE DEF did, store, s1, s2, s3, s4
<1>9. Comes({s1}, 0, 0) /\ ToSet(s1.creates) = {did, inter}
  <2>1. /\ s1.coin.amount \in Nat /\ IsPath(s1.coin.id) /\ did.amount \in Nat
        /\ inter.amount \in Nat /\ Differ(did, inter)
    BY <1>4, <1>7, OwnSingletons DEF Differ
  <2>2. PaysTwo(s1, did, inter)
    BY <1>7, <2>1, MakesTwo, Zenon
  <2>3. /\ Bears(did, "XCH") + Bears(inter, "XCH") = 1
        /\ Bears(did, "DIG") + Bears(inter, "DIG") = 0
        /\ 0 = Bears(s1.coin, "XCH") - 1 /\ 0 = Bears(s1.coin, "DIG") - 0
    BY <1>4, <1>7, OwnSingletons DEF Bears
  <2>4. Takes(s1, "XCH", 1) /\ Takes(s1, "DIG", 0) /\ Sound(s1)
    BY <2>2, <2>3 DEF PaysTwo
  <2>5. 1 \in Nat /\ 0 \in Nat
    OBVIOUS
  <2>6. Comes({s1}, 0, 0)
    BY <2>1, <2>3, <2>4, <2>5, StepIs, Zenon
  <2> QED BY <2>2, <2>6, Zenon DEF PaysTwo
<1>10. Comes({s2}, 0 - 1, 0) /\ ToSet(s2.creates) = {launch}
  <2>1. /\ s2.coin.amount \in Nat /\ IsPath(s2.coin.id) /\ launch.amount \in Nat
        /\ s2.creates = <<launch>> /\ s2.coin.asset = launch.asset /\ launch.asset = "XCH"
        /\ 0 - 1 = s2.coin.amount - launch.amount
    BY <1>4, <1>5, <1>7
  <2>2. Gives(s2, launch, 0 - 1, 0)
    BY <2>1, OneForOne, Zenon
  <2> QED BY <2>2, Zenon DEF Gives
<1>11. Comes({s3}, 0, 0) /\ ToSet(s3.creates) = {store}
  <2>1. /\ s3.coin.amount \in Nat /\ IsPath(s3.coin.id) /\ store.amount \in Nat
        /\ s3.creates = <<store>> /\ s3.coin.asset = store.asset /\ store.asset = "XCH"
        /\ 0 = s3.coin.amount - store.amount
    BY <1>4, <1>6, <1>7
  <2>2. Gives(s3, store, 0, 0)
    BY <2>1, OneForOne, Zenon
  <2> QED BY <2>2, Zenon DEF Gives
<1>12. Comes({s4}, 1 + fee, 0) /\ \A x \in ToSet(s4.creates) : x = back
  <2>1. s4.coin.amount \in Nat /\ IsPath(s4.coin.id)
    BY <1>2, <1>7
  <2>2. /\ Sound(s4) /\ \A x \in ToSet(s4.creates) : x = back
        /\ \A a : Takes(s4, a, Bears(back, a))
    BY <1>3, <1>7, <2>1, MakesChange, Zenon DEF back
  <2>3. /\ Bears(back, "XCH") = k /\ Bears(back, "DIG") = 0
        /\ 1 + fee = Bears(s4.coin, "XCH") - k /\ 0 = Bears(s4.coin, "DIG") - 0
    BY <1>2, <1>3, <1>4, <1>7 DEF Bears
  <2>4. Takes(s4, "XCH", k) /\ Takes(s4, "DIG", 0) /\ 0 \in Nat
    BY <2>2, <2>3
  <2>5. Comes({s4}, 1 + fee, 0)
    BY <1>3, <2>1, <2>2, <2>3, <2>4, StepIs, Zenon
  <2> QED BY <2>2, <2>5
<1>13. /\ Apart(s2, s1) /\ Apart(s3, s1) /\ Apart(s3, s2)
       /\ Apart(s4, s1) /\ Apart(s4, s2) /\ Apart(s4, s3)
  <2>1. /\ s2.coin # s1.coin /\ s3.coin # s1.coin /\ s3.coin # s2.coin
        /\ s4.coin # s1.coin /\ s4.coin # s2.coin /\ s4.coin # s3.coin
    <3>1. s1.coin = Did /\ s2.coin = between /\ s3.coin = launcher /\ s4.coin = funding
      BY <1>7
    <3> QED BY <1>2, <1>5, <1>6, <3>1, OwnSingletons
  <2>2. /\ Differ(launch, did) /\ Differ(launch, inter) /\ Differ(store, did)
        /\ Differ(store, inter) /\ Differ(store, launch) /\ Differ(back, did)
        /\ Differ(back, inter) /\ Differ(back, launch) /\ Differ(back, store)
    BY <1>4 DEF Differ
  <2> QED BY <1>9, <1>10, <1>11, <1>12, <2>1, <2>2, ApartByOutputs
<1>14. Comes(bundle, fee, 0)
  <2>1. fee = 0 + (0 - 1) + 0 + (1 + fee) /\ 0 = 0 + 0 + 0 + 0
    BY <1>2
  <2> QED BY <1>9, <1>10, <1>11, <1>12, <1>13, <2>1, FourTogether, Zenon
<1>15. Spent(bundle) = {Did, between, launcher, funding}
  BY <1>7 DEF Spent, Four
<1>16. s1 \in bundle /\ s2 \in bundle /\ s3 \in bundle /\ s4 \in bundle
  BY DEF Four
<1>17. IsSupplied(bundle)
  <2>1. Made(s1.coin, inter) \in Created(bundle) /\ Made(s2.coin, launch) \in Created(bundle)
    BY <1>9, <1>10, <1>16, MadeIsCreated
  <2>2. between \in Created(bundle) /\ launcher \in Created(bundle)
    BY <1>7, <2>1 DEF between, launcher
  <2> HIDE DEF bundle
  <2> QED BY <1>2, <1>15, <2>2, OwnSingletons DEF IsSupplied
<1>18. \A s \in bundle : MakesOneOdd(s)
  <2>1. OddCoins(s1) \subseteq {did}
    BY <1>4, <1>9 DEF OddCoins
  <2>2. MakesOneOdd(s1)
    BY <2>1, OneOdd
  <2>3. MakesOneOdd(s2) /\ MakesOneOdd(s3) /\ MakesOneOdd(s4)
    BY <1>2, <1>5, <1>6, <1>7 DEF MakesOneOdd, Singletons
  <2> QED BY <2>2, <2>3 DEF Four
<1>19. Lands(bundle) /\ Donated(bundle) = fee
  <2>1. \A s \in bundle : s.needs = {}
    BY <1>8 DEF Four
  <2>2. \A t \in bundle : t # s4 => t.fee = 0
    BY <1>8 DEF Four
  <2> HIDE DEF bundle
  <2>3. \A s \in bundle : \A n \in s.needs :
           \E t \in bundle : n.of = t.coin.id /\ n.said \in t.says
    BY <2>1
  <2>4. \E s \in bundle : s.fee = fee /\ \A t \in bundle : t # s => t.fee = 0
    BY <1>8, <1>16, <2>2
  <2> QED BY <1>2, <1>14, <1>17, <1>18, <2>3, <2>4, ItLands
<1>20. did \in Outputs(Left(bundle)) /\ store \in Outputs(Left(bundle))
  <2>1. /\ Made(Did, did).owner = "did" /\ Len(Made(Did, did).id) = 2
        /\ Made(launcher, store).owner = "store"
    <3>1. Made(Did, did).owner = did.owner /\ Len(Made(Did, did).id) = Len(Did.id) + 1
      BY MadeCoins, OwnSingletons, Zenon
    <3>2. Made(launcher, store).owner = store.owner
      BY <1>6, MadeCoins, Zenon
    <3> QED BY <1>4, <3>1, <3>2, OwnSingletons
  <2>2. Made(s1.coin, did) \notin Spent(bundle) /\ Made(s3.coin, store) \notin Spent(bundle)
    <3> DEFINE a == Made(Did, did)
               b == Made(launcher, store)
    <3>1. a.owner = "did" /\ Len(a.id) = 2 /\ b.owner = "store"
      BY <2>1
    <3>2. s1.coin = Did /\ s3.coin = launcher
      BY <1>7
    <3> HIDE DEF a, b, bundle
    <3>3. a \notin Spent(bundle) /\ b \notin Spent(bundle)
      BY <1>2, <1>5, <1>6, <1>15, <3>1, OwnSingletons
    <3> QED BY <3>2, <3>3 DEF a, b
  <2>3. did \in ToSet(s1.creates) /\ store \in ToSet(s3.creates)
    BY <1>9, <1>11
  <2> HIDE DEF bundle
  <2>4. did \in Outputs(Left(bundle))
    BY <1>16, <2>2, <2>3, OutputIsLeft, Zenon DEF did
  <2>5. store \in Outputs(Left(bundle))
    BY <1>16, <2>2, <2>3, OutputIsLeft, Zenon DEF store
  <2> QED BY <2>4, <2>5
<1>21. WellFormed(bundle)
  BY <1>14 DEF Comes
<1>22. Settles(bundle, {did} \cup {store}, fee)
  <2> HIDE DEF bundle
  <2> QED BY <1>17, <1>19, <1>20, <1>21 DEF Settles
<1>23. Gets("did", 1, "XCH") = {did} /\ Gets("store", 1, "XCH") = {store}
  BY DEF Gets, did, store
<1> QED BY <1>1, <1>22, <1>23

(* build_and_sign_update: the store's tip is made again.                   *)
LEMMA EditIsExact == Settles(EditBundle, Gets("store", 1, "XCH"), 0)
<1> DEFINE store  == Output("store", 1, "XCH")
           s      == Spending(Store, <<store>>)
           bundle == {s}
<1>1. EditBundle = bundle
  BY Zenon DEF EditBundle
<1>2. store.owner = "store" /\ store.amount = 1 /\ store.asset = "XCH"
  BY DEF Output
<1>3. s.coin = Store /\ s.creates = <<store>> /\ s.fee = 0 /\ s.needs = {}
  BY DEF Spending
<1> HIDE DEF store, s
<1>4. Comes({s}, 0, 0) /\ ToSet(s.creates) = {store}
  <2>1. /\ s.coin.amount \in Nat /\ IsPath(s.coin.id) /\ store.amount \in Nat
        /\ s.creates = <<store>> /\ s.coin.asset = store.asset /\ store.asset = "XCH"
        /\ 0 = s.coin.amount - store.amount
    BY <1>2, <1>3, OwnSingletons
  <2>2. Gives(s, store, 0, 0)
    BY <2>1, OneForOne, Zenon
  <2> QED BY <2>2, Zenon DEF Gives
<1>5. Spent(bundle) = {Store}
  BY <1>3 DEF Spent
<1>6. IsSupplied(bundle)
  BY <1>5, OwnSingletons DEF IsSupplied
<1>7. Lands(bundle) /\ Donated(bundle) = 0
  <2>1. \A t \in bundle : MakesOneOdd(t)
    <3>1. OddCoins(s) \subseteq {store}
      BY <1>4 DEF OddCoins
    <3> QED BY <3>1, OneOdd
  <2>2. \A t \in bundle : \A n \in t.needs :
          \E u \in bundle : n.of = u.coin.id /\ n.said \in u.says
    BY <1>3
  <2>3. \E t \in bundle : t.fee = 0 /\ \A u \in bundle : u # t => u.fee = 0
    BY <1>3
  <2>4. Comes(bundle, 0, 0) /\ 0 \in Nat
    BY <1>4
  <2> HIDE DEF bundle
  <2> QED BY <1>6, <2>1, <2>2, <2>3, <2>4, ItLands, Zenon
<1>8. store \in Outputs(Left(bundle))
  <2> DEFINE c == Made(Store, store)
  <2>1. Len(c.id) = Len(Store.id) + 1
    BY MadeCoins, OwnSingletons, Zenon
  <2>2. Made(s.coin, store) = c
    BY <1>3
  <2> HIDE DEF c
  <2>3. c \notin Spent(bundle)
    BY <1>5, <2>1, OwnSingletons
  <2>4. s \in bundle /\ store \in ToSet(s.creates)
    BY <1>4
  <2> HIDE DEF bundle
  <2> QED BY <2>2, <2>3, <2>4, OutputIsLeft, Zenon DEF store
<1>9. WellFormed(bundle)
  BY <1>4 DEF Comes
<1>10. Settles(bundle, {store}, 0)
  <2> HIDE DEF bundle
  <2> QED BY <1>6, <1>7, <1>8, <1>9 DEF Settles
<1>11. Gets("store", 1, "XCH") = {store}
  BY DEF Gets, store
<1> QED BY <1>1, <1>10, <1>11

(* plan_melt: the two singletons end, and their mojos are the farmer's.    *)
LEMMA MeltIsExact == Settles(MeltBundle, {}, 2)
<1> DEFINE s1     == Spending(Did, <<>>)
           s2     == Spending(Store, <<>>)
           bundle == {s1} \cup {s2}
<1>1. MeltBundle = bundle
  BY DEF MeltBundle
<1>2. /\ s1.coin = Did /\ s1.creates = <<>> /\ s1.fee = 0 /\ s1.needs = {}
      /\ s2.coin = Store /\ s2.creates = <<>> /\ s2.fee = 0 /\ s2.needs = {}
  BY DEF Spending
<1> HIDE DEF s1, s2
<1>3. Comes({s1}, 1, 0) /\ ToSet(s1.creates) = {}
  <2>1. s1.coin.amount = 1 /\ s1.coin.asset = "XCH" /\ IsPath(s1.coin.id) /\ 1 \in Nat
    BY <1>2, OwnSingletons
  <2> QED BY <1>2, <2>1, OneForNone, Zenon
<1>4. Comes({s2}, 1, 0) /\ ToSet(s2.creates) = {}
  <2>1. s2.coin.amount = 1 /\ s2.coin.asset = "XCH" /\ IsPath(s2.coin.id) /\ 1 \in Nat
    BY <1>2, OwnSingletons
  <2> QED BY <1>2, <2>1, OneForNone, Zenon
<1>5. Comes(bundle, 2, 0)
  <2>1. s2.coin # s1.coin
    <3>1. s1.coin = Did /\ s2.coin = Store
      BY <1>2
    <3> QED BY <3>1, OwnSingletons
  <2>2. \A t \in {s1} : Apart(s2, t)
    BY <1>3, <1>4, <2>1, ApartByOutputs
  <2>3. Comes(bundle, 1 + 1, 0 + 0)
    BY <1>3, <1>4, <2>2, Joined, Zenon
  <2> QED BY <2>3
<1>6. Spent(bundle) = {Did, Store}
  BY <1>2 DEF Spent
<1>7. IsSupplied(bundle)
  BY <1>6, OwnSingletons DEF IsSupplied
<1>8. Lands(bundle) /\ Donated(bundle) = 2
  <2>1. MakesOneOdd(s1) /\ MakesOneOdd(s2)
    <3>1. OddCoins(s1) \subseteq {s1} /\ OddCoins(s2) \subseteq {s2}
      BY <1>3, <1>4 DEF OddCoins
    <3> QED BY <3>1, OneOdd
  <2>2. \A t \in bundle : \A n \in t.needs :
          \E u \in bundle : n.of = u.coin.id /\ n.said \in u.says
    BY <1>2
  <2>3. \E t \in bundle : t.fee = 0 /\ \A u \in bundle : u # t => u.fee = 0
    BY <1>2
  <2>4. (\A t \in bundle : MakesOneOdd(t)) /\ 0 \in Nat /\ 2 \in Nat /\ 0 <= 2
    BY <2>1
  <2> HIDE DEF bundle
  <2> QED BY <1>5, <1>7, <2>2, <2>3, <2>4, ItLandsGiving, Zenon
<1>9. WellFormed(bundle)
  BY <1>5 DEF Comes
<1>10. Settles(bundle, {}, 2)
  <2> HIDE DEF bundle
  <2> QED BY <1>7, <1>8, <1>9 DEF Settles
<1> QED BY <1>1, <1>10

(* A coin of the wallet, by its asset.                                     *)
LEMMA OwnCoins ==
  ASSUME NEW asset, NEW c \in Own(asset)
  PROVE  /\ c.owner = "me" /\ c.asset = asset /\ c.amount \in Nat
         /\ IsPath(c.id) /\ Len(c.id) = 1
<1>1. c \in Purse /\ c.asset = asset
  BY DEF Own
<1> QED BY <1>1, CoinsOfThePurse DEF IsPath

(* build_and_sign_reward_distributor_launch: the distributor and its       *)
(* manager are launched, and the CAT comes back whole.                     *)
LEMMA DistributorIsExact ==
  ASSUME NEW fee \in Fees, NEW funding \in Own("XCH"), NEW cat \in Own("DIG"), NEW terms,
         Launchable(funding, cat, fee, terms)
  PROVE  Settles(LaunchBundle(funding, cat, fee),
                 Gets("distributor", 1, "XCH") \cup Gets("manager", 1, "XCH")
                   \cup Gets("me", cat.amount, "DIG"), fee)
<1> DEFINE k        == funding.amount - LaunchCost(fee)
           launch   == Output("launcher", 1, "XCH")
           settle   == Output("settlement", 1, "XCH")
           back     == Output("me", k, "XCH")
           manager  == Output("manager", 1, "XCH")
           offer    == Output("settlement", cat.amount, "DIG")
           secure   == Output("security", 1, "XCH")
           begin    == Output("distributor", 1, "XCH")
           empty    == Output("reserve", 0, "DIG")
           whole    == Output("me", cat.amount, "DIG")
           launcher == Made(funding, launch)
           mojo     == Made(funding, settle)
           offered  == Made(cat, offer)
           security == Made(mojo, secure)
           s1 == [Spending(funding, <<launch, settle>> \o Change(k, "XCH")) EXCEPT !.fee = fee]
           s2 == Spending(launcher, <<manager>>)
           s3 == Spending(cat, <<offer>>)
           s4 == Spending(mojo, <<secure>>)
           s5 == Spending(security, <<begin>>)
           s6 == Spending(offered, <<empty, whole>>)
           four   == Four(s1, s2, s3, s4)
           five   == four \cup {s5}
           bundle == five \cup {s6}
<1>1. LaunchBundle(funding, cat, fee) = bundle
  <2>1. LaunchBundle(funding, cat, fee) = {s1, s2, s3, s4, s5, s6}
    BY Zenon DEF LaunchBundle, ManagerLauncher, OfferedXch, CatIntoSettlement
  <2> HIDE DEF s1, s2, s3, s4, s5, s6
  <2> QED BY <2>1 DEF Four
<1>2. /\ funding.asset = "XCH" /\ funding.owner = "me" /\ funding.amount \in Nat
      /\ IsPath(funding.id) /\ Len(funding.id) = 1
      /\ cat.asset = "DIG" /\ cat.owner = "me" /\ cat.amount \in Nat
      /\ IsPath(cat.id) /\ Len(cat.id) = 1
  BY OwnCoins
<1>3. fee \in Nat /\ k \in Nat /\ funding.amount = 2 + fee + k
  <2>1. fee \in Nat /\ 2 + fee <= funding.amount
    BY NumbersAssumption DEF Launchable, LaunchCost
  <2> QED BY <1>2, <2>1 DEF LaunchCost
<1> HIDE DEF k
<1>4. /\ launch.owner = "launcher" /\ launch.amount = 1 /\ launch.asset = "XCH"
      /\ settle.owner = "settlement" /\ settle.amount = 1 /\ settle.asset = "XCH"
      /\ back.owner = "me" /\ back.amount = k /\ back.asset = "XCH"
      /\ manager.owner = "manager" /\ manager.amount = 1 /\ manager.asset = "XCH"
      /\ offer.owner = "settlement" /\ offer.amount = cat.amount /\ offer.asset = "DIG"
  BY DEF Output
<1>5. /\ secure.owner = "security" /\ secure.amount = 1 /\ secure.asset = "XCH"
      /\ begin.owner = "distributor" /\ begin.amount = 1 /\ begin.asset = "XCH"
      /\ empty.owner = "reserve" /\ empty.amount = 0 /\ empty.asset = "DIG"
      /\ whole.owner = "me" /\ whole.amount = cat.amount /\ whole.asset = "DIG"
  BY DEF Output
<1> HIDE DEF launch, settle, back, offer, secure, empty
<1>6. /\ IsPath(launcher.id) /\ launcher.owner = "launcher"
      /\ launcher.amount = 1 /\ launcher.asset = "XCH"
  <2>1. /\ IsPath(launcher.id) /\ launcher.owner = launch.owner
        /\ launcher.amount = launch.amount /\ launcher.asset = launch.asset
    BY <1>2, MadeCoins, Zenon
  <2> HIDE DEF launcher
  <2> QED BY <1>4, <2>1
<1>7. /\ IsPath(mojo.id) /\ mojo.owner = "settlement" /\ mojo.amount = 1 /\ mojo.asset = "XCH"
  <2>1. /\ IsPath(mojo.id) /\ mojo.owner = settle.owner
        /\ mojo.amount = settle.amount /\ mojo.asset = settle.asset
    BY <1>2, MadeCoins, Zenon
  <2> HIDE DEF mojo
  <2> QED BY <1>4, <2>1
<1>8. /\ IsPath(offered.id) /\ Len(offered.id) = 2 /\ offered.owner = "settlement"
      /\ offered.amount = cat.amount /\ offered.asset = "DIG"
  <2>1. /\ IsPath(offered.id) /\ Len(offered.id) = Len(cat.id) + 1
        /\ offered.owner = offer.owner
        /\ offered.amount = offer.amount /\ offered.asset = offer.asset
    BY <1>2, MadeCoins, Zenon
  <2> HIDE DEF offered
  <2> QED BY <1>2, <1>4, <2>1
<1> HIDE DEF launcher, mojo, offered
<1>9. /\ IsPath(security.id) /\ security.owner = "security" /\ security.amount = 1
      /\ security.asset = "XCH"
  <2>1. /\ IsPath(security.id) /\ security.owner = secure.owner
        /\ security.amount = secure.amount /\ security.asset = secure.asset
    BY <1>7, MadeCoins, Zenon
  <2> HIDE DEF security
  <2> QED BY <1>5, <2>1
<1> HIDE DEF security
<1>10. /\ s1.coin = funding /\ s2.coin = launcher /\ s3.coin = cat /\ s4.coin = mojo
       /\ s5.coin = security /\ s6.coin = offered
  BY DEF Spending
<1>11. /\ s1.creates = <<launch, settle>> \o Change(k, "XCH") /\ s2.creates = <<manager>>
       /\ s3.creates = <<offer>> /\ s4.creates = <<secure>> /\ s5.creates = <<begin>>
       /\ s6.creates = <<empty, whole>>
  BY DEF Spending
<1>12. /\ s1.fee = fee /\ s2.fee = 0 /\ s3.fee = 0 /\ s4.fee = 0 /\ s5.fee = 0 /\ s6.fee = 0
       /\ s1.needs = {} /\ s2.needs = {} /\ s3.needs = {} /\ s4.needs = {}
       /\ s5.needs = {} /\ s6.needs = {}
  BY DEF Spending
<1> HIDE DEF manager, begin, whole, s1, s2, s3, s4, s5, s6
<1>13. /\ Comes({s1}, fee, 0)
       /\ \A x \in ToSet(s1.creates) : x = launch \/ x = settle \/ x = back
  <2>1. /\ s1.coin.amount \in Nat /\ IsPath(s1.coin.id)
        /\ launch.amount \in Nat /\ settle.amount \in Nat
        /\ Differ(launch, settle) /\ Differ(launch, back) /\ Differ(settle, back)
    BY <1>2, <1>4, <1>10 DEF Differ
  <2>2. /\ Sound(s1)
        /\ \A x \in ToSet(s1.creates) : x = launch \/ x = settle \/ x = back
        /\ \A a : Takes(s1, a, Bears(launch, a) + Bears(settle, a) + Bears(back, a))
    BY <1>3, <1>11, <2>1, MakesTwoAndChange, Zenon DEF back
  <2>3. /\ Bears(launch, "XCH") + Bears(settle, "XCH") + Bears(back, "XCH") = 2 + k
        /\ Bears(launch, "DIG") + Bears(settle, "DIG") + Bears(back, "DIG") = 0
        /\ fee = Bears(s1.coin, "XCH") - (2 + k) /\ 0 = Bears(s1.coin, "DIG") - 0
        /\ 2 + k \in Nat /\ 0 \in Nat
    BY <1>2, <1>3, <1>4, <1>10 DEF Bears
  <2>4. Takes(s1, "XCH", 2 + k) /\ Takes(s1, "DIG", 0)
    <3>1. /\ Takes(s1, "XCH", Bears(launch, "XCH") + Bears(settle, "XCH") + Bears(back, "XCH"))
          /\ Takes(s1, "DIG", Bears(launch, "DIG") + Bears(settle, "DIG") + Bears(back, "DIG"))
      BY <2>2, Zenon
    <3> QED BY <2>3, <3>1, Zenon
  <2>5. Comes({s1}, fee, 0)
    BY <2>1, <2>2, <2>3, <2>4, StepIs, Zenon
  <2> QED BY <2>2, <2>5
<1>14. Comes({s2}, 0, 0) /\ ToSet(s2.creates) = {manager}
  <2>1. /\ s2.coin.amount \in Nat /\ IsPath(s2.coin.id) /\ manager.amount \in Nat
        /\ s2.creates = <<manager>> /\ s2.coin.asset = manager.asset /\ manager.asset = "XCH"
        /\ 0 = s2.coin.amount - manager.amount
    BY <1>4, <1>6, <1>10, <1>11
  <2>2. Gives(s2, manager, 0, 0)
    BY <2>1, OneForOne, Zenon
  <2> QED BY <2>2, Zenon DEF Gives
<1>15. Comes({s3}, 0, 0) /\ ToSet(s3.creates) = {offer}
  <2>1. /\ s3.coin.amount \in Nat /\ IsPath(s3.coin.id) /\ offer.amount \in Nat
        /\ s3.creates = <<offer>> /\ s3.coin.asset = offer.asset /\ offer.asset = "DIG"
        /\ 0 = s3.coin.amount - offer.amount
    BY <1>2, <1>4, <1>10, <1>11
  <2>2. Gives(s3, offer, 0, 0)
    BY <2>1, OneForOne, Zenon
  <2> QED BY <2>2, Zenon DEF Gives
<1>16. Comes({s4}, 0, 0) /\ ToSet(s4.creates) = {secure}
  <2>1. /\ s4.coin.amount \in Nat /\ IsPath(s4.coin.id) /\ secure.amount \in Nat
        /\ s4.creates = <<secure>> /\ s4.coin.asset = secure.asset /\ secure.asset = "XCH"
        /\ 0 = s4.coin.amount - secure.amount
    BY <1>5, <1>7, <1>10, <1>11
  <2>2. Gives(s4, secure, 0, 0)
    BY <2>1, OneForOne, Zenon
  <2> QED BY <2>2, Zenon DEF Gives
<1>17. Comes({s5}, 0, 0) /\ ToSet(s5.creates) = {begin}
  <2>1. /\ s5.coin.amount \in Nat /\ IsPath(s5.coin.id) /\ begin.amount \in Nat
        /\ s5.creates = <<begin>> /\ s5.coin.asset = begin.asset /\ begin.asset = "XCH"
        /\ 0 = s5.coin.amount - begin.amount
    BY <1>5, <1>9, <1>10, <1>11
  <2>2. Gives(s5, begin, 0, 0)
    BY <2>1, OneForOne, Zenon
  <2> QED BY <2>2, Zenon DEF Gives
<1>18. Comes({s6}, 0, 0) /\ ToSet(s6.creates) = {empty, whole}
  <2>1. /\ s6.coin.amount \in Nat /\ IsPath(s6.coin.id) /\ empty.amount \in Nat
        /\ whole.amount \in Nat /\ Differ(empty, whole)
    BY <1>2, <1>5, <1>8, <1>10 DEF Differ
  <2>2. PaysTwo(s6, empty, whole)
    BY <1>11, <2>1, MakesTwo, Zenon
  <2>3. /\ Bears(empty, "XCH") + Bears(whole, "XCH") = 0
        /\ Bears(empty, "DIG") + Bears(whole, "DIG") = cat.amount
        /\ 0 = Bears(s6.coin, "XCH") - 0 /\ 0 = Bears(s6.coin, "DIG") - cat.amount
    BY <1>2, <1>5, <1>8, <1>10 DEF Bears
  <2>4. Takes(s6, "XCH", 0) /\ Takes(s6, "DIG", cat.amount) /\ Sound(s6)
    BY <2>2, <2>3 DEF PaysTwo
  <2>5. 0 \in Nat /\ cat.amount \in Nat
    BY <1>2
  <2>6. Comes({s6}, 0, 0)
    BY <2>1, <2>3, <2>4, <2>5, StepIs, Zenon
  <2> QED BY <2>2, <2>6, Zenon DEF PaysTwo
<1>19. /\ s2.coin # s1.coin /\ s3.coin # s1.coin /\ s4.coin # s1.coin
       /\ s5.coin # s1.coin /\ s6.coin # s1.coin /\ s3.coin # s2.coin
       /\ s4.coin # s2.coin /\ s5.coin # s2.coin /\ s6.coin # s2.coin
       /\ s4.coin # s3.coin /\ s5.coin # s3.coin /\ s6.coin # s3.coin
       /\ s5.coin # s4.coin /\ s6.coin # s4.coin /\ s6.coin # s5.coin
  BY <1>2, <1>6, <1>7, <1>8, <1>9, <1>10
<1>20. /\ Apart(s2, s1) /\ Apart(s3, s1) /\ Apart(s3, s2)
       /\ Apart(s4, s1) /\ Apart(s4, s2) /\ Apart(s4, s3)
  <2>1. /\ Differ(manager, launch) /\ Differ(manager, settle) /\ Differ(manager, back)
        /\ Differ(offer, launch) /\ Differ(offer, settle) /\ Differ(offer, back)
        /\ Differ(offer, manager)
        /\ Differ(secure, launch) /\ Differ(secure, settle) /\ Differ(secure, back)
        /\ Differ(secure, manager) /\ Differ(secure, offer)
    BY <1>4, <1>5 DEF Differ
  <2> QED BY <1>13, <1>14, <1>15, <1>16, <1>19, <2>1, ApartByOutputs
<1>21. \A t \in four : Apart(s5, t)
  <2>1. /\ Differ(begin, launch) /\ Differ(begin, settle) /\ Differ(begin, back)
        /\ Differ(begin, manager) /\ Differ(begin, offer) /\ Differ(begin, secure)
    BY <1>4, <1>5 DEF Differ
  <2>2. Apart(s5, s1) /\ Apart(s5, s2) /\ Apart(s5, s3) /\ Apart(s5, s4)
    BY <1>13, <1>14, <1>15, <1>16, <1>17, <1>19, <2>1, ApartByOutputs
  <2> QED BY <2>2 DEF Four
<1>22. \A t \in five : Apart(s6, t)
  <2>1. /\ Differ(empty, launch) /\ Differ(empty, settle) /\ Differ(empty, back)
        /\ Differ(empty, manager) /\ Differ(empty, offer) /\ Differ(empty, secure)
        /\ Differ(empty, begin)
        /\ Differ(whole, launch) /\ Differ(whole, settle) /\ Differ(whole, back)
        /\ Differ(whole, manager) /\ Differ(whole, offer) /\ Differ(whole, secure)
        /\ Differ(whole, begin)
    BY <1>4, <1>5 DEF Differ
  <2>2. /\ Apart(s6, s1) /\ Apart(s6, s2) /\ Apart(s6, s3) /\ Apart(s6, s4) /\ Apart(s6, s5)
    BY <1>13, <1>14, <1>15, <1>16, <1>17, <1>18, <1>19, <2>1, ApartByOutputs
  <2> QED BY <2>2 DEF Four
<1>23. Comes(bundle, fee, 0)
  <2>1. fee = fee + 0 + 0 + 0 /\ 0 = 0 + 0 + 0 + 0 /\ fee + 0 + 0 = fee /\ 0 + 0 + 0 = 0
    BY <1>3
  <2>2. Comes(four, fee, 0)
    BY <1>13, <1>14, <1>15, <1>16, <1>20, <2>1, FourTogether, Zenon
  <2> HIDE DEF four
  <2>3. Comes(five, fee + 0, 0 + 0)
    BY <1>17, <1>21, <2>2, Joined, Zenon
  <2> HIDE DEF five
  <2>4. Comes(bundle, fee + 0 + 0, 0 + 0 + 0)
    BY <1>18, <1>22, <2>3, Joined, Zenon
  <2> QED BY <2>1, <2>4
<1>24. Spent(bundle) = {funding, launcher, cat, mojo, security, offered}
  BY <1>10 DEF Spent, Four
<1>25. /\ s1 \in bundle /\ s2 \in bundle /\ s3 \in bundle /\ s4 \in bundle /\ s5 \in bundle
       /\ s6 \in bundle
  BY DEF Four
<1>26. \A s \in bundle : s = s1 \/ s = s2 \/ s = s3 \/ s = s4 \/ s = s5 \/ s = s6
  BY DEF Four
<1> HIDE DEF bundle, five, four
<1>27. launch \in ToSet(s1.creates) /\ settle \in ToSet(s1.creates)
  <2> DEFINE q == <<launch, settle>> \o Change(k, "XCH")
  <2>1. launch \in ToSet(q) /\ settle \in ToSet(q)
    <3>1. CASE k > 0
      <4>1. q = <<launch, settle>> \o <<back>>
        BY <3>1 DEF Change, back
      <4> HIDE DEF q
      <4>2. IsTrio(q, launch, settle, back)
        BY <4>1, TwoAndAnother, Zenon
      <4> QED BY <4>2 DEF IsTrio
    <3>2. CASE k = 0
      <4>1. q = <<launch, settle>>
        BY <3>2, TwoAndAnother DEF Change
      <4> HIDE DEF q
      <4>2. ToSet(q) = {launch} \cup {settle}
        BY <4>1, FewElements
      <4> QED BY <4>2
    <3> QED BY <1>3, <3>1, <3>2
  <2> QED BY <1>11, <2>1
<1>28. IsSupplied(bundle)
  <2>1. /\ Made(s1.coin, launch) \in Created(bundle) /\ Made(s1.coin, settle) \in Created(bundle)
        /\ Made(s3.coin, offer) \in Created(bundle) /\ Made(s4.coin, secure) \in Created(bundle)
    BY <1>15, <1>16, <1>25, <1>27, MadeIsCreated
  <2>2. /\ launcher \in Created(bundle) /\ mojo \in Created(bundle)
        /\ offered \in Created(bundle) /\ security \in Created(bundle)
    BY <1>10, <2>1 DEF launcher, mojo, offered, security
  <2> QED BY <1>2, <1>24, <2>2 DEF IsSupplied
<1>29. Lands(bundle) /\ Donated(bundle) = fee
  <2>1. \A s \in bundle : MakesOneOdd(s)
    <3>1. \A s \in bundle : s.coin.owner \notin Singletons
      <4>1. \A c \in Spent(bundle) : c.owner \notin Singletons
        BY <1>2, <1>6, <1>7, <1>8, <1>9, <1>24 DEF Singletons
      <4> QED BY <4>1 DEF Spent
    <3> QED BY <3>1, Zenon DEF MakesOneOdd
  <2>2. \A s \in bundle : s.needs = {}
    BY <1>12, <1>26
  <2>3. \A s \in bundle : \A n \in s.needs :
           \E t \in bundle : n.of = t.coin.id /\ n.said \in t.says
    BY <2>2
  <2>4. \E s \in bundle : s.fee = fee /\ \A t \in bundle : t # s => t.fee = 0
    BY <1>12, <1>25, <1>26
  <2> QED BY <1>3, <1>23, <1>28, <2>1, <2>3, <2>4, ItLands, Zenon
<1>30. /\ begin \in Outputs(Left(bundle)) /\ manager \in Outputs(Left(bundle))
       /\ whole \in Outputs(Left(bundle))
  <2> DEFINE a == Made(security, begin)
             b == Made(launcher, manager)
             c == Made(offered, whole)
  <2>1. a.owner = "distributor" /\ b.owner = "manager" /\ c.owner = "me" /\ Len(c.id) = 3
    <3>1. a.owner = begin.owner
      BY <1>9, MadeCoins, Zenon
    <3>2. b.owner = manager.owner
      BY <1>6, MadeCoins, Zenon
    <3>3. c.owner = whole.owner /\ Len(c.id) = Len(offered.id) + 1
      BY <1>8, MadeCoins, Zenon
    <3> HIDE DEF a, b, c
    <3> QED BY <1>4, <1>5, <1>8, <3>1, <3>2, <3>3
  <2>2. Made(s5.coin, begin) = a /\ Made(s2.coin, manager) = b /\ Made(s6.coin, whole) = c
    BY <1>10
  <2> HIDE DEF a, b, c
  <2>3. a \notin Spent(bundle) /\ b \notin Spent(bundle) /\ c \notin Spent(bundle)
    BY <1>2, <1>6, <1>7, <1>8, <1>9, <1>24, <2>1
  <2>4. begin \in ToSet(s5.creates) /\ manager \in ToSet(s2.creates) /\ whole \in ToSet(s6.creates)
    BY <1>14, <1>17, <1>18
  <2>5. begin \in Outputs(Left(bundle))
    BY <1>25, <2>2, <2>3, <2>4, OutputIsLeft, Zenon DEF begin
  <2>6. manager \in Outputs(Left(bundle))
    BY <1>25, <2>2, <2>3, <2>4, OutputIsLeft, Zenon DEF manager
  <2>7. whole \in Outputs(Left(bundle))
    BY <1>25, <2>2, <2>3, <2>4, OutputIsLeft, Zenon DEF whole
  <2> QED BY <2>5, <2>6, <2>7
<1>31. WellFormed(bundle)
  BY <1>23 DEF Comes
<1>32. Settles(bundle, {begin} \cup {manager} \cup {whole}, fee)
  BY <1>28, <1>29, <1>30, <1>31 DEF Settles
<1>33. /\ Gets("distributor", 1, "XCH") = {begin} /\ Gets("manager", 1, "XCH") = {manager}
       /\ Gets("me", cat.amount, "DIG") = {whole}
  BY DEF Gets, begin, manager, whole
<1> QED BY <1>1, <1>32, <1>33

(* The coins of a distributor that exists.                                 *)
LEMMA DistributorCoins ==
  /\ /\ IsPath(Distributor.id) /\ Len(Distributor.id) = 1 /\ Distributor.owner = "distributor"
     /\ Distributor.amount = 1 /\ Distributor.asset = "XCH"
  /\ /\ IsPath(ReserveCoin.id) /\ Len(ReserveCoin.id) = 1 /\ ReserveCoin.owner = "reserve"
     /\ ReserveCoin.amount = Reserve /\ ReserveCoin.asset = "DIG"
  /\ /\ IsPath(RewardSlot.id) /\ Len(RewardSlot.id) = 1 /\ RewardSlot.owner = "slot"
     /\ RewardSlot.amount = 0 /\ RewardSlot.asset = "XCH"
  /\ /\ IsPath(Commitment.id) /\ Len(Commitment.id) = 1 /\ Commitment.owner = "slot"
     /\ Commitment.amount = 0 /\ Commitment.asset = "XCH"
  /\ Commitment # RewardSlot
<1>1. /\ IsPath(Distributor.id) /\ Len(Distributor.id) = 1 /\ Distributor.owner = "distributor"
      /\ Distributor.amount = 1 /\ Distributor.asset = "XCH"
  BY OnChainCoins DEF Distributor
<1>2. /\ IsPath(ReserveCoin.id) /\ Len(ReserveCoin.id) = 1 /\ ReserveCoin.owner = "reserve"
      /\ ReserveCoin.amount = Reserve /\ ReserveCoin.asset = "DIG"
  BY OnChainCoins DEF ReserveCoin
<1>3. PICK r, m : /\ RewardSlot = OnChain(r, "slot", 0, "XCH")
                  /\ Commitment = OnChain(m, "slot", 0, "XCH")
                  /\ r # m
  <2>1. "commitment slot" # "reward slot"
    BY Zenon
  <2> QED BY <2>1, Zenon DEF RewardSlot, Commitment
<1>4. /\ IsPath(RewardSlot.id) /\ Len(RewardSlot.id) = 1 /\ RewardSlot.owner = "slot"
      /\ RewardSlot.amount = 0 /\ RewardSlot.asset = "XCH"
      /\ IsPath(Commitment.id) /\ Len(Commitment.id) = 1 /\ Commitment.owner = "slot"
      /\ Commitment.amount = 0 /\ Commitment.asset = "XCH"
  BY <1>3, OnChainCoins
<1>5. Commitment # RewardSlot
  <2>1. RewardSlot.id = <<r>> /\ Commitment.id = <<m>>
    BY <1>3 DEF OnChain
  <2>2. RewardSlot.id[1] = r /\ Commitment.id[1] = m
    BY <2>1
  <2> QED BY <1>3, <2>2
<1> QED BY <1>1, <1>2, <1>3, <1>4, <1>5, Zenon

(* The distributor's own spend: itself again, and a slot of no value.      *)
Turns(s, again, slot) ==
  /\ Comes({s}, 0, 0) /\ ToSet(s.creates) = {again, slot} /\ MakesOneOdd(s)
  /\ s.coin = Distributor

(* Both refill and clawback spend the distributor that way.                *)
LEMMA DistributorTurns ==
  ASSUME NEW s, NEW again, NEW slot,
         again = Output("distributor", 1, "XCH"), slot = Output("slot", 0, "XCH"),
         s.coin = Distributor, s.creates = <<again, slot>>
  PROVE  Turns(s, again, slot)
<1>1. /\ again.owner = "distributor" /\ again.amount = 1 /\ again.asset = "XCH"
      /\ slot.owner = "slot" /\ slot.amount = 0 /\ slot.asset = "XCH"
  BY DEF Output
<1>2. /\ s.coin.amount \in Nat /\ IsPath(s.coin.id) /\ again.amount \in Nat
      /\ slot.amount \in Nat /\ Differ(again, slot)
  BY <1>1, DistributorCoins DEF Differ
<1>3. PaysTwo(s, again, slot)
  BY <1>2, MakesTwo, Zenon
<1>4. /\ Bears(again, "XCH") + Bears(slot, "XCH") = 1
      /\ Bears(again, "DIG") + Bears(slot, "DIG") = 0
      /\ 0 = Bears(s.coin, "XCH") - 1 /\ 0 = Bears(s.coin, "DIG") - 0
      /\ 0 \in Nat /\ 1 \in Nat
  BY <1>1, DistributorCoins DEF Bears
<1>5. Takes(s, "XCH", 1) /\ Takes(s, "DIG", 0) /\ Sound(s)
  BY <1>3, <1>4 DEF PaysTwo
<1>6. Comes({s}, 0, 0)
  BY <1>2, <1>4, <1>5, StepIs, Zenon
<1>7. ToSet(s.creates) = {again, slot}
  BY <1>3, Zenon DEF PaysTwo
<1>8. OddCoins(s) \subseteq {again}
  BY <1>1, <1>7 DEF OddCoins
<1>9. MakesOneOdd(s)
  BY <1>8, OneOdd
<1> QED BY <1>6, <1>7, <1>9 DEF Turns

(* begin_reward_distributor_refill: the rewards join the reserve, and the  *)
(* rest of the coin comes back.                                            *)
LEMMA RefillIsExact ==
  ASSUME NEW cat \in Own("DIG"), NEW rewards \in Amounts, NEW epoch, NEW staged,
         Refillable(cat, rewards, epoch, staged)
  PROVE  Settles(RefillBundle(cat, rewards, staged),
                 Gets("reserve", Reserve + rewards, "DIG"), 0)
<1> DEFINE k      == cat.amount - rewards
           again  == Output("distributor", 1, "XCH")
           slot   == Output("slot", 0, "XCH")
           more   == Output("reserve", Reserve + rewards, "DIG")
           back   == Output("me", k, "DIG")
           s1 == Spending(Distributor, <<again, slot>>)
           s2 == Spending(ReserveCoin, <<more>>)
           s3 == Spending(RewardSlot, <<>>)
           s4 == Spending(cat, Change(k, "DIG"))
           bundle == Four(s1, s2, s3, s4)
<1>1. RefillBundle(cat, rewards, staged) = bundle
  <2>1. Staged(staged) = {}
    BY DEF Refillable, Staged
  <2>2. RefillBundle(cat, rewards, staged) = {s1, s2, s3, s4} \cup Staged(staged)
    BY Zenon DEF RefillBundle
  <2> HIDE DEF s1, s2, s3, s4
  <2> QED BY <2>1, <2>2 DEF Four
<1>2. /\ cat.asset = "DIG" /\ cat.owner = "me" /\ cat.amount \in Nat
      /\ IsPath(cat.id) /\ Len(cat.id) = 1
  BY OwnCoins
<1>3. rewards \in Nat /\ k \in Nat /\ cat.amount = rewards + k /\ Reserve \in Nat
  <2>1. rewards \in Nat /\ rewards <= cat.amount /\ Reserve \in Nat
    BY NumbersAssumption, DistributorAssumption DEF Refillable
  <2> QED BY <1>2, <2>1
<1> HIDE DEF k
<1>4. /\ again.owner = "distributor" /\ slot.owner = "slot"
      /\ more.owner = "reserve" /\ more.amount = Reserve + rewards /\ more.asset = "DIG"
      /\ back.owner = "me" /\ back.amount = k /\ back.asset = "DIG"
  BY DEF Output
<1>5. s1.coin = Distributor /\ s2.coin = ReserveCoin /\ s3.coin = RewardSlot /\ s4.coin = cat
  BY DEF Spending
<1>6. /\ s1.creates = <<again, slot>> /\ s2.creates = <<more>> /\ s3.creates = <<>>
      /\ s4.creates = Change(k, "DIG")
  BY DEF Spending
<1>7. /\ s1.fee = 0 /\ s2.fee = 0 /\ s3.fee = 0 /\ s4.fee = 0
      /\ s1.needs = {} /\ s2.needs = {} /\ s3.needs = {} /\ s4.needs = {}
  BY DEF Spending
<1> HIDE DEF s1, s2, s3, s4
<1>8. Turns(s1, again, slot)
  BY <1>5, <1>6, DistributorTurns, Zenon
<1>9. Comes({s1}, 0, 0) /\ ToSet(s1.creates) = {again, slot} /\ MakesOneOdd(s1)
  BY <1>8, Zenon DEF Turns
<1> HIDE DEF again, slot, more
<1>10. Comes({s2}, 0, 0 - rewards) /\ ToSet(s2.creates) = {more}
  <2>1. /\ s2.coin.amount \in Nat /\ IsPath(s2.coin.id) /\ more.amount \in Nat
        /\ s2.creates = <<more>> /\ s2.coin.asset = more.asset /\ more.asset = "DIG"
        /\ 0 - rewards = s2.coin.amount - more.amount
    <3>1. s2.coin.amount = Reserve /\ IsPath(s2.coin.id) /\ s2.coin.asset = "DIG"
      BY <1>5, DistributorCoins
    <3> QED BY <1>3, <1>4, <1>6, <3>1
  <2>2. Gives(s2, more, 0, 0 - rewards)
    BY <2>1, OneForOne, Zenon
  <2> QED BY <2>2, Zenon DEF Gives
<1>11. Comes({s3}, 0, 0) /\ ToSet(s3.creates) = {}
  <2>1. s3.coin.amount = 0 /\ s3.coin.asset = "XCH" /\ IsPath(s3.coin.id) /\ 0 \in Nat
    BY <1>5, DistributorCoins
  <2> QED BY <1>6, <2>1, OneForNone, Zenon
<1>12. Comes({s4}, 0, rewards) /\ \A x \in ToSet(s4.creates) : x = back
  <2>1. s4.coin.amount \in Nat /\ IsPath(s4.coin.id)
    BY <1>2, <1>5
  <2>2. /\ Sound(s4) /\ \A x \in ToSet(s4.creates) : x = back
        /\ \A a : Takes(s4, a, Bears(back, a))
    BY <1>3, <1>6, <2>1, MakesChange, Zenon DEF back
  <2>3. /\ Bears(back, "XCH") = 0 /\ Bears(back, "DIG") = k
        /\ 0 = Bears(s4.coin, "XCH") - 0 /\ rewards = Bears(s4.coin, "DIG") - k
        /\ 0 \in Nat /\ k \in Nat
    BY <1>2, <1>3, <1>4, <1>5 DEF Bears
  <2>4. Takes(s4, "XCH", 0) /\ Takes(s4, "DIG", k)
    <3>1. Takes(s4, "XCH", Bears(back, "XCH")) /\ Takes(s4, "DIG", Bears(back, "DIG"))
      BY <2>2, Zenon
    <3> QED BY <2>3, <3>1, Zenon
  <2>5. Comes({s4}, 0, rewards)
    BY <2>1, <2>2, <2>3, <2>4, StepIs, Zenon
  <2> QED BY <2>2, <2>5
<1> HIDE DEF back
<1>13. /\ s2.coin # s1.coin /\ s3.coin # s1.coin /\ s4.coin # s1.coin
       /\ s3.coin # s2.coin /\ s4.coin # s2.coin /\ s4.coin # s3.coin
  <2>1. /\ s1.coin.owner = "distributor" /\ s2.coin.owner = "reserve"
        /\ s3.coin.owner = "slot" /\ s4.coin.owner = "me"
    BY <1>2, <1>5, DistributorCoins
  <2> QED BY <2>1
<1>14. /\ Apart(s2, s1) /\ Apart(s3, s1) /\ Apart(s3, s2)
       /\ Apart(s4, s1) /\ Apart(s4, s2) /\ Apart(s4, s3)
  <2>1. /\ Differ(more, again) /\ Differ(more, slot) /\ Differ(back, again)
        /\ Differ(back, slot) /\ Differ(back, more)
    BY <1>4 DEF Differ
  <2> QED BY <1>9, <1>10, <1>11, <1>12, <1>13, <2>1, ApartByOutputs
<1>15. Comes(bundle, 0, 0)
  <2>1. 0 = 0 + 0 + 0 + 0 /\ 0 = 0 + (0 - rewards) + 0 + rewards
    BY <1>3
  <2> QED BY <1>9, <1>10, <1>11, <1>12, <1>14, <2>1, FourTogether, Zenon
<1>16. Spent(bundle) = {Distributor, ReserveCoin, RewardSlot, cat}
  BY <1>5 DEF Spent, Four
<1>17. s1 \in bundle /\ s2 \in bundle /\ \A s \in bundle : s = s1 \/ s = s2 \/ s = s3 \/ s = s4
  BY DEF Four
<1> HIDE DEF bundle
<1>18. IsSupplied(bundle)
  BY <1>2, <1>16, DistributorCoins DEF IsSupplied
<1>19. Lands(bundle) /\ Donated(bundle) = 0
  <2>1. \A s \in bundle : MakesOneOdd(s)
    <3>1. /\ s2.coin.owner = "reserve" /\ s3.coin.owner = "slot" /\ s4.coin.owner = "me"
      BY <1>2, <1>5, DistributorCoins
    <3>2. MakesOneOdd(s2) /\ MakesOneOdd(s3) /\ MakesOneOdd(s4)
      BY <3>1 DEF MakesOneOdd, Singletons
    <3> QED BY <1>9, <1>17, <3>2
  <2>2. \A s \in bundle : \A n \in s.needs :
           \E t \in bundle : n.of = t.coin.id /\ n.said \in t.says
    BY <1>7, <1>17
  <2>3. \E s \in bundle : s.fee = 0 /\ \A t \in bundle : t # s => t.fee = 0
    BY <1>7, <1>17
  <2>4. 0 \in Nat
    OBVIOUS
  <2> QED BY <1>15, <1>18, <2>1, <2>2, <2>3, <2>4, ItLands, Zenon
<1>20. more \in Outputs(Left(bundle))
  <2> DEFINE c == Made(ReserveCoin, more)
  <2>1. Len(c.id) = 2
    <3>1. Len(c.id) = Len(ReserveCoin.id) + 1
      BY DistributorCoins, MadeCoins, Zenon
    <3> QED BY <3>1, DistributorCoins
  <2>2. Made(s2.coin, more) = c
    BY <1>5
  <2> HIDE DEF c
  <2>3. c \notin Spent(bundle)
    BY <1>2, <1>16, <2>1, DistributorCoins
  <2>4. more \in ToSet(s2.creates)
    BY <1>10
  <2> QED BY <1>17, <2>2, <2>3, <2>4, OutputIsLeft, Zenon DEF more
<1>21. WellFormed(bundle)
  BY <1>15 DEF Comes
<1>22. Settles(bundle, {more}, 0)
  BY <1>18, <1>19, <1>20, <1>21 DEF Settles
<1>23. Gets("reserve", Reserve + rewards, "DIG") = {more}
  BY DEF Gets, more
<1> QED BY <1>1, <1>22, <1>23

(* What a claim takes out of the reserve is in it.                         *)
LEMMA ShareIsInTheReserve ==
  ASSUME NEW coin, NEW claim \in Claims, Recoverable(coin, claim)
  PROVE  Share(claim) \in Nat /\ Reserve - Share(claim) \in Nat /\ Reserve \in Nat
<1>1. /\ claim.promised \in Nat /\ ShareBps \in Nat /\ Reserve \in Nat
      /\ claim.slot \in Nat /\ claim.slot <= Reserve
  BY NumbersAssumption, DistributorAssumption DEF Claims
<1>2. Share(claim) \in Nat
  <2> DEFINE n == claim.promised * ShareBps
  <2>1. n \in Nat
    BY <1>1
  <2> HIDE DEF n
  <2>2. n \div 10000 \in Nat
    BY <2>1
  <2> QED BY <2>2 DEF Share, n
<1>3. Share(claim) <= claim.slot
  BY <1>1, <1>2 DEF Recoverable
<1> HIDE DEF Share
<1> QED BY <1>1, <1>2, <1>3

(* begin_reward_distributor_clawback: the share leaves the reserve for the *)
(* wallet, and the coin that authorizes it is made again.                  *)
LEMMA ClawbackIsExact ==
  ASSUME NEW coin \in Own("XCH"), NEW claim \in Claims, Recoverable(coin, claim)
  PROVE  Settles(ClawbackBundle(coin, claim),
                 Gets("reserve", Reserve - Share(claim), "DIG"), 0)
<1> DEFINE share  == Share(claim)
           again  == Output("distributor", 1, "XCH")
           slot   == Output("slot", 0, "XCH")
           less   == Output("reserve", Reserve - share, "DIG")
           back   == Output("me", share, "DIG")
           whole  == Output("me", coin.amount, "XCH")
           s1 == Spending(Distributor, <<again, slot>>)
           s2 == Spending(ReserveCoin, <<less>> \o Change(share, "DIG"))
           s3 == Spending(Commitment, <<>>)
           s4 == Spending(RewardSlot, <<>>)
           s5 == Spending(coin, <<whole>>)
           four   == Four(s1, s2, s3, s4)
           bundle == four \cup {s5}
<1>1. ClawbackBundle(coin, claim) = bundle
  <2>1. Staged(claim.staged) = {}
    BY DEF Recoverable, Staged
  <2>2. ClawbackBundle(coin, claim) = {s1, s2, s3, s4, s5} \cup Staged(claim.staged)
    BY Zenon DEF ClawbackBundle
  <2> HIDE DEF s1, s2, s3, s4, s5
  <2> QED BY <2>1, <2>2 DEF Four
<1>2. /\ coin.asset = "XCH" /\ coin.owner = "me" /\ coin.amount \in Nat
      /\ IsPath(coin.id) /\ Len(coin.id) = 1
  BY OwnCoins
<1>3. share \in Nat /\ Reserve - share \in Nat /\ Reserve \in Nat
  BY ShareIsInTheReserve
<1> HIDE DEF share
<1>4. /\ again.owner = "distributor" /\ slot.owner = "slot"
      /\ less.owner = "reserve" /\ less.amount = Reserve - share /\ less.asset = "DIG"
      /\ back.owner = "me" /\ back.amount = share /\ back.asset = "DIG"
      /\ whole.owner = "me" /\ whole.amount = coin.amount /\ whole.asset = "XCH"
  BY DEF Output
<1>5. /\ s1.coin = Distributor /\ s2.coin = ReserveCoin /\ s3.coin = Commitment
      /\ s4.coin = RewardSlot /\ s5.coin = coin
  BY DEF Spending
<1>6. /\ s1.creates = <<again, slot>> /\ s2.creates = <<less>> \o Change(share, "DIG")
      /\ s3.creates = <<>> /\ s4.creates = <<>> /\ s5.creates = <<whole>>
  BY DEF Spending
<1>7. /\ s1.fee = 0 /\ s2.fee = 0 /\ s3.fee = 0 /\ s4.fee = 0 /\ s5.fee = 0
      /\ s1.needs = {} /\ s2.needs = {} /\ s3.needs = {} /\ s4.needs = {} /\ s5.needs = {}
  BY DEF Spending
<1> HIDE DEF s1, s2, s3, s4, s5
<1>8. Turns(s1, again, slot)
  BY <1>5, <1>6, DistributorTurns, Zenon
<1>9. Comes({s1}, 0, 0) /\ ToSet(s1.creates) = {again, slot} /\ MakesOneOdd(s1)
  BY <1>8, Zenon DEF Turns
<1> HIDE DEF again, slot, less, whole
<1>10. /\ Comes({s2}, 0, 0) /\ less \in ToSet(s2.creates)
       /\ \A x \in ToSet(s2.creates) : x = less \/ x = back
  <2>1. /\ s2.coin.amount \in Nat /\ IsPath(s2.coin.id) /\ less.amount \in Nat
        /\ Differ(less, back)
    <3>1. s2.coin.amount = Reserve /\ IsPath(s2.coin.id)
      BY <1>5, DistributorCoins
    <3> QED BY <1>3, <1>4, <3>1 DEF Differ
  <2>2. /\ Sound(s2) /\ less \in ToSet(s2.creates)
        /\ \A x \in ToSet(s2.creates) : x = less \/ x = back
        /\ \A a : Takes(s2, a, Bears(less, a) + Bears(back, a))
    BY <1>3, <1>6, <2>1, MakesOneAndChange, Zenon DEF back
  <2>3. /\ Bears(less, "XCH") + Bears(back, "XCH") = 0
        /\ Bears(less, "DIG") + Bears(back, "DIG") = Reserve
        /\ 0 = Bears(s2.coin, "XCH") - 0 /\ 0 = Bears(s2.coin, "DIG") - Reserve
        /\ 0 \in Nat
    <3>1. s2.coin.amount = Reserve /\ s2.coin.asset = "DIG"
      BY <1>5, DistributorCoins
    <3> QED BY <1>3, <1>4, <3>1 DEF Bears
  <2>4. Takes(s2, "XCH", 0) /\ Takes(s2, "DIG", Reserve)
    <3>1. /\ Takes(s2, "XCH", Bears(less, "XCH") + Bears(back, "XCH"))
          /\ Takes(s2, "DIG", Bears(less, "DIG") + Bears(back, "DIG"))
      BY <2>2, Zenon
    <3> QED BY <2>3, <3>1, Zenon
  <2>5. Comes({s2}, 0, 0)
    BY <1>3, <2>1, <2>2, <2>3, <2>4, StepIs, Zenon
  <2> QED BY <2>2, <2>5
<1>11. /\ Comes({s3}, 0, 0) /\ ToSet(s3.creates) = {}
       /\ Comes({s4}, 0, 0) /\ ToSet(s4.creates) = {}
  <2>1. /\ s3.coin.amount = 0 /\ s3.coin.asset = "XCH" /\ IsPath(s3.coin.id) /\ 0 \in Nat
        /\ s4.coin.amount = 0 /\ s4.coin.asset = "XCH" /\ IsPath(s4.coin.id)
    BY <1>5, DistributorCoins
  <2> QED BY <1>6, <2>1, OneForNone, Zenon
<1>12. Comes({s5}, 0, 0) /\ ToSet(s5.creates) = {whole}
  <2>1. /\ s5.coin.amount \in Nat /\ IsPath(s5.coin.id) /\ whole.amount \in Nat
        /\ s5.creates = <<whole>> /\ s5.coin.asset = whole.asset /\ whole.asset = "XCH"
        /\ 0 = s5.coin.amount - whole.amount
    BY <1>2, <1>4, <1>5, <1>6
  <2>2. Gives(s5, whole, 0, 0)
    BY <2>1, OneForOne, Zenon
  <2> QED BY <2>2, Zenon DEF Gives
<1> HIDE DEF back
<1>13. /\ s2.coin # s1.coin /\ s3.coin # s1.coin /\ s4.coin # s1.coin
       /\ s3.coin # s2.coin /\ s4.coin # s2.coin /\ s4.coin # s3.coin
       /\ s5.coin # s1.coin /\ s5.coin # s2.coin /\ s5.coin # s3.coin /\ s5.coin # s4.coin
  <2>1. /\ s1.coin.owner = "distributor" /\ s2.coin.owner = "reserve"
        /\ s3.coin.owner = "slot" /\ s4.coin.owner = "slot" /\ s5.coin.owner = "me"
        /\ s4.coin # s3.coin
    BY <1>2, <1>5, DistributorCoins
  <2> QED BY <2>1
<1>14. /\ Apart(s2, s1) /\ Apart(s3, s1) /\ Apart(s3, s2)
       /\ Apart(s4, s1) /\ Apart(s4, s2) /\ Apart(s4, s3)
  <2>1. /\ Differ(less, again) /\ Differ(less, slot) /\ Differ(back, again)
        /\ Differ(back, slot)
    BY <1>4 DEF Differ
  <2> QED BY <1>9, <1>10, <1>11, <1>13, <2>1, ApartByOutputs
<1>15. \A t \in four : Apart(s5, t)
  <2>1. /\ Differ(whole, again) /\ Differ(whole, slot) /\ Differ(whole, less)
        /\ Differ(whole, back)
    BY <1>4 DEF Differ
  <2>2. Apart(s5, s1) /\ Apart(s5, s2) /\ Apart(s5, s3) /\ Apart(s5, s4)
    BY <1>9, <1>10, <1>11, <1>12, <1>13, <2>1, ApartByOutputs
  <2> QED BY <2>2 DEF Four
<1>16. Comes(bundle, 0, 0)
  <2>1. 0 = 0 + 0 + 0 + 0 /\ 0 + 0 = 0
    OBVIOUS
  <2>2. Comes(four, 0, 0)
    BY <1>9, <1>10, <1>11, <1>14, <2>1, FourTogether, Zenon
  <2> HIDE DEF four
  <2>3. Comes(bundle, 0 + 0, 0 + 0)
    BY <1>12, <1>15, <2>2, Joined, Zenon
  <2> QED BY <2>1, <2>3
<1>17. Spent(bundle) = {Distributor, ReserveCoin, Commitment, RewardSlot, coin}
  BY <1>5 DEF Spent, Four
<1>18. /\ s1 \in bundle /\ s2 \in bundle
       /\ \A s \in bundle : s = s1 \/ s = s2 \/ s = s3 \/ s = s4 \/ s = s5
  BY DEF Four
<1> HIDE DEF bundle, four
<1>19. IsSupplied(bundle)
  BY <1>2, <1>17, DistributorCoins DEF IsSupplied
<1>20. Lands(bundle) /\ Donated(bundle) = 0
  <2>1. \A s \in bundle : MakesOneOdd(s)
    <3>1. /\ s2.coin.owner = "reserve" /\ s3.coin.owner = "slot" /\ s4.coin.owner = "slot"
          /\ s5.coin.owner = "me"
      BY <1>2, <1>5, DistributorCoins
    <3>2. MakesOneOdd(s2) /\ MakesOneOdd(s3) /\ MakesOneOdd(s4) /\ MakesOneOdd(s5)
      BY <3>1 DEF MakesOneOdd, Singletons
    <3> QED BY <1>9, <1>18, <3>2
  <2>2. \A s \in bundle : \A n \in s.needs :
           \E t \in bundle : n.of = t.coin.id /\ n.said \in t.says
    BY <1>7, <1>18
  <2>3. \E s \in bundle : s.fee = 0 /\ \A t \in bundle : t # s => t.fee = 0
    BY <1>7, <1>18
  <2>4. 0 \in Nat
    OBVIOUS
  <2> QED BY <1>16, <1>19, <2>1, <2>2, <2>3, <2>4, ItLands, Zenon
<1>21. less \in Outputs(Left(bundle))
  <2> DEFINE c == Made(ReserveCoin, less)
  <2>1. Len(c.id) = 2
    <3>1. Len(c.id) = Len(ReserveCoin.id) + 1
      BY DistributorCoins, MadeCoins, Zenon
    <3> QED BY <3>1, DistributorCoins
  <2>2. Made(s2.coin, less) = c
    BY <1>5
  <2> HIDE DEF c
  <2>3. c \notin Spent(bundle)
    BY <1>2, <1>17, <2>1, DistributorCoins
  <2> QED BY <1>10, <1>18, <2>2, <2>3, OutputIsLeft, Zenon DEF less
<1>22. WellFormed(bundle)
  BY <1>16 DEF Comes
<1>23. Settles(bundle, {less}, 0)
  BY <1>19, <1>20, <1>21, <1>22 DEF Settles
<1>24. Gets("reserve", Reserve - share, "DIG") = {less}
  BY DEF Gets, less
<1> QED BY <1>1, <1>23, <1>24 DEF share

(* A plan of a kind, for a bundle.                                         *)
IsPlan(p, what, bundle, gets, fee, named) ==
  /\ p.what = what /\ p.bundle = bundle /\ p.gets = gets /\ p.fee = fee
  /\ p.named = named

(* Planned makes a plan of its parts.                                      *)
LEMMA PlannedIs ==
  \A what, bundle, gets, fee, named, p :
    p = Planned(what, bundle, gets, fee, named) => IsPlan(p, what, bundle, gets, fee, named)
BY DEF Planned, IsPlan

IsDidMint(p, fee, c) ==
  IsPlan(p, "did mint", DidMintBundle(c, fee), Gets("did", 1, "XCH"),
         ChangeAndFee(c, fee).fee, {c})

IsStoreLaunch(p, fee, c) ==
  IsPlan(p, "store launch", StoreLaunchBundle(c, fee),
         Gets("did", 1, "XCH") \cup Gets("store", 1, "XCH"), fee, {Did, c})

IsEdit(p) == IsPlan(p, "edit", EditBundle, Gets("store", 1, "XCH"), 0, {Store})
IsMelt(p) == IsPlan(p, "melt", MeltBundle, {}, 2, {Did, Store})

IsDistributor(p, funding, cat, fee) ==
  IsPlan(p, "distributor", LaunchBundle(funding, cat, fee),
         Gets("distributor", 1, "XCH") \cup Gets("manager", 1, "XCH")
           \cup Gets("me", cat.amount, "DIG"), fee, {funding, cat})

IsRefill(p, cat, rewards, staged) ==
  IsPlan(p, "refill", RefillBundle(cat, rewards, staged),
         Gets("reserve", Reserve + rewards, "DIG"),
         0, {Distributor, ReserveCoin, RewardSlot, cat})

IsClawback(p, coin, claim) ==
  IsPlan(p, "clawback", ClawbackBundle(coin, claim),
         Gets("reserve", Reserve - Share(claim), "DIG"), 0,
         {Distributor, ReserveCoin, Commitment, RewardSlot, coin})

(* A gated plan is of one of seven kinds.                                  *)
LEMMA GatedIs ==
  ASSUME NEW p \in Gated
  PROVE  \/ \E fee \in Fees : \E c \in Funding(fee) : IsDidMint(p, fee, c)
         \/ \E fee \in Fees : \E c \in Funding(fee) : IsStoreLaunch(p, fee, c)
         \/ IsEdit(p)
         \/ IsMelt(p)
         \/ \E funding \in Own("XCH"), cat \in Own("DIG"), fee \in Fees, terms \in Terms :
              Launchable(funding, cat, fee, terms) /\ IsDistributor(p, funding, cat, fee)
         \/ \E cat \in Own("DIG"), rewards \in Amounts, epoch \in {0, 1},
               staged \in SUBSET Own("DIG") :
              Refillable(cat, rewards, epoch, staged) /\ IsRefill(p, cat, rewards, staged)
         \/ \E coin \in Own("XCH"), claim \in Claims :
              Recoverable(coin, claim) /\ IsClawback(p, coin, claim)
<1>1. CASE p \in DidMints
  <2>1. PICK fee \in Fees : \E c \in Funding(fee) :
          p = Planned("did mint", DidMintBundle(c, fee), Gets("did", 1, "XCH"),
                      ChangeAndFee(c, fee).fee, {c})
    BY <1>1, Zenon DEF DidMints
  <2>2. \E c \in Funding(fee) : IsDidMint(p, fee, c)
    BY <2>1, PlannedIs, Zenon DEF IsDidMint
  <2> QED BY <2>2, Zenon
<1>2. CASE p \in StoreLaunches
  <2>1. PICK fee \in Fees : \E c \in Funding(fee) :
          p = Planned("store launch", StoreLaunchBundle(c, fee),
                      Gets("did", 1, "XCH") \cup Gets("store", 1, "XCH"), fee, {Did, c})
    BY <1>2, Zenon DEF StoreLaunches
  <2>2. \E c \in Funding(fee) : IsStoreLaunch(p, fee, c)
    BY <2>1, PlannedIs, Zenon DEF IsStoreLaunch
  <2> QED BY <2>2, Zenon
<1>3. CASE p \in Edits
  <2>1. p = Planned("edit", EditBundle, Gets("store", 1, "XCH"), 0, {Store})
    BY <1>3, Zenon DEF Edits
  <2>2. IsEdit(p)
    BY <2>1, PlannedIs, Zenon DEF IsEdit
  <2> QED BY <2>2, Zenon
<1>4. CASE p \in Melted
  <2>1. p = Planned("melt", MeltBundle, {}, 2, {Did, Store})
    BY <1>4, Zenon DEF Melted
  <2>2. IsMelt(p)
    BY <2>1, PlannedIs, Zenon DEF IsMelt
  <2> QED BY <2>2, Zenon
<1>5. CASE p \in DistributorLaunches
  <2>1. PICK x \in Own("XCH") \X Own("DIG") \X Fees \X Terms :
          /\ Launchable(x[1], x[2], x[3], x[4])
          /\ p = Planned("distributor", LaunchBundle(x[1], x[2], x[3]),
                   Gets("distributor", 1, "XCH") \cup Gets("manager", 1, "XCH")
                     \cup Gets("me", x[2].amount, "DIG"), x[3], {x[1], x[2]})
    BY <1>5, Zenon DEF DistributorLaunches
  <2>2. x[1] \in Own("XCH") /\ x[2] \in Own("DIG") /\ x[3] \in Fees /\ x[4] \in Terms
    OBVIOUS
  <2>3. IsDistributor(p, x[1], x[2], x[3])
    BY <2>1, PlannedIs, Zenon DEF IsDistributor
  <2> QED BY <2>1, <2>2, <2>3, Zenon
<1>6. CASE p \in Refills
  <2>1. PICK x \in Own("DIG") \X Amounts \X {0, 1} \X SUBSET Own("DIG") :
          /\ Refillable(x[1], x[2], x[3], x[4])
          /\ p = Planned("refill", RefillBundle(x[1], x[2], x[4]),
                         Gets("reserve", Reserve + x[2], "DIG"),
                         0, {Distributor, ReserveCoin, RewardSlot, x[1]})
    BY <1>6, Zenon DEF Refills
  <2>2. x[1] \in Own("DIG") /\ x[2] \in Amounts /\ x[3] \in {0, 1} /\ x[4] \in SUBSET Own("DIG")
    OBVIOUS
  <2>3. IsRefill(p, x[1], x[2], x[4])
    BY <2>1, PlannedIs, Zenon DEF IsRefill
  <2> QED BY <2>1, <2>2, <2>3, Zenon
<1>7. CASE p \in Clawbacks
  <2>1. PICK x \in Own("XCH") \X Claims :
          /\ Recoverable(x[1], x[2])
          /\ p = Planned("clawback", ClawbackBundle(x[1], x[2]),
                   Gets("reserve", Reserve - Share(x[2]), "DIG"), 0,
                   {Distributor, ReserveCoin, Commitment, RewardSlot, x[1]})
    BY <1>7, Zenon DEF Clawbacks
  <2>2. x[1] \in Own("XCH") /\ x[2] \in Claims
    OBVIOUS
  <2>3. IsClawback(p, x[1], x[2])
    BY <2>1, PlannedIs, Zenon DEF IsClawback
  <2> QED BY <2>1, <2>2, <2>3, Zenon
<1> QED BY <1>1, <1>2, <1>3, <1>4, <1>5, <1>6, <1>7, Zenon DEF Gated

(* No kind of gated plan is a transfer.                                    *)
LEMMA KindsAreNotTransfers ==
  \A k \in {"did mint", "store launch", "edit", "melt", "distributor", "refill", "clawback"} :
    k # "transfer"
BY Zenon

(* What is gated comes to what was asked.                                  *)
LEMMA GatedSettle ==
  ASSUME NEW p \in Gated
  PROVE  Settles(p.bundle, p.gets, p.fee) /\ p.what # "transfer"
<1>1. CASE \E fee \in Fees : \E c \in Funding(fee) : IsDidMint(p, fee, c)
  BY <1>1, DidMintIsExact, KindsAreNotTransfers, Zenon DEF IsDidMint, IsPlan
<1>2. CASE \E fee \in Fees : \E c \in Funding(fee) : IsStoreLaunch(p, fee, c)
  BY <1>2, StoreLaunchIsExact, KindsAreNotTransfers, Zenon DEF IsStoreLaunch, IsPlan
<1>3. CASE IsEdit(p)
  BY <1>3, EditIsExact, KindsAreNotTransfers, Zenon DEF IsEdit, IsPlan
<1>4. CASE IsMelt(p)
  BY <1>4, MeltIsExact, KindsAreNotTransfers, Zenon DEF IsMelt, IsPlan
<1>5. CASE \E funding \in Own("XCH"), cat \in Own("DIG"), fee \in Fees, terms \in Terms :
             Launchable(funding, cat, fee, terms) /\ IsDistributor(p, funding, cat, fee)
  BY <1>5, DistributorIsExact, KindsAreNotTransfers, Zenon DEF IsDistributor, IsPlan
<1>6. CASE \E cat \in Own("DIG"), rewards \in Amounts, epoch \in {0, 1},
              staged \in SUBSET Own("DIG") :
             Refillable(cat, rewards, epoch, staged) /\ IsRefill(p, cat, rewards, staged)
  BY <1>6, RefillIsExact, KindsAreNotTransfers, Zenon DEF IsRefill, IsPlan
<1>7. CASE \E coin \in Own("XCH"), claim \in Claims :
             Recoverable(coin, claim) /\ IsClawback(p, coin, claim)
  BY <1>7, ClawbackIsExact, KindsAreNotTransfers, Zenon DEF IsClawback, IsPlan
<1> QED BY <1>1, <1>2, <1>3, <1>4, <1>5, <1>6, <1>7, GatedIs, Zenon

(* Every gated plan's bundle is exact.                                     *)
LEMMA GatedBundlesAreExact == GatedAreExact
BY GatedSettle, Zenon DEF GatedAreExact, Exact, Settles

(***************************************************************************)
(* Transfers pay exactly what was asked                                    *)
(***************************************************************************)
(* Some of the coins are worth no more than all of them.                   *)
LEMMA SomeAreWorthLess ==
  ASSUME NEW C \in SUBSET Purse, NEW D \in SUBSET C, NEW assets
  PROVE  /\ Countable(C) /\ Countable(D)
         /\ ValueOf(C, assets) \in Nat /\ ValueOf(D, assets) \in Nat
         /\ ValueOf(D, assets) <= ValueOf(C, assets)
<1>1. IsFiniteSet(Purse) /\ \A c \in Purse : c.amount \in Nat
  BY PurseAssumption
<1>2. IsFiniteSet(C) /\ IsFiniteSet(D)
  BY <1>1, FS_Subset
<1>3. Countable(C) /\ Countable(D)
  BY <1>1, <1>2 DEF Countable
<1>4. C \in SUBSET C /\ \A c \in C : c.amount \in Nat
  BY <1>1
<1> DEFINE v == ValueOf(C, assets)
           w == ValueOf(D, assets)
           x == ValueOf(C \ D, assets)
<1>5. v = w + x /\ v \in Nat /\ w \in Nat /\ x \in Nat
  BY <1>2, <1>4, ValueSplits, Zenon
<1> HIDE DEF v, w, x
<1>6. w <= v
  BY <1>5
<1> QED BY <1>3, <1>5, <1>6 DEF v, w

(* Coins of an asset are worth nothing of another.                         *)
LEMMA OfAnotherAsset ==
  ASSUME NEW C, NEW asset, NEW other, \A c \in C : c.asset = asset, asset # other
  PROVE  ValueOf(C, {other}) = 0
<1>1. InAssets(C, {other}) = InAssets({}, {other})
  BY DEF InAssets
<1> QED BY <1>1, ValueOfTheAsset, ValueOfOne

(* What a payment and its change are worth.                                *)
Paid(lead, amount, asset) == Made(lead, Output("payee", amount, asset))

PaidAndKept(lead, amount, k, asset) == {Paid(lead, amount, asset)} \cup ChangeOf(lead, k, asset)

IsWorth(coins, asset, n) ==
  /\ Countable(coins) /\ ValueOf(coins, {asset}) = n
  /\ \A c \in coins : c.asset = asset

AreMine(coins) == \A c \in coins : c.owner = "me"

(* Change is worth what is left, and payment and change what the lead had  *)
(* to pay with.                                                            *)
LEMMA KeptIsWorth ==
  ASSUME NEW lead, NEW amount \in Nat, NEW k \in Nat, NEW asset
  PROVE  /\ IsWorth(ChangeOf(lead, k, asset), asset, k) /\ AreMine(ChangeOf(lead, k, asset))
         /\ IsWorth(PaidAndKept(lead, amount, k, asset), asset, amount + k)
<1> DEFINE pay  == Paid(lead, amount, asset)
           mine == ChangeOf(lead, k, asset)
           x    == Made(lead, Output("me", k, asset))
<1>1. pay.owner = "payee" /\ pay.amount = amount /\ pay.asset = asset
  BY DEF Paid, Made, Output
<1>2. x.owner = "me" /\ x.amount = k /\ x.asset = asset
  BY DEF Made, Output
<1>3. mine = IF k > 0 THEN {x} ELSE {}
  BY DEF ChangeOf
<1>4. /\ \A c \in mine : c.owner = "me" /\ c.asset = asset
      /\ ValueOf(mine, {asset}) = k
  BY ChangeIsWorth
<1>5. PaidAndKept(lead, amount, k, asset) = {pay} \cup mine
  BY DEF PaidAndKept
<1> HIDE DEF pay, mine, x
<1>6. Countable({x}) /\ Countable({})
  <2>1. x.amount \in Nat
    BY <1>2
  <2> QED BY <2>1, OneCoin, NoCoin, Zenon
<1>7. Countable(mine)
  BY <1>3, <1>6
<1>8. Countable({pay}) /\ ValueOf({pay}, {asset}) = amount
  <2>1. pay.amount \in Nat /\ Bears(pay, asset) = amount
    BY <1>1 DEF Bears
  <2> QED BY <2>1, OneCoin
<1>9. AreBoth({pay}, mine, {asset})
  <2>1. \A d \in {pay} : d \notin mine
    BY <1>1, <1>4
  <2> DEFINE D == {pay}
             E == mine
             assets == {asset}
  <2>2. Countable(D) /\ Countable(E) /\ \A d \in D : d \notin E
    BY <1>7, <1>8, <2>1
  <2> HIDE DEF D, E, assets
  <2>3. AreBoth(D, E, assets)
    BY <2>2, ApartAddUp, Zenon
  <2> QED BY <2>3, Zenon DEF D, E, assets
<1>10. IsWorth(mine, asset, k) /\ AreMine(mine)
  BY <1>4, <1>7 DEF IsWorth, AreMine
<1>11. IsWorth({pay} \cup mine, asset, amount + k)
  BY <1>1, <1>4, <1>8, <1>9 DEF IsWorth, AreBoth
<1> QED BY <1>5, <1>10, <1>11 DEF mine

(* What a transfer is to pay, and what no part of it may do.               *)
PaysExactly(bundle, out, fee) ==
  /\ Lands(bundle) /\ Donated(bundle) = fee
  /\ out \in Outputs(Left(bundle))
  /\ \A asset \in {"XCH", "DIG"} :
       Loss(bundle, asset) = ValueOf({out}, {asset}) + IF asset = "XCH" THEN fee ELSE 0
  /\ \A part \in SUBSET bundle : part # {} /\ Lands(part) =>
       out \in Outputs(Left(part)) /\ Donated(part) <= fee

(* What an ordinary bundle spends is the purse's.                          *)
LEMMA OrdinarySpent ==
  ASSUME NEW bundle, \A s \in bundle : Ordinary(s)
  PROVE  /\ Spent(bundle) \in SUBSET Purse
         /\ \A c \in Spent(bundle) : Len(c.id) = 1 /\ c.owner = "me"
<1>1. \A c \in Spent(bundle) : c \in Purse
  BY DEF Spent, Ordinary
<1> QED BY <1>1, CoinsOfThePurse

(* A bundle of the wallet's coins is what it pays and keeps short of.      *)
Makes(bundle, pay, mine) ==
  /\ pay.owner = "payee" /\ \A c \in mine : c.owner = "me"
  /\ Created(bundle) = {pay} \cup mine

(* What the wallet loses by an ordinary bundle is what it spends less what *)
(* it keeps, and the payment is left on the chain.                         *)
LEMMA OrdinaryLoss ==
  ASSUME NEW bundle, \A s \in bundle : Ordinary(s), NEW pay, NEW mine,
         Makes(bundle, pay, mine), NEW asset
  PROVE  /\ Loss(bundle, asset) = ValueOf(Spent(bundle), {asset}) - ValueOf(mine, {asset})
         /\ Output(pay.owner, pay.amount, pay.asset) \in Outputs(Left(bundle))
<1>1. Roots(bundle) = Spent(bundle) /\ Left(bundle) = {pay} \cup mine
  BY NothingPassesThrough DEF Makes
<1>2. \A c \in Spent(bundle) : c.owner = "me"
  BY OrdinarySpent, Zenon
<1>3. Of(Roots(bundle), "me") = Spent(bundle)
  BY <1>1, <1>2 DEF Of
<1>4. Of(Left(bundle), "me") = mine
  BY <1>1 DEF Of, Makes
<1>5. Output(pay.owner, pay.amount, pay.asset) \in Outputs(Left(bundle))
  BY <1>1 DEF Outputs
<1> QED BY <1>3, <1>4, <1>5, Zenon DEF Loss

(* Such a bundle lands when its values do.                                 *)
LEMMA OrdinaryLands ==
  ASSUME NEW bundle, \A s \in bundle : Ordinary(s) /\ Sound(s),
         \A s \in bundle : \A n \in s.needs :
           \E t \in bundle : n.of = t.coin.id /\ n.said \in t.says,
         Donated(bundle) \in Nat, Reserved(bundle) = Donated(bundle),
         ValueOf(Spent(bundle), {"DIG"}) = ValueOf(Created(bundle), {"DIG"})
  PROVE  Lands(bundle)
<1>1. Roots(bundle) = Spent(bundle)
  BY NothingPassesThrough
<1>2. \A c \in Spent(bundle) : Len(c.id) = 1 /\ c.owner = "me"
  BY OrdinarySpent, Zenon
<1>3. \A s \in bundle : s.coin.owner \notin Singletons
  BY <1>2 DEF Spent, Singletons
<1>4. \A s \in bundle : Cardinality(ToSet(s.creates)) = Len(s.creates)
  BY DEF Sound
<1>5. Spent(bundle) \ Roots(bundle) \subseteq Created(bundle)
  BY <1>1
<1>6. Donated(bundle) >= Reserved(bundle)
  OBVIOUS
<1> QED BY <1>1, <1>2, <1>3, <1>4, <1>5, <1>6, Zenon DEF Lands

(* The transfer of XCH that a plan is: the first spend pays and keeps the  *)
(* change, and the others ask for its word.                                *)
AsksFor(s, first, word) == s.needs = {[of |-> first.coin.id, said |-> word]}

IsXchTransfer(bundle, coins, first, amount, fee, word) ==
  /\ IsFiniteSet(bundle) /\ coins \in SUBSET Own("XCH") /\ Spent(bundle) = coins
  /\ ValueOf(coins, {"XCH"}) >= amount + fee
  /\ first \in bundle
  /\ first.creates = <<Output("payee", amount, "XCH")>>
                       \o Change(ValueOf(coins, {"XCH"}) - (amount + fee), "XCH")
  /\ first.fee = fee /\ first.needs = {}
  /\ bundle = {first} \/ word \in first.says
  /\ \A s \in bundle : s # first =>
       /\ s.coin # first.coin /\ s.creates = <<>> /\ s.fee = 0
       /\ AsksFor(s, first, word)

(* build_transfer_spends, "change is computed exactly": the payee gets the *)
(* amount, the farmer the fee, and the wallet the rest.                    *)
LEMMA XchTransferIsExact ==
  ASSUME NEW bundle, NEW coins, NEW first, NEW amount \in Nat, NEW fee \in Nat, NEW word,
         IsXchTransfer(bundle, coins, first, amount, fee, word)
  PROVE  PaysExactly(bundle, Output("payee", amount, "XCH"), fee)
<1> DEFINE v    == ValueOf(coins, {"XCH"})
           k    == v - (amount + fee)
           out  == Output("payee", amount, "XCH")
           lead == first.coin
           pay  == Paid(lead, amount, "XCH")
           mine == ChangeOf(lead, k, "XCH")
           kept == PaidAndKept(lead, amount, k, "XCH")
<1>1. /\ IsFiniteSet(bundle) /\ coins \in SUBSET Own("XCH") /\ Spent(bundle) = coins
      /\ v >= amount + fee /\ first \in bundle /\ first.creates = <<out>> \o Change(k, "XCH")
      /\ first.fee = fee /\ first.needs = {}
  BY DEF IsXchTransfer
<1>2. bundle = {first} \/ word \in first.says
  BY DEF IsXchTransfer
<1>3. \A s \in bundle : s # first =>
        /\ s.coin # lead /\ s.creates = <<>> /\ s.fee = 0 /\ AsksFor(s, first, word)
  BY DEF IsXchTransfer
<1>4. coins \in SUBSET Purse /\ \A c \in coins : c.asset = "XCH"
  BY <1>1 DEF Own
<1>5. v \in Nat
  BY <1>4, SomeAreWorthLess, Zenon
<1>6. k \in Nat /\ v = amount + fee + k
  BY <1>1, <1>5
<1>7. \A s \in bundle : s.coin \in coins /\ s.coin \in Purse
  BY <1>1, <1>4 DEF Spent
<1>8. /\ out.owner = "payee" /\ out.amount = amount /\ out.asset = "XCH"
      /\ Made(lead, out) = pay
  BY DEF Output, Paid
<1> HIDE DEF v, k
<1>9. /\ Ordinary(first) /\ Sound(first)
      /\ MadeBy(first) = kept
  <2>1. lead \in Purse
    BY <1>1, <1>7
  <2>2. lead.amount \in Nat /\ IsPath(lead.id)
    BY <2>1, CoinsOfThePurse DEF IsPath
  <2>3. Differ(out, Output("me", k, "XCH"))
    BY DEF Differ, Output
  <2>4. /\ Ordinary(first)
        /\ ToSet(first.creates) = {out} \cup {x \in {Output("me", k, "XCH")} : k > 0}
    <3>1. /\ out.amount \in Nat /\ k \in Int /\ first.coin \in Purse
          /\ first.creates = <<out>> \o Change(k, "XCH")
      BY <1>1, <1>6, <1>8, <2>1
    <3> HIDE DEF out
    <3>2. PaysAndKeeps(first, out, k, "XCH")
      BY <3>1, PaymentAndChange, Zenon
    <3> QED BY <3>2, Zenon DEF PaysAndKeeps
  <2>5. Sound(first)
    <3>1. out.amount \in Nat
      BY <1>8
    <3> HIDE DEF out
    <3> QED BY <1>1, <1>6, <2>2, <2>3, <3>1, MakesOneAndChange, Zenon
  <2>6. MadeBy(first) = kept
    BY <1>8, <2>4 DEF MadeBy, ChangeOf, PaidAndKept
  <2> QED BY <2>4, <2>5, <2>6
<1>10. ASSUME NEW s \in bundle, s # first
       PROVE  Ordinary(s) /\ Sound(s) /\ MadeBy(s) = {}
  <2>1. s.creates = <<>> /\ s.coin \in Purse
    BY <1>3, <1>7, <1>10
  <2>2. s.coin.amount \in Nat /\ IsPath(s.coin.id)
    BY <2>1, CoinsOfThePurse DEF IsPath
  <2>3. Sound(s) /\ MadeBy(s) = {}
    BY <2>1, <2>2, MakesNothing, Zenon
  <2> QED BY <2>1, <2>3 DEF Ordinary
<1>11. \A s \in bundle : Ordinary(s) /\ Sound(s)
  BY <1>9, <1>10, Zenon
<1> HIDE DEF out, lead
<1>12. /\ IsWorth(kept, "XCH", amount + k) /\ IsWorth(mine, "XCH", k)
       /\ pay.owner = "payee" /\ pay.amount = amount /\ pay.asset = "XCH"
       /\ kept = {pay} \cup mine /\ \A c \in mine : c.owner = "me"
  <2>1. IsWorth(kept, "XCH", amount + k) /\ IsWorth(mine, "XCH", k) /\ AreMine(mine)
    BY <1>6, KeptIsWorth, Zenon
  <2>2. \A c \in mine : c.owner = "me"
    BY <2>1, Zenon DEF AreMine
  <2> QED BY <2>1, <2>2 DEF PaidAndKept, Paid, Made, Output
<1> HIDE DEF pay, mine, kept
<1>13. ASSUME NEW part \in SUBSET bundle, first \in part
       PROVE  /\ Created(part) = kept /\ Spent(part) \in SUBSET coins
              /\ Donated(part) <= fee /\ Donated(part) \in Int
              /\ Output("payee", amount, "XCH") \in Outputs(Left(part))
  <2>1. Created(part) = kept
    <3>1. Created(part) = UNION {MadeBy(s) : s \in part}
      BY CreatedBySpends, Zenon
    <3> QED BY <1>9, <1>10, <1>13, <3>1
  <2>2. Spent(part) \in SUBSET coins
    BY <1>7 DEF Spent
  <2> DEFINE w == ValueOf(Spent(part), {"XCH"})
             x == ValueOf(Created(part), {"XCH"})
  <2>3. w \in Nat /\ w <= v
    BY <1>4, <2>2, SomeAreWorthLess, Zenon DEF v
  <2>4. x = amount + k
    BY <1>12, <2>1, Zenon DEF IsWorth
  <2>5. Donated(part) = w - x
    BY DEF Donated
  <2> HIDE DEF w, x
  <2>6. Donated(part) <= fee /\ Donated(part) \in Int
    BY <1>6, <2>3, <2>4, <2>5
  <2>7. \A s \in part : Ordinary(s)
    BY <1>11
  <2>8. Output(pay.owner, pay.amount, pay.asset) \in Outputs(Left(part))
    <3>1. Makes(part, pay, mine)
      BY <1>12, <2>1 DEF Makes
    <3> QED BY <2>7, <3>1, OrdinaryLoss, Zenon
  <2> QED BY <1>12, <2>1, <2>2, <2>6, <2>8
<1>14. Donated(bundle) = fee /\ Created(bundle) = kept
  <2>1. bundle \in SUBSET bundle
    OBVIOUS
  <2>2. Created(bundle) = kept
    BY <1>1, <1>13, <2>1, Zenon
  <2>3. ValueOf(kept, {"XCH"}) = amount + k
    BY <1>12 DEF IsWorth
  <2>4. Donated(bundle) = v - (amount + k)
    BY <1>1, <2>2, <2>3, Zenon DEF Donated, v
  <2> QED BY <1>5, <1>6, <2>2, <2>4
<1>15. \A asset \in {"XCH", "DIG"} :
         Loss(bundle, asset) = ValueOf({out}, {asset}) + IF asset = "XCH" THEN fee ELSE 0
  <2>1. \A asset : Loss(bundle, asset) = ValueOf(coins, {asset}) - ValueOf(mine, {asset})
    <3>1. Makes(bundle, pay, mine)
      BY <1>12, <1>14 DEF Makes
    <3>2. \A s \in bundle : Ordinary(s)
      BY <1>11
    <3>3. ASSUME NEW asset
          PROVE  Loss(bundle, asset) = ValueOf(Spent(bundle), {asset}) - ValueOf(mine, {asset})
      BY <3>1, <3>2, OrdinaryLoss
    <3> QED BY <1>1, <3>3
  <2>2. ValueOf(mine, {"XCH"}) = k /\ \A c \in mine : c.asset = "XCH"
    BY <1>12 DEF IsWorth
  <2>3. ValueOf(coins, {"DIG"}) = 0 /\ ValueOf(mine, {"DIG"}) = 0
    <3>1. "XCH" # "DIG"
      OBVIOUS
    <3> QED BY <1>4, <2>2, <3>1, OfAnotherAsset, Zenon
  <2>4. ValueOf({out}, {"XCH"}) = amount /\ ValueOf({out}, {"DIG"}) = 0
    BY <1>8, ValueOfOne
  <2>5. Loss(bundle, "XCH") = amount + fee
    <3>1. Loss(bundle, "XCH") = v - k
      BY <2>1, <2>2 DEF v
    <3> QED BY <1>6, <3>1
  <2>6. Loss(bundle, "DIG") = 0
    BY <2>1, <2>3
  <2> QED BY <2>4, <2>5, <2>6
<1>16. Lands(bundle)
  <2>1. \A s \in bundle : \A n \in s.needs :
           \E t \in bundle : n.of = t.coin.id /\ n.said \in t.says
    <3>1. ASSUME NEW s \in bundle, NEW n \in s.needs
          PROVE  n.of = lead.id /\ n.said = word /\ word \in first.says
      BY <1>1, <1>2, <1>3, <3>1 DEF AsksFor, lead
    <3> QED BY <1>1, <3>1 DEF lead
  <2>2. Reserved(bundle) = fee
    <3>1. \A t \in bundle : t # first => t.fee = 0
      BY <1>3
    <3> QED BY <1>1, <3>1, ReservedByOne
  <2>3. ValueOf(Spent(bundle), {"DIG"}) = 0 /\ ValueOf(Created(bundle), {"DIG"}) = 0
    <3>1. "XCH" # "DIG" /\ \A c \in kept : c.asset = "XCH"
      BY <1>12 DEF IsWorth
    <3> QED BY <1>1, <1>4, <1>14, <3>1, OfAnotherAsset, Zenon
  <2> QED BY <1>11, <1>14, <2>1, <2>2, <2>3, OrdinaryLands
<1>17. ASSUME NEW part \in SUBSET bundle, part # {}, Lands(part)
       PROVE  first \in part
  <2>1. SUFFICES ASSUME first \notin part
                 PROVE  FALSE
    OBVIOUS
  <2>2. PICK s \in part : TRUE
    BY <1>17
  <2>3. s \in bundle /\ s # first
    BY <2>1
  <2>4. \A n \in s.needs : \E t \in part : n.of = t.coin.id
    BY <1>17, Zenon DEF Lands
  <2>5. \E n \in s.needs : n.of = lead.id
    <3> DEFINE n == [of |-> first.coin.id, said |-> word]
    <3>1. n \in s.needs
      BY <1>3, <2>3 DEF AsksFor
    <3>2. n.of = lead.id
      BY DEF lead
    <3> QED BY <3>1, <3>2, Zenon
  <2>6. PICK t \in part : t.coin.id = lead.id
    BY <2>4, <2>5
  <2>7. t \in bundle /\ t # first /\ t.coin \in Purse /\ lead \in Purse
    BY <1>1, <1>7, <2>1 DEF lead
  <2>8. t.coin = lead
    BY <2>6, <2>7, PurseAssumption
  <2> QED BY <1>3, <2>7, <2>8
<1>18. \A part \in SUBSET bundle : part # {} /\ Lands(part) =>
         out \in Outputs(Left(part)) /\ Donated(part) <= fee
  BY <1>13, <1>17, Zenon DEF out
<1>19. out \in Outputs(Left(bundle))
  <2>1. bundle \in SUBSET bundle
    OBVIOUS
  <2> QED BY <1>1, <1>13, <2>1, Zenon DEF out
<1>20. PaysExactly(bundle, out, fee)
  BY <1>14, <1>15, <1>16, <1>18, <1>19, Zenon DEF PaysExactly
<1> QED BY <1>20 DEF out

(* The CAT transfer that a plan is: the first spend pays and keeps the     *)
(* change of the ring, and another pays the fee and asks for its word.     *)
InTheRing(s, first, cats) ==
  s.coin \in cats /\ s.coin # first.coin /\ s.creates = <<>> /\ s.fee = 0 /\ s.needs = {}

PaysTheFee(s, first, fees, fee, word) ==
  /\ s.coin \in fees /\ s.creates = Change(ValueOf(fees, {"XCH"}) - fee, "XCH")
  /\ s.fee = fee /\ AsksFor(s, first, word)

IsCatTransfer(bundle, cats, fees, first, amount, fee, word) ==
  /\ IsFiniteSet(bundle) /\ cats \in SUBSET Own("DIG") /\ ValueOf(cats, {"DIG"}) >= amount
  /\ \/ fees = {} /\ fee = 0
     \/ \E c \in Own("XCH") : fees = {c} /\ c.amount >= fee
  /\ Spent(bundle) = cats \cup fees
  /\ first \in bundle /\ first.coin \in cats
  /\ first.creates = <<Output("payee", amount, "DIG")>>
                       \o Change(ValueOf(cats, {"DIG"}) - amount, "DIG")
  /\ first.fee = 0 /\ first.needs = {}
  /\ fees = {} \/ word \in first.says
  /\ \A s \in bundle : s # first =>
       InTheRing(s, first, cats) \/ PaysTheFee(s, first, fees, fee, word)
  /\ \A s, t \in bundle : s.coin = t.coin => s = t

(* What the fee coin brings, and what it returns.                          *)
GivesTheFee(fees, fee, rest, G, back) ==
  /\ fees \in SUBSET Own("XCH") /\ rest \in Nat
  /\ ValueOf(G, {"XCH"}) - ValueOf(back, {"XCH"}) = IF G = {} THEN 0 ELSE fee
  /\ ValueOf(back, {"XCH"}) \in Nat
  /\ \A x \in back : x.owner = "me" /\ x.asset = "XCH"

(* The fee coin gives the fee and keeps the rest; without one there is no  *)
(* fee to give.                                                            *)
LEMMA TheFeeIsGiven ==
  ASSUME NEW fees, NEW fee \in Nat,
         \/ fees = {} /\ fee = 0
         \/ \E c \in Own("XCH") : fees = {c} /\ c.amount >= fee,
         NEW rest, rest = ValueOf(fees, {"XCH"}) - fee,
         NEW G \in SUBSET fees, NEW back, back = UNION {ChangeOf(c, rest, "XCH") : c \in G}
  PROVE  GivesTheFee(fees, fee, rest, G, back)
<1>1. CASE fees = {} /\ fee = 0
  <2>1. G = {} /\ back = {} /\ ValueOf({}, {"XCH"}) = 0
    BY <1>1, ValueOfOne
  <2> QED BY <1>1, <2>1 DEF GivesTheFee
<1>2. CASE \E c \in Own("XCH") : fees = {c} /\ c.amount >= fee
  <2>1. PICK c \in Own("XCH") : fees = {c} /\ c.amount >= fee
    BY <1>2
  <2>2. c.amount \in Nat /\ c.asset = "XCH"
    BY OwnCoins
  <2>3. ValueOf(fees, {"XCH"}) = c.amount /\ ValueOf({}, {"XCH"}) = 0
    BY <2>1, <2>2, ValueOfOne
  <2>4. rest \in Nat /\ c.amount = rest + fee
    BY <2>1, <2>2, <2>3
  <2>5. CASE G = {}
    <3>1. back = {}
      BY <2>5
    <3>2. ValueOf(G, {"XCH"}) = 0 /\ ValueOf(back, {"XCH"}) = 0
      BY <2>3, <2>5, <3>1
    <3> QED BY <2>1, <2>4, <2>5, <3>1, <3>2 DEF GivesTheFee
  <2>6. CASE G = fees
    <3>1. back = ChangeOf(c, rest, "XCH")
      BY <2>1, <2>6
    <3>2. ValueOf(back, {"XCH"}) = rest /\ \A x \in back : x.owner = "me" /\ x.asset = "XCH"
      <4>1. IsWorth(ChangeOf(c, rest, "XCH"), "XCH", rest) /\ AreMine(ChangeOf(c, rest, "XCH"))
        <5>1. rest \in Nat /\ 0 \in Nat
          BY <2>4
        <5> QED BY <5>1, KeptIsWorth, Zenon
      <4> QED BY <3>1, <4>1 DEF IsWorth, AreMine
    <3>3. ValueOf(G, {"XCH"}) - ValueOf(back, {"XCH"}) = fee
      BY <2>3, <2>4, <2>6, <3>2
    <3>4. rest \in Nat /\ fees \in SUBSET Own("XCH") /\ G # {}
      BY <2>1, <2>4, <2>6
    <3> QED BY <3>2, <3>3, <3>4 DEF GivesTheFee
  <2> QED BY <2>1, <2>5, <2>6
<1> QED BY <1>1, <1>2

(* What a CAT transfer's spends make, one by one.                          *)
EachMakes(bundle, cats, fees, first, amount, fee, word, k, rest) ==
  /\ k \in Nat /\ ValueOf(cats, {"DIG"}) = amount + k /\ rest \in Nat
  /\ cats \in SUBSET Purse /\ \A c \in cats : c.asset = "DIG"
  /\ fees \in SUBSET Purse /\ \A c \in fees : c.asset = "XCH"
  /\ \A s \in bundle : Ordinary(s) /\ Sound(s)
  /\ MadeBy(first) = PaidAndKept(first.coin, amount, k, "DIG")
  /\ \A s \in bundle : InTheRing(s, first, cats) => MadeBy(s) = {}
  /\ \A s \in bundle : PaysTheFee(s, first, fees, fee, word) =>
       MadeBy(s) = ChangeOf(s.coin, rest, "XCH")

(* A CAT transfer's lead makes payment and change, the rest of its ring    *)
(* nothing, and the fee coin its own change.                               *)
LEMMA CatTransferMakes ==
  ASSUME NEW bundle, NEW cats, NEW fees, NEW first, NEW amount \in Nat, NEW fee \in Nat,
         NEW word, IsCatTransfer(bundle, cats, fees, first, amount, fee, word),
         NEW k, k = ValueOf(cats, {"DIG"}) - amount,
         NEW rest, rest = ValueOf(fees, {"XCH"}) - fee
  PROVE  EachMakes(bundle, cats, fees, first, amount, fee, word, k, rest)
<1> DEFINE v    == ValueOf(cats, {"DIG"})
           out  == Output("payee", amount, "DIG")
           lead == first.coin
<1>1. /\ cats \in SUBSET Own("DIG") /\ v >= amount /\ Spent(bundle) = cats \cup fees
      /\ first \in bundle /\ lead \in cats /\ first.creates = <<out>> \o Change(k, "DIG")
  BY DEF IsCatTransfer
<1>2. cats \in SUBSET Purse /\ \A c \in cats : c.asset = "DIG"
  BY <1>1 DEF Own
<1>3. k \in Nat /\ v = amount + k
  <2>1. v \in Nat
    BY <1>2, SomeAreWorthLess, Zenon
  <2> QED BY <1>1, <2>1
<1>4. fees \in SUBSET Own("XCH") /\ rest \in Nat
  <2>1. \/ fees = {} /\ fee = 0
        \/ \E c \in Own("XCH") : fees = {c} /\ c.amount >= fee
    BY DEF IsCatTransfer
  <2> DEFINE back == UNION {ChangeOf(c, rest, "XCH") : c \in {}}
  <2>2. {} \in SUBSET fees
    OBVIOUS
  <2>3. GivesTheFee(fees, fee, rest, {}, back)
    BY <2>1, <2>2, TheFeeIsGiven
  <2> QED BY <2>3 DEF GivesTheFee
<1>5. fees \in SUBSET Purse /\ \A c \in fees : c.asset = "XCH"
  BY <1>4 DEF Own
<1>6. \A s \in bundle : s.coin \in Purse
  BY <1>1, <1>2, <1>5 DEF Spent
<1>7. \A s \in bundle : s.coin.amount \in Nat /\ IsPath(s.coin.id)
  BY <1>6, CoinsOfThePurse DEF IsPath
<1>8. out.owner = "payee" /\ out.amount = amount /\ out.asset = "DIG"
  BY DEF Output
<1> HIDE DEF v
<1>9. /\ Ordinary(first) /\ Sound(first)
      /\ MadeBy(first) = PaidAndKept(lead, amount, k, "DIG")
  <2>1. Differ(out, Output("me", k, "DIG"))
    BY DEF Differ, Output
  <2>2. /\ out.amount \in Nat /\ k \in Int /\ first.coin \in Purse
        /\ first.creates = <<out>> \o Change(k, "DIG")
    BY <1>1, <1>3, <1>6, <1>8
  <2>3. Made(lead, out) = Paid(lead, amount, "DIG")
    BY DEF Paid
  <2> HIDE DEF out
  <2>4. /\ Ordinary(first)
        /\ ToSet(first.creates) = {out} \cup {x \in {Output("me", k, "DIG")} : k > 0}
    <3>1. PaysAndKeeps(first, out, k, "DIG")
      BY <2>2, PaymentAndChange, Zenon
    <3> QED BY <3>1, Zenon DEF PaysAndKeeps
  <2>5. Sound(first)
    BY <1>1, <1>3, <1>7, <2>1, <2>2, MakesOneAndChange, Zenon
  <2>6. MadeBy(first) = PaidAndKept(lead, amount, k, "DIG")
    BY <2>3, <2>4 DEF MadeBy, ChangeOf, PaidAndKept
  <2> QED BY <2>4, <2>5, <2>6
<1>10. ASSUME NEW s \in bundle, InTheRing(s, first, cats)
       PROVE  Ordinary(s) /\ Sound(s) /\ MadeBy(s) = {}
  <2>1. s.creates = <<>>
    BY <1>10 DEF InTheRing
  <2>2. Sound(s) /\ MadeBy(s) = {}
    BY <1>7, <2>1, MakesNothing, Zenon
  <2> QED BY <1>6, <2>1, <2>2 DEF Ordinary
<1>11. ASSUME NEW s \in bundle, PaysTheFee(s, first, fees, fee, word)
       PROVE  Ordinary(s) /\ Sound(s) /\ MadeBy(s) = ChangeOf(s.coin, rest, "XCH")
  <2>1. s.creates = Change(rest, "XCH") /\ s.coin \in Purse /\ rest \in Int
    BY <1>4, <1>6, <1>11 DEF PaysTheFee
  <2>2. /\ Ordinary(s) /\ ToSet(s.creates) = {x \in {Output("me", rest, "XCH")} : rest > 0}
    BY <2>1, ChangeAlone
  <2>3. Sound(s)
    BY <1>4, <1>7, <2>1, MakesChange, Zenon
  <2>4. MadeBy(s) = ChangeOf(s.coin, rest, "XCH")
    BY <2>2 DEF MadeBy, ChangeOf
  <2> QED BY <2>2, <2>3, <2>4
<1>12. \A s \in bundle : s # first =>
         InTheRing(s, first, cats) \/ PaysTheFee(s, first, fees, fee, word)
  BY DEF IsCatTransfer
<1>13. \A s \in bundle : Ordinary(s) /\ Sound(s)
  BY <1>9, <1>10, <1>11, <1>12, Zenon
<1> QED BY <1>2, <1>3, <1>4, <1>5, <1>9, <1>10, <1>11, <1>13, Zenon DEF v, EachMakes

(* build_dig_transfer_spends: the payee gets the amount, the farmer the    *)
(* fee, and the wallet the rest of both assets.                            *)
LEMMA CatTransferIsExact ==
  ASSUME NEW bundle, NEW cats, NEW fees, NEW first, NEW amount \in Nat \ {0}, NEW fee \in Nat,
         NEW word, IsCatTransfer(bundle, cats, fees, first, amount, fee, word)
  PROVE  PaysExactly(bundle, Output("payee", amount, "DIG"), fee)
<1> DEFINE v       == ValueOf(cats, {"DIG"})
           k       == v - amount
           rest    == ValueOf(fees, {"XCH"}) - fee
           out     == Output("payee", amount, "DIG")
           lead    == first.coin
           pay     == Paid(lead, amount, "DIG")
           mine    == ChangeOf(lead, k, "DIG")
           kept    == PaidAndKept(lead, amount, k, "DIG")
           by(part) == {c \in fees : c \in Spent(part)}
           back(part) == UNION {ChangeOf(c, rest, "XCH") : c \in by(part)}
<1>1. /\ IsFiniteSet(bundle) /\ Spent(bundle) = cats \cup fees /\ first \in bundle
      /\ lead \in cats /\ first.fee = 0 /\ first.needs = {}
      /\ fees = {} \/ word \in first.says
      /\ \A s, t \in bundle : s.coin = t.coin => s = t
  BY DEF IsCatTransfer
<1>2. \A s \in bundle : s # first =>
        InTheRing(s, first, cats) \/ PaysTheFee(s, first, fees, fee, word)
  BY DEF IsCatTransfer
<1>3. \/ fees = {} /\ fee = 0
      \/ \E c \in Own("XCH") : fees = {c} /\ c.amount >= fee
  BY DEF IsCatTransfer
<1>4. amount \in Nat
  OBVIOUS
<1>5. /\ k \in Nat /\ v = amount + k /\ rest \in Nat
      /\ cats \in SUBSET Purse /\ \A c \in cats : c.asset = "DIG"
      /\ fees \in SUBSET Purse /\ \A c \in fees : c.asset = "XCH"
      /\ \A s \in bundle : Ordinary(s) /\ Sound(s)
  <2>1. EachMakes(bundle, cats, fees, first, amount, fee, word, k, rest)
    BY <1>4, CatTransferMakes, Zenon
  <2> QED BY <2>1, Zenon DEF EachMakes
<1>6. /\ MadeBy(first) = kept
      /\ \A s \in bundle : InTheRing(s, first, cats) => MadeBy(s) = {}
      /\ \A s \in bundle : PaysTheFee(s, first, fees, fee, word) =>
           MadeBy(s) = ChangeOf(s.coin, rest, "XCH")
  <2>1. EachMakes(bundle, cats, fees, first, amount, fee, word, k, rest)
    BY <1>4, CatTransferMakes, Zenon
  <2> QED BY <2>1, Zenon DEF EachMakes
<1>7. /\ IsWorth(kept, "DIG", amount + k) /\ IsWorth(mine, "DIG", k) /\ AreMine(mine)
      /\ pay.owner = "payee" /\ pay.amount = amount /\ pay.asset = "DIG"
      /\ kept = {pay} \cup mine
      /\ out.owner = "payee" /\ out.amount = amount /\ out.asset = "DIG"
  <2>1. IsWorth(kept, "DIG", amount + k) /\ IsWorth(mine, "DIG", k) /\ AreMine(mine)
    BY <1>5, KeptIsWorth, Zenon
  <2> QED BY <2>1 DEF PaidAndKept, Paid, Made, Output
<1>8. ASSUME NEW part \in SUBSET bundle
      PROVE  /\ ValueOf(by(part), {"XCH"}) - ValueOf(back(part), {"XCH"})
                  = IF by(part) = {} THEN 0 ELSE fee
             /\ ValueOf(back(part), {"XCH"}) \in Nat
             /\ \A x \in back(part) : x.owner = "me" /\ x.asset = "XCH"
  <2> DEFINE G == by(part)
             b == back(part)
  <2>1. G \in SUBSET fees
    OBVIOUS
  <2>2. b = UNION {ChangeOf(c, rest, "XCH") : c \in G} /\ rest = ValueOf(fees, {"XCH"}) - fee
    OBVIOUS
  <2> HIDE DEF G, b, rest, by, back
  <2>3. GivesTheFee(fees, fee, rest, G, b)
    BY <1>3, <2>1, <2>2, TheFeeIsGiven
  <2> QED BY <2>3, Zenon DEF G, b, GivesTheFee
<1> HIDE DEF v, k, rest, pay, mine, kept, out
<1>9. ASSUME NEW part \in SUBSET bundle, first \in part
      PROVE  Created(part) = kept \cup back(part)
  <2>1. Created(part) = UNION {MadeBy(s) : s \in part}
    BY CreatedBySpends, Zenon
  <2>2. ASSUME NEW s \in part
        PROVE  MadeBy(s) \in SUBSET (kept \cup back(part))
    <3>1. CASE s = first
      BY <1>6, <3>1
    <3>2. CASE InTheRing(s, first, cats)
      BY <1>6, <3>2
    <3>3. CASE PaysTheFee(s, first, fees, fee, word)
      <4>1. s.coin \in by(part) /\ MadeBy(s) = ChangeOf(s.coin, rest, "XCH")
        BY <1>6, <3>3 DEF PaysTheFee, Spent
      <4> QED BY <4>1
    <3> QED BY <1>2, <3>1, <3>2, <3>3
  <2>3. ASSUME NEW c \in by(part)
        PROVE  ChangeOf(c, rest, "XCH") \in SUBSET UNION {MadeBy(s) : s \in part}
    <3>1. PICK s \in part : s.coin = c
      BY DEF Spent
    <3>2. s # first /\ ~InTheRing(s, first, cats)
      BY <1>1, <1>5, <3>1 DEF InTheRing
    <3>3. MadeBy(s) = ChangeOf(c, rest, "XCH")
      BY <1>2, <1>6, <3>1, <3>2
    <3> QED BY <3>3
  <2> QED BY <1>6, <1>9, <2>1, <2>2, <2>3
<1>10. ASSUME NEW part \in SUBSET bundle, first \in part
       PROVE  /\ Donated(part) = IF by(part) = {} THEN 0 ELSE fee
              /\ Makes(part, pay, mine \cup back(part))
              /\ out \in Outputs(Left(part))
              /\ ValueOf(Created(part), {"DIG"}) = amount + k
              /\ ValueOf(Spent(part), {"XCH"}) = ValueOf(by(part), {"XCH"})
  <2>1. Spent(part) \in SUBSET (cats \cup fees)
    BY <1>1 DEF Spent
  <2>2. ValueOf(Spent(part), {"XCH"}) = ValueOf(by(part), {"XCH"})
    <3>1. InAssets(Spent(part), {"XCH"}) = InAssets(by(part), {"XCH"})
      BY <1>5, <2>1 DEF InAssets
    <3> QED BY <3>1, ValueOfTheAsset, Zenon
  <2>3. /\ ValueOf(Created(part), {"XCH"}) = ValueOf(back(part), {"XCH"})
        /\ ValueOf(Created(part), {"DIG"}) = ValueOf(kept, {"DIG"})
    <3>1. \A x \in kept : x.asset = "DIG"
      BY <1>7 DEF IsWorth
    <3>2. Created(part) = kept \cup back(part) /\ \A x \in back(part) : x.asset = "XCH"
      BY <1>8, <1>9, <1>10
    <3> HIDE DEF back
    <3>3. /\ InAssets(Created(part), {"XCH"}) = InAssets(back(part), {"XCH"})
          /\ InAssets(Created(part), {"DIG"}) = InAssets(kept, {"DIG"})
      BY <3>1, <3>2 DEF InAssets
    <3> QED BY <3>3, ValueOfTheAsset, Zenon
  <2>4. Makes(part, pay, mine \cup back(part))
    <3>1. Created(part) = {pay} \cup (mine \cup back(part))
      BY <1>7, <1>9, <1>10
    <3>2. \A c \in mine \cup back(part) : c.owner = "me"
      BY <1>7, <1>8 DEF AreMine
    <3> QED BY <1>7, <3>1, <3>2 DEF Makes
  <2>5. out \in Outputs(Left(part))
    <3>1. \A s \in part : Ordinary(s)
      BY <1>5
    <3> DEFINE M == mine \cup back(part)
    <3>2. Makes(part, pay, M)
      BY <2>4
    <3> HIDE DEF M
    <3>3. Output(pay.owner, pay.amount, pay.asset) \in Outputs(Left(part))
      BY <3>1, <3>2, OrdinaryLoss, Zenon
    <3> QED BY <1>7, <3>3 DEF out
  <2>6. ValueOf(Created(part), {"DIG"}) = amount + k
    BY <1>7, <2>3 DEF IsWorth
  <2>7. Donated(part) = IF by(part) = {} THEN 0 ELSE fee
    <3> HIDE DEF by, back
    <3> QED BY <1>8, <2>2, <2>3 DEF Donated
  <2> QED BY <2>2, <2>4, <2>5, <2>6, <2>7
<1>11. by(bundle) = fees
  BY <1>1
<1> HIDE DEF by
<1>12. /\ Donated(bundle) = fee /\ out \in Outputs(Left(bundle))
       /\ ValueOf(Created(bundle), {"DIG"}) = amount + k
       /\ Makes(bundle, pay, mine \cup back(bundle))
       /\ ValueOf(Spent(bundle), {"XCH"}) = ValueOf(fees, {"XCH"})
  <2>1. bundle \in SUBSET bundle
    OBVIOUS
  <2>2. /\ Donated(bundle) = IF by(bundle) = {} THEN 0 ELSE fee
        /\ out \in Outputs(Left(bundle))
        /\ ValueOf(Created(bundle), {"DIG"}) = amount + k
        /\ Makes(bundle, pay, mine \cup back(bundle))
        /\ ValueOf(Spent(bundle), {"XCH"}) = ValueOf(by(bundle), {"XCH"})
    BY <1>1, <1>10, <2>1, Zenon
  <2>3. fees = {} => fee = 0
    BY <1>3
  <2> QED BY <1>11, <2>2, <2>3
<1>13. ValueOf(Spent(bundle), {"DIG"}) = amount + k
  <2>1. InAssets(Spent(bundle), {"DIG"}) = InAssets(cats, {"DIG"})
    BY <1>1, <1>5 DEF InAssets
  <2>2. ValueOf(Spent(bundle), {"DIG"}) = v
    BY <2>1, ValueOfTheAsset, Zenon DEF v
  <2> QED BY <1>5, <2>2
<1>14. \A asset \in {"XCH", "DIG"} :
         Loss(bundle, asset) = ValueOf({out}, {asset}) + IF asset = "XCH" THEN fee ELSE 0
  <2> DEFINE b == back(bundle)
             M == mine \cup b
  <2>1. bundle \in SUBSET bundle
    OBVIOUS
  <2>2. /\ ValueOf(fees, {"XCH"}) - ValueOf(b, {"XCH"}) = IF fees = {} THEN 0 ELSE fee
        /\ \A x \in b : x.asset = "XCH"
    <3> HIDE DEF back
    <3> QED BY <1>8, <1>11, <2>1
  <2>3. Makes(bundle, pay, M)
    BY <1>12
  <2> HIDE DEF b
  <2>4. /\ ValueOf(M, {"XCH"}) = ValueOf(b, {"XCH"})
        /\ ValueOf(M, {"DIG"}) = k
    <3>1. \A x \in mine : x.asset = "DIG"
      BY <1>7 DEF IsWorth
    <3>2. /\ InAssets(M, {"XCH"}) = InAssets(b, {"XCH"})
          /\ InAssets(M, {"DIG"}) = InAssets(mine, {"DIG"})
      BY <2>2, <3>1 DEF InAssets
    <3>3. ValueOf(mine, {"DIG"}) = k
      BY <1>7 DEF IsWorth
    <3> HIDE DEF M
    <3> QED BY <3>2, <3>3, ValueOfTheAsset, Zenon
  <2> HIDE DEF M
  <2>5. \A s \in bundle : Ordinary(s)
    BY <1>5
  <2>6. ASSUME NEW asset
        PROVE  Loss(bundle, asset) = ValueOf(Spent(bundle), {asset}) - ValueOf(M, {asset})
    BY <2>3, <2>5, OrdinaryLoss
  <2>7. Loss(bundle, "XCH") = fee
    <3>1. Loss(bundle, "XCH") = ValueOf(fees, {"XCH"}) - ValueOf(b, {"XCH"})
      BY <1>12, <2>4, <2>6
    <3>2. fees = {} => fee = 0
      BY <1>3
    <3> QED BY <2>2, <3>1, <3>2
  <2>8. Loss(bundle, "DIG") = amount
    <3>1. Loss(bundle, "DIG") = (amount + k) - k
      BY <1>13, <2>4, <2>6
    <3> QED BY <1>5, <3>1
  <2>9. ValueOf({out}, {"XCH"}) = 0 /\ ValueOf({out}, {"DIG"}) = amount
    BY <1>7, ValueOfOne
  <2> QED BY <2>7, <2>8, <2>9
<1>15. Lands(bundle)
  <2>1. \A s \in bundle : \A n \in s.needs :
           \E t \in bundle : n.of = t.coin.id /\ n.said \in t.says
    <3>1. ASSUME NEW s \in bundle, NEW n \in s.needs
          PROVE  n.of = lead.id /\ n.said \in first.says
      <4>1. PaysTheFee(s, first, fees, fee, word)
        BY <1>1, <1>2 DEF InTheRing
      <4>2. s.needs = {[of |-> first.coin.id, said |-> word]} /\ s.coin \in fees
        BY <4>1 DEF PaysTheFee, AsksFor
      <4>3. n = [of |-> first.coin.id, said |-> word] /\ word \in first.says
        BY <1>1, <4>2
      <4> QED BY <4>3
    <3> QED BY <1>1, <3>1
  <2>2. Reserved(bundle) = fee
    <3>1. CASE fees = {}
      <4>1. \A t \in bundle : t # first => t.fee = 0
        BY <1>2, <3>1 DEF InTheRing, PaysTheFee
      <4>2. first.fee = 0 /\ fee = 0 /\ first.fee \in Nat
        BY <1>1, <1>3, <3>1
      <4>3. Reserved(bundle) = first.fee
        BY <1>1, <4>1, <4>2, ReservedByOne, Zenon
      <4> QED BY <4>2, <4>3
    <3>2. CASE fees # {}
      <4>1. PICK c : fees = {c}
        BY <1>3, <3>2
      <4>2. PICK s \in bundle : s.coin = c
        BY <1>1, <4>1 DEF Spent
      <4>3. ~InTheRing(s, first, cats) /\ s # first
        BY <1>1, <1>5, <4>1, <4>2 DEF InTheRing
      <4>4. s.fee = fee /\ s.fee \in Nat
        BY <1>2, <4>3 DEF PaysTheFee
      <4>5. \A t \in bundle : t # s => t.fee = 0
        <5>1. ASSUME NEW t \in bundle, t # s
              PROVE  t = first \/ InTheRing(t, first, cats)
          <6>1. ~PaysTheFee(t, first, fees, fee, word)
            BY <1>1, <4>1, <4>2, <5>1 DEF PaysTheFee
          <6> QED BY <1>2, <6>1
        <5> QED BY <1>1, <5>1 DEF InTheRing
      <4>6. Reserved(bundle) = s.fee
        BY <1>1, <4>4, <4>5, ReservedByOne, Zenon
      <4> QED BY <4>4, <4>6
    <3> QED BY <3>1, <3>2
  <2>3. ValueOf(Spent(bundle), {"DIG"}) = ValueOf(Created(bundle), {"DIG"})
    BY <1>12, <1>13
  <2>4. Donated(bundle) \in Nat /\ Reserved(bundle) = Donated(bundle)
    BY <1>12, <2>2
  <2> QED BY <1>5, <2>1, <2>3, <2>4, OrdinaryLands, Zenon
<1>16. ASSUME NEW part \in SUBSET bundle, part # {}, Lands(part)
       PROVE  first \in part
  <2>1. SUFFICES ASSUME first \notin part
                 PROVE  FALSE
    OBVIOUS
  <2>2. \A s \in part : InTheRing(s, first, cats) \/ PaysTheFee(s, first, fees, fee, word)
    BY <1>2, <2>1
  <2>3. ASSUME NEW s \in part
        PROVE  ~InTheRing(s, first, cats)
    <3>1. SUFFICES ASSUME InTheRing(s, first, cats)
                   PROVE  FALSE
      OBVIOUS
    <3> DEFINE C == Spent(part)
               one == {s.coin}
    <3>2. C \in SUBSET Purse /\ one \in SUBSET C /\ s.coin \in Purse
      <4>1. \A t \in part : Ordinary(t)
        BY <1>5
      <4>2. C \in SUBSET Purse
        BY <4>1, OrdinarySpent, Zenon
      <4>3. s.coin \in C
        BY DEF Spent
      <4> HIDE DEF C
      <4> QED BY <4>2, <4>3
    <3>3. ValueOf(one, {"DIG"}) = s.coin.amount /\ s.coin.amount \in Nat \ {0}
      <4>1. s.coin.asset = "DIG" /\ s.coin.amount \in Nat \ {0}
        BY <1>5, <3>1, <3>2, CoinsOfThePurse DEF InTheRing
      <4> QED BY <4>1, ValueOfOne
    <3>4. ValueOf(one, {"DIG"}) <= ValueOf(C, {"DIG"}) /\ ValueOf(C, {"DIG"}) \in Nat
      <4> HIDE DEF C, one
      <4> QED BY <3>2, SomeAreWorthLess, Zenon
    <3>5. ValueOf(Created(part), {"DIG"}) = 0
      <4>1. ASSUME NEW t \in part, NEW x \in MadeBy(t)
            PROVE  x.asset = "XCH"
        <5>1. PaysTheFee(t, first, fees, fee, word)
          BY <1>6, <2>2, <4>1
        <5>2. MadeBy(t) = ChangeOf(t.coin, rest, "XCH")
          BY <1>6, <5>1
        <5>3. IsWorth(ChangeOf(t.coin, rest, "XCH"), "XCH", rest)
          <6>1. rest \in Nat /\ 0 \in Nat
            BY <1>5
          <6> QED BY <6>1, KeptIsWorth, Zenon
        <5> QED BY <4>1, <5>2, <5>3 DEF IsWorth
      <4>2. Created(part) = UNION {MadeBy(t) : t \in part}
        BY CreatedBySpends, Zenon
      <4>3. \A x \in Created(part) : x.asset = "XCH"
        BY <4>1, <4>2
      <4> QED BY <4>3, OfAnotherAsset
    <3>6. ValueOf(C, {"DIG"}) = ValueOf(Created(part), {"DIG"})
      BY <1>16, Zenon DEF Lands
    <3> HIDE DEF C, one
    <3> QED BY <3>3, <3>4, <3>5, <3>6
  <2>4. PICK s \in part : PaysTheFee(s, first, fees, fee, word)
    BY <1>16, <2>2, <2>3
  <2>5. \A n \in s.needs : \E t \in part : n.of = t.coin.id
    BY <1>16, Zenon DEF Lands
  <2>6. PICK t \in part : t.coin.id = lead.id
    <3> DEFINE n == [of |-> first.coin.id, said |-> word]
    <3>1. n \in s.needs
      BY <2>4 DEF PaysTheFee, AsksFor
    <3>2. n.of = lead.id
      OBVIOUS
    <3> HIDE DEF n
    <3>3. \E t \in part : n.of = t.coin.id
      BY <2>5, <3>1
    <3> QED BY <3>2, <3>3
  <2>7. t.coin \in fees /\ t.coin \in Purse /\ lead \in Purse
    BY <1>1, <1>5, <2>2, <2>3 DEF PaysTheFee
  <2>8. t.coin = lead
    BY <2>6, <2>7, PurseAssumption
  <2> QED BY <1>1, <1>5, <2>7, <2>8
<1>17. \A part \in SUBSET bundle : part # {} /\ Lands(part) =>
         out \in Outputs(Left(part)) /\ Donated(part) <= fee
  <2>1. ASSUME NEW part \in SUBSET bundle, part # {}, Lands(part)
        PROVE  out \in Outputs(Left(part)) /\ Donated(part) <= fee
    <3>1. first \in part
      BY <1>16, <2>1, Zenon
    <3>2. /\ Donated(part) = IF by(part) = {} THEN 0 ELSE fee
          /\ out \in Outputs(Left(part))
      BY <1>10, <3>1, Zenon
    <3> QED BY <3>2
  <2> QED BY <2>1
<1>18. PaysExactly(bundle, out, fee)
  BY <1>12, <1>14, <1>15, <1>17, Zenon DEF PaysExactly
<1> QED BY <1>18 DEF out

(* What a transfer's plan asks for, and who gets it.                       *)
AsksOf(p, req, asset) ==
  /\ p.to = "payee" /\ p.amount = req.amount /\ p.asset = asset /\ p.fee = req.fee
  /\ req.amount \in Nat \ {0} /\ req.fee \in Nat

(* A plan of build_transfer is a transfer of XCH.                          *)
LEMMA XchTransferShape ==
  ASSUME NEW req \in Requests, NEW p \in Transfers("Hot", req)
  PROVE  /\ AsksOf(p, req, "XCH")
         /\ \E coins, first, word :
              IsXchTransfer(p.bundle, coins, first, req.amount, req.fee, word)
<1> DEFINE need == RequiredTotal(req)
<1>1. /\ Payable("Hot", req)
      /\ \E coins \in Selected(Selection!TransferSelect(Listing("XCH"), {}, need)) :
           p = TransferPlan(coins, req)
  BY DEF Transfers
<1>2. PICK coins \in Selected(Selection!TransferSelect(Listing("XCH"), {}, need)) :
        p = TransferPlan(coins, req)
  BY <1>1
<1>3. req.to = "payee" /\ req.amount \in Nat \ {0} /\ req.fee \in Nat
  BY <1>1, RequestsAsk
<1>4. need \in Nat \ {0} /\ need = req.amount + req.fee
  BY <1>3 DEF RequiredTotal
<1> HIDE DEF need
<1>5. coins \in SUBSET Own("XCH") /\ ValueOf(coins, {"XCH"}) >= need
  <2>1. \E shortfall \in {"SpendabilityUnknown", "InsufficientFunds"} :
          coins \in Selected(Selection!SelectMany(Listing("XCH"), {}, need, shortfall))
    BY DEF Selection!TransferSelect
  <2>2. PICK shortfall \in {"SpendabilityUnknown", "InsufficientFunds"} :
          coins \in Selected(Selection!SelectMany(Listing("XCH"), {}, need, shortfall))
    BY <2>1
  <2> QED BY <2>2, SelectionCovers
<1>6. coins \in SUBSET Purse
  BY <1>5 DEF Own
<1>7. IsFiniteSet(coins)
  BY <1>6, PurseAssumption, FS_Subset
<1>8. coins # {}
  BY <1>4, <1>5, ValueOfOne
<1> DEFINE lead   == Lead(coins)
           others == coins \ {lead}
           k      == ValueOf(coins, {"XCH"}) - need
           pays   == <<Output("payee", req.amount, "XCH")>> \o Change(k, "XCH")
           first  == [Spending(lead, pays)
                        EXCEPT !.fee = req.fee,
                               !.says = IF others = {} THEN {} ELSE {"input binding"}]
           next(c) == [Spending(c, <<>>) EXCEPT
                         !.needs = {[of |-> lead.id, said |-> "input binding"]}]
           bundle == {first} \cup {next(c) : c \in others}
<1>9. p.bundle = bundle
  <2>1. p.bundle = TransferBundle(coins, req)
    BY <1>2 DEF TransferPlan
  <2>2. TransferBundle(coins, req) = bundle
    BY <1>3, Zenon DEF TransferBundle, need
  <2> QED BY <2>1, <2>2, Zenon
<1>10. AsksOf(p, req, "XCH")
  BY <1>2, <1>3 DEF TransferPlan, AsksOf
<1>11. lead \in coins
  BY <1>6, <1>8, LeadIsOne
<1>12. PICK word : word = "input binding"
  BY Zenon
<1>13. /\ first = [Spending(lead, pays) EXCEPT !.fee = req.fee,
                                              !.says = IF others = {} THEN {} ELSE {word}]
       /\ \A c \in others :
            next(c) = [Spending(c, <<>>) EXCEPT !.needs = {[of |-> lead.id, said |-> word]}]
  BY <1>12, Zenon
<1> HIDE DEF first, next, pays, lead
<1>14. /\ first.coin = lead /\ first.creates = pays /\ first.fee = req.fee /\ first.needs = {}
       /\ first.says = IF others = {} THEN {} ELSE {word}
  BY <1>13 DEF Spending
<1>15. \A c \in others :
         /\ next(c).coin = c /\ next(c).creates = <<>> /\ next(c).fee = 0
         /\ next(c).needs = {[of |-> lead.id, said |-> word]}
  BY <1>13 DEF Spending
<1>16. IsFiniteSet(bundle)
  <2> DEFINE f == [c \in others |-> next(c)]
  <2>1. IsFiniteSet(others)
    BY <1>7, FS_Subset
  <2>2. {f[c] : c \in others} = {next(c) : c \in others} /\ f = [c \in others |-> f[c]]
    OBVIOUS
  <2> HIDE DEF f, others
  <2>3. IsFiniteSet({f[c] : c \in others})
    <3>1. f = [c \in others |-> f[c]]
      BY <2>2, Zenon
    <3> QED BY <2>1, <3>1, ValuesAreFinite, Zenon
  <2>4. IsFiniteSet({first})
    BY FS_Singleton, Zenon
  <2> QED BY <2>2, <2>3, <2>4, FS_Union, Zenon
<1>17. Spent(bundle) = coins
  <2>1. {next(c).coin : c \in others} = others
    BY <1>15
  <2>2. Spent(bundle) = {first.coin} \cup {next(c).coin : c \in others}
    BY DEF Spent
  <2> QED BY <1>11, <1>14, <2>1, <2>2
<1>18. bundle = {first} \/ word \in first.says
  BY <1>14
<1>19. \A s \in bundle : s # first =>
         s.coin # first.coin /\ s.creates = <<>> /\ s.fee = 0 /\ AsksFor(s, first, word)
  BY <1>14, <1>15 DEF AsksFor
<1>20. /\ first \in bundle /\ ValueOf(coins, {"XCH"}) >= req.amount + req.fee
       /\ first.creates = <<Output("payee", req.amount, "XCH")>>
                            \o Change(ValueOf(coins, {"XCH"}) - (req.amount + req.fee), "XCH")
  BY <1>4, <1>5, <1>14 DEF pays
<1> HIDE DEF bundle
<1>21. IsXchTransfer(bundle, coins, first, req.amount, req.fee, word)
  BY <1>5, <1>14, <1>16, <1>17, <1>18, <1>19, <1>20, Zenon DEF IsXchTransfer
<1> QED BY <1>9, <1>10, <1>21, Zenon

(* A plan of build_cat_transfer is a CAT transfer.                         *)
LEMMA CatTransferShape ==
  ASSUME NEW req \in Requests, NEW p \in CatTransfers("Hot", req)
  PROVE  /\ AsksOf(p, req, "DIG")
         /\ \E cats, fees, first, word :
              IsCatTransfer(p.bundle, cats, fees, first, req.amount, req.fee, word)
<1>1. /\ Payable("Hot", req)
      /\ \E cats \in Selected(Selection!CatSelect(Listing("DIG"), {}, req.amount)) :
           \E fees \in Selected(Selection!FeeSelect(Listing("XCH"), {}, req.fee)) :
             p = CatTransferPlan(cats, fees, req)
  BY DEF CatTransfers
<1>2. PICK cats \in Selected(Selection!CatSelect(Listing("DIG"), {}, req.amount)) :
        \E fees \in Selected(Selection!FeeSelect(Listing("XCH"), {}, req.fee)) :
             p = CatTransferPlan(cats, fees, req)
  BY <1>1
<1>3. PICK fees \in Selected(Selection!FeeSelect(Listing("XCH"), {}, req.fee)) :
        p = CatTransferPlan(cats, fees, req)
  BY <1>2
<1>4. req.to = "payee" /\ req.amount \in Nat \ {0} /\ req.fee \in Nat
  BY <1>1, RequestsAsk
<1>5. cats \in SUBSET Own("DIG") /\ ValueOf(cats, {"DIG"}) >= req.amount
  <2>1. cats \in Selected(Selection!SelectMany(Listing("DIG"), {}, req.amount,
                                               "InsufficientFunds"))
    BY DEF Selection!CatSelect
  <2> QED BY <2>1, SelectionCovers
<1>6. \/ fees = {} /\ req.fee = 0
      \/ \E c \in Own("XCH") : fees = {c} /\ c.amount >= req.fee
  BY FeeIsCovered
<1>7. /\ cats \in SUBSET Purse /\ \A c \in cats : c.asset = "DIG"
      /\ fees \in SUBSET Purse /\ \A c \in fees : c.asset = "XCH"
  BY <1>5, <1>6 DEF Own
<1>8. IsFiniteSet(cats) /\ IsFiniteSet(fees)
  BY <1>7, PurseAssumption, FS_Subset
<1>9. cats # {}
  BY <1>4, <1>5, ValueOfOne
<1> DEFINE lead   == Lead(cats)
           others == cats \ {lead}
           k      == ValueOf(cats, {"DIG"}) - req.amount
           rest   == ValueOf(fees, {"XCH"}) - req.fee
           pays   == <<Output("payee", req.amount, "DIG")>> \o Change(k, "DIG")
           first  == [Spending(lead, pays)
                        EXCEPT !.says = IF fees = {} THEN {} ELSE {"fee binding"}]
           next(c) == Spending(c, <<>>)
           payer(c) == [Spending(c, Change(rest, "XCH")) EXCEPT
                          !.fee = req.fee,
                          !.needs = {[of |-> lead.id, said |-> "fee binding"]}]
           bundle == {first} \cup {next(c) : c \in others} \cup {payer(c) : c \in fees}
<1>10. p.bundle = bundle
  <2>1. p.bundle = CatBundle(cats, fees, req)
    BY <1>3 DEF CatTransferPlan
  <2>2. CatBundle(cats, fees, req) = bundle
    BY <1>4, Zenon DEF CatBundle
  <2> QED BY <2>1, <2>2, Zenon
<1>11. AsksOf(p, req, "DIG")
  BY <1>3, <1>4 DEF CatTransferPlan, AsksOf
<1>12. lead \in cats
  BY <1>7, <1>9, LeadIsOne
<1>13. PICK word : word = "fee binding"
  BY Zenon
<1>14. /\ first = [Spending(lead, pays) EXCEPT !.says = IF fees = {} THEN {} ELSE {word}]
       /\ \A c \in fees :
            payer(c) = [Spending(c, Change(rest, "XCH")) EXCEPT
                          !.fee = req.fee, !.needs = {[of |-> lead.id, said |-> word]}]
  BY <1>13, Zenon
<1>15. \A c \in others :
         next(c).coin = c /\ next(c).creates = <<>> /\ next(c).fee = 0 /\ next(c).needs = {}
  BY SpendingIs, Zenon
<1> HIDE DEF first, next, payer, pays, lead, rest
<1>16. /\ first.coin = lead /\ first.creates = pays /\ first.fee = 0 /\ first.needs = {}
       /\ first.says = IF fees = {} THEN {} ELSE {word}
  BY <1>14 DEF Spending
<1>17. \A c \in fees :
         /\ payer(c).coin = c /\ payer(c).creates = Change(rest, "XCH")
         /\ payer(c).fee = req.fee /\ payer(c).needs = {[of |-> lead.id, said |-> word]}
  BY <1>14 DEF Spending
<1>18. IsFiniteSet(bundle)
  <2> DEFINE f == [c \in others |-> next(c)]
             g == [c \in fees |-> payer(c)]
  <2>1. IsFiniteSet(others)
    BY <1>8, FS_Subset
  <2>2. {f[c] : c \in others} = {next(c) : c \in others} /\ f = [c \in others |-> f[c]]
    OBVIOUS
  <2>3. {g[c] : c \in fees} = {payer(c) : c \in fees} /\ g = [c \in fees |-> g[c]]
    OBVIOUS
  <2> HIDE DEF f, g, others
  <2>4. IsFiniteSet({f[c] : c \in others})
    <3>1. f = [c \in others |-> f[c]]
      BY <2>2, Zenon
    <3> QED BY <2>1, <3>1, ValuesAreFinite, Zenon
  <2>5. IsFiniteSet({g[c] : c \in fees})
    <3>1. IsFiniteSet(fees)
      BY <1>8, Zenon
    <3>2. g = [c \in fees |-> g[c]]
      BY <2>3, Zenon
    <3> QED BY <3>1, <3>2, ValuesAreFinite, Zenon
  <2>6. IsFiniteSet({first})
    BY FS_Singleton, Zenon
  <2>7. IsFiniteSet({first} \cup {next(c) : c \in others})
    BY <2>2, <2>4, <2>6, FS_Union, Zenon
  <2> QED BY <2>3, <2>5, <2>7, FS_Union, Zenon
<1>19. Spent(bundle) = cats \cup fees
  <2>1. {next(c).coin : c \in others} = others /\ {payer(c).coin : c \in fees} = fees
    BY <1>15, <1>17
  <2>2. Spent(bundle) = {first.coin} \cup {next(c).coin : c \in others}
                          \cup {payer(c).coin : c \in fees}
    BY DEF Spent
  <2> QED BY <1>12, <1>16, <2>1, <2>2
<1>20. fees = {} \/ word \in first.says
  BY <1>16
<1>21. \A s \in bundle : s # first =>
         InTheRing(s, first, cats) \/ PaysTheFee(s, first, fees, req.fee, word)
  <2>1. ASSUME NEW c \in others
        PROVE  InTheRing(next(c), first, cats)
    BY <1>15, <1>16 DEF InTheRing
  <2>2. ASSUME NEW c \in fees
        PROVE  PaysTheFee(payer(c), first, fees, req.fee, word)
    BY <1>16, <1>17 DEF PaysTheFee, AsksFor, rest
  <2> QED BY <2>1, <2>2
<1>22. \A s, t \in bundle : s.coin = t.coin => s = t
  <2>1. \A s \in bundle : \/ s = first /\ s.coin = lead
                          \/ s.coin \in others /\ s = next(s.coin)
                          \/ s.coin \in fees /\ s = payer(s.coin)
    BY <1>15, <1>16, <1>17
  <2>2. \A c \in fees : c \notin cats
    BY <1>7
  <2>3. \A c \in others : c \in cats /\ c # lead
    OBVIOUS
  <2> HIDE DEF bundle, others
  <2> QED BY <1>12, <2>1, <2>2, <2>3
<1>23. /\ first \in bundle /\ first.coin \in cats
       /\ first.creates = <<Output("payee", req.amount, "DIG")>>
                            \o Change(ValueOf(cats, {"DIG"}) - req.amount, "DIG")
  BY <1>12, <1>16 DEF pays
<1> HIDE DEF bundle
<1>24. IsCatTransfer(bundle, cats, fees, first, req.amount, req.fee, word)
  BY <1>5, <1>6, <1>16, <1>18, <1>19, <1>20, <1>21, <1>22, <1>23, Zenon DEF IsCatTransfer
<1> QED BY <1>10, <1>11, <1>24, Zenon

(* Of what a transfer's bundle comes to.                                   *)
LEMMA TransferPaysExactly ==
  ASSUME NEW req \in Requests, NEW q \in Transfers("Hot", req) \cup CatTransfers("Hot", req)
  PROVE  PaysExactly(q.bundle, Output(q.to, q.amount, q.asset), q.fee)
<1>1. CASE q \in Transfers("Hot", req)
  <2>1. /\ AsksOf(q, req, "XCH")
        /\ \E coins, first, word :
             IsXchTransfer(q.bundle, coins, first, req.amount, req.fee, word)
    BY <1>1, XchTransferShape, Zenon
  <2>2. /\ q.to = "payee" /\ q.amount = req.amount /\ q.asset = "XCH" /\ q.fee = req.fee
        /\ req.amount \in Nat /\ req.fee \in Nat
    BY <2>1 DEF AsksOf
  <2>3. PaysExactly(q.bundle, Output("payee", req.amount, "XCH"), req.fee)
    BY <2>1, <2>2, XchTransferIsExact, Zenon
  <2> QED BY <2>2, <2>3
<1>2. CASE q \in CatTransfers("Hot", req)
  <2>1. /\ AsksOf(q, req, "DIG")
        /\ \E cats, fees, first, word :
             IsCatTransfer(q.bundle, cats, fees, first, req.amount, req.fee, word)
    BY <1>2, CatTransferShape, Zenon
  <2>2. /\ q.to = "payee" /\ q.amount = req.amount /\ q.asset = "DIG" /\ q.fee = req.fee
        /\ req.amount \in Nat \ {0} /\ req.fee \in Nat
    BY <2>1 DEF AsksOf
  <2>3. PaysExactly(q.bundle, Output("payee", req.amount, "DIG"), req.fee)
    BY <2>1, <2>2, CatTransferIsExact, Zenon
  <2> QED BY <2>2, <2>3
<1> QED BY <1>1, <1>2

(* Every transfer is exact, and no part of it gives value away.            *)
LEMMA AllTransfersAreExact == TransfersAreExact
<1> SUFFICES ASSUME NEW p \in Transferred("Hot")
             PROVE  Exact(p) /\ NoPartDonates(p)
  BY DEF TransfersAreExact
<1>1. PICK req \in Requests :
        p \in {Planned("transfer", q.bundle, Gets(q.to, q.amount, q.asset), q.fee, {}) :
                 q \in Transfers("Hot", req) \cup CatTransfers("Hot", req)}
  BY DEF Transferred
<1>2. PICK q \in Transfers("Hot", req) \cup CatTransfers("Hot", req) :
        p = Planned("transfer", q.bundle, Gets(q.to, q.amount, q.asset), q.fee, {})
  BY <1>1
<1> DEFINE out == Output(q.to, q.amount, q.asset)
<1>3. PaysExactly(q.bundle, out, q.fee)
  BY TransferPaysExactly, Zenon
<1>4. p.bundle = q.bundle /\ p.fee = q.fee /\ p.gets = {out}
  BY <1>2 DEF Planned, Gets
<1> HIDE DEF out
<1>5. Exact(p)
  BY <1>3, <1>4 DEF Exact, PaysExactly
<1>6. NoPartDonates(p)
  <2> SUFFICES ASSUME NEW part \in (SUBSET p.bundle) \ {{}}, Lands(part)
               PROVE  p.gets \subseteq Outputs(Left(part)) /\ Donated(part) <= p.fee
    BY Zenon DEF NoPartDonates
  <2>1. part \in SUBSET q.bundle /\ part # {}
    BY <1>4
  <2>2. out \in Outputs(Left(part)) /\ Donated(part) <= q.fee
    BY <1>3, <2>1, Zenon DEF PaysExactly
  <2> QED BY <1>4, <2>2
<1> QED BY <1>5, <1>6

(* A vault never transfers: its policy is refused before a coin is looked  *)
(* for.                                                                    *)
LEMMA VaultsDoNotTransfer == NoTransferLeavesAVault
<1>1. ASSUME NEW req \in Requests
      PROVE  Transfers("Vault", req) = {} /\ CatTransfers("Vault", req) = {}
  BY DEF Transfers, CatTransfers, Payable
<1>2. Transferred("Vault") = {}
  BY <1>1 DEF Transferred
<1> QED BY <1>2 DEF NoTransferLeavesAVault

(* Every bundle that a builder makes, of any purse, request and fee, lands,*)
(* pays exactly what was asked and gives the farmer the fee it names; no   *)
(* part of a transfer that lands alone gives value away; and a vault never *)
(* transfers (build_transfer_spends, build_dig_transfer_spends,            *)
(* build_mint_spends, build_and_sign_store_launch, build_and_sign_update,  *)
(* plan_melt and the three bundles of a reward distributor).               *)
THEOREM EveryBundleIsExact == Spec => []BundlesAreExact
<1>1. BundlesAreExact
  BY AllTransfersAreExact, VaultsDoNotTransfer, GatedBundlesAreExact DEF BundlesAreExact
<1> QED BY <1>1, PTL

(***************************************************************************)
(* The whitelists take no more than the plans                              *)
(***************************************************************************)
(* A spend as the drivers build it: it asks for its coin's key, and binds  *)
(* the signature to the coin.                                              *)
Signs(s) == s.keys = KeyOf(s.coin.owner) /\ s.domain = "AGG_SIG_ME" /\ s.quoted = TRUE

(* Spending's signature is the coin's, whatever fee it reserves.           *)
LEMMA SpendingSigns ==
  \A coin, creates, fee :
    /\ Signs(Spending(coin, creates))
    /\ Signs([Spending(coin, creates) EXCEPT !.fee = fee])
BY DEF Signs, Spending

(* Whose key a coin's owner stands for: the wallet's for its own coins and *)
(* for its singletons, the launch's own for the security coin, and none    *)
(* for what a puzzle without a key holds.                                  *)
LEMMA KeysOfOwners ==
  /\ KeyOf("me") = {"me"} /\ KeyOf("did") = {"me"} /\ KeyOf("store") = {"me"}
  /\ KeyOf("security") = {"security"}
  /\ KeyOf("launcher") = {} /\ KeyOf("intermediate") = {} /\ KeyOf("settlement") = {}
  /\ KeyOf("distributor") = {} /\ KeyOf("reserve") = {} /\ KeyOf("slot") = {}
<1>1. PICK hot : hot = "hot wallet"
  BY Zenon
<1>2. \A x \in {"launcher", "intermediate", "settlement", "distributor", "reserve", "slot"} :
        x # hot
  BY <1>1, Zenon
<1>3. \A owner : KeyOf(owner) = CASE owner \in {"me", "did", "store"} -> {"me"}
                                  [] owner \in {"payee", "stranger", "security", hot} -> {owner}
                                  [] OTHER -> {}
  BY <1>1, Zenon DEF KeyOf
<1>4. hot # "me" /\ hot # "did" /\ hot # "store"
  BY <1>1, Zenon
<1> QED BY <1>2, <1>3, <1>4

(* Which whitelist a plan of each kind is held against.                    *)
TheOwn(p) == CHOOSE c \in p.named : c.owner = "me"

(* Each kind is held against its own whitelist, and no other.              *)
LEMMA GateOfAKind ==
  ASSUME NEW p, NEW b
  PROVE  /\ p.what = "did mint" => (Passes(p, b) <=> MintGate(b))
         /\ p.what = "store launch" => (Passes(p, b) <=> LaunchGate(b))
         /\ p.what = "edit" => (Passes(p, b) <=> EditGate(b))
         /\ p.what = "melt" => (Passes(p, b) <=> MeltGate(b))
         /\ p.what = "refill" => (Passes(p, b) <=> RefillGate(b, TheOwn(p)) /\ RefillSigned(b))
         /\ p.what = "clawback" =>
              (Passes(p, b) <=> ClawbackGate(b, TheOwn(p)) /\ ClawbackSigned(b))
         /\ p.what = "distributor" =>
              (Passes(p, b) <=> \E f, c \in p.named :
                                  /\ f.asset = "XCH" /\ c.asset = "DIG"
                                  /\ DistributorLaunchGate(b, f, c) /\ Discharged(b))
<1>1. PICK mint, launch : mint = "did mint" /\ launch = "store launch"
  BY Zenon
<1>2. /\ mint # launch
      /\ \A x \in {"edit", "melt", "refill", "clawback", "distributor"} : x # mint /\ x # launch
  BY <1>1, Zenon
<1> DEFINE G1 == MintGate(b)
           G2 == LaunchGate(b)
           G3 == EditGate(b)
           G4 == MeltGate(b)
           G5 == RefillGate(b, TheOwn(p)) /\ RefillSigned(b)
           G6 == ClawbackGate(b, TheOwn(p)) /\ ClawbackSigned(b)
           G7 == \E f, c \in p.named : /\ f.asset = "XCH" /\ c.asset = "DIG"
                                       /\ DistributorLaunchGate(b, f, c) /\ Discharged(b)
<1>3. Passes(p, b) = CASE p.what = mint -> G1
                       [] p.what = launch -> G2
                       [] p.what = "edit" -> G3
                       [] p.what = "melt" -> G4
                       [] p.what = "refill" -> G5
                       [] p.what = "clawback" -> G6
                       [] p.what = "distributor" -> G7
  BY <1>1, Zenon DEF Passes, TheOwn
<1> HIDE DEF G1, G2, G3, G4, G5, G6, G7
<1>4. /\ p.what = mint => Passes(p, b) = G1
      /\ p.what = launch => Passes(p, b) = G2
      /\ p.what = "edit" => Passes(p, b) = G3
      /\ p.what = "melt" => Passes(p, b) = G4
      /\ p.what = "refill" => Passes(p, b) = G5
      /\ p.what = "clawback" => Passes(p, b) = G6
      /\ p.what = "distributor" => Passes(p, b) = G7
  BY <1>2, <1>3
<1> QED BY <1>1, <1>4, Zenon DEF G1, G2, G3, G4, G5, G6, G7

(* What a plan holds: the coins it starts from, and the keys it asks for.  *)
Held(bundle, coins, keys) ==
  /\ Roots(bundle) = coins
  /\ SignedBy(bundle, keys) /\ Quoted(bundle)
  /\ \A k \in keys : \E s \in bundle : k \in s.keys

(* What a gate lets through of a plan: no more coins of the wallet, no     *)
(* other singleton, no other key.                                          *)
Within(bundle, coins, keys) ==
  /\ Cardinality(Mine(Roots(bundle))) <= Cardinality(Mine(coins))
  /\ Singular(Roots(bundle)) \subseteq Singular(coins)
  /\ SignedBy(bundle, keys)

(* A gate that stays within what the plan holds takes no more than it.     *)
LEMMA WithinTakesNoMore ==
  ASSUME NEW p, NEW coins, NEW keys, Held(p.bundle, coins, keys),
         NEW b, Within(b, coins, keys), p.what = "distributor" => Quoted(b)
  PROVE  StakesNoMore(p, b)
<1>1. /\ Cardinality(Mine(Roots(b))) <= Cardinality(Mine(Roots(p.bundle)))
      /\ Singular(Roots(b)) \subseteq Singular(Roots(p.bundle))
  BY Zenon DEF Held, Within
<1>2. \A s \in b : s.keys \subseteq keys /\ (s.keys # {} => s.domain = "AGG_SIG_ME")
  BY Zenon DEF Within, SignedBy
<1>3. \A k \in keys : k \in UNION {t.keys : t \in p.bundle}
  BY DEF Held
<1>4. \A s \in b : s.keys \subseteq UNION {t.keys : t \in p.bundle}
  BY <1>2, <1>3
<1>5. \A s \in b : s.domain = "AGG_SIG_ME" \/ s.keys = {}
  BY <1>2, Zenon
<1>6. p.what = "distributor" => \A s \in b : OwnCoin(s.coin) => s.quoted
  BY Zenon DEF Quoted
<1> QED BY <1>1, <1>4, <1>5, <1>6, Zenon DEF StakesNoMore

(* The coins a plan starts from are those of its spends that are on the    *)
(* chain.                                                                  *)
LEMMA PlansStartOnChain ==
  ASSUME NEW bundle, NEW gets, NEW fee, Settles(bundle, gets, fee)
  PROVE  Roots(bundle) = {c \in Spent(bundle) : Len(c.id) = 1}
<1>1. WellFormed(bundle) /\ IsSupplied(bundle)
  BY Zenon DEF Settles
<1> QED BY <1>1, RootsAreOnChain, Zenon

(* A bundle of the drivers' spends is signed, quoted, and asks for the key *)
(* of each of its coins.                                                   *)
LEMMA DriversSign ==
  ASSUME NEW bundle, \A s \in bundle : Signs(s), NEW keys,
         \A s \in bundle : KeyOf(s.coin.owner) \subseteq keys
  PROVE  SignedBy(bundle, keys) /\ Quoted(bundle)
<1>1. \A s \in bundle : s.keys = KeyOf(s.coin.owner) /\ s.domain = "AGG_SIG_ME" /\ s.quoted
  BY DEF Signs
<1>2. SignedBy(bundle, keys)
  BY <1>1, Zenon DEF SignedBy
<1>3. Quoted(bundle)
  BY <1>1, Zenon DEF Quoted
<1> QED BY <1>2, <1>3

(* How much of a gate's coins is the wallet's.                             *)
LEMMA MineOfOne ==
  ASSUME NEW c, c.owner \in {"me", "did", "store"}
  PROVE  Mine({c}) = {c} /\ Cardinality({c}) = 1
<1>1. "me" \in KeyOf(c.owner)
  BY KeysOfOwners
<1>2. Mine({c}) = {c}
  BY <1>1 DEF Mine
<1> QED BY <1>2, FS_Singleton

(* Two coins under the wallet's key count as two.                          *)
LEMMA MineOfTwo ==
  ASSUME NEW c, NEW d, c # d, c.owner \in {"me", "did", "store"},
         d.owner \in {"me", "did", "store"}
  PROVE  Mine({c, d}) = {c, d} /\ Cardinality({c, d}) = 2
<1>1. "me" \in KeyOf(c.owner) /\ "me" \in KeyOf(d.owner)
  BY KeysOfOwners
<1>2. Mine({c, d}) = {c, d}
  BY <1>1 DEF Mine
<1>3. IsFiniteSet({c}) /\ Cardinality({c}) = 1 /\ d \notin {c}
  BY FS_Singleton
<1>4. Cardinality({c} \cup {d}) = 2
  BY <1>3, FS_AddElement
<1>5. {c} \cup {d} = {c, d}
  OBVIOUS
<1> QED BY <1>2, <1>4, <1>5

(* What must be shown of a plan: its own bundle passes its gate and is     *)
(* signed, and nothing that passes takes more.                             *)
Gates(p) ==
  /\ Passes(p, p.bundle) /\ IsSigned(p, p.bundle)
  /\ \A b : Passes(p, b) => StakesNoMore(p, b) /\ IsSigned(p, b)

(* Only the wallet's key is asked for: the signing loop refuses nothing.   *)
LEMMA SignedAlone ==
  ASSUME NEW p, NEW b, SignsForItself(b)
  PROVE  IsSigned(p, b)
BY Zenon DEF SignsForItself, SignedBy, IsSigned, SignedInFull

(* A gate that looks for the wallet's key alone.                           *)
LEMMA GatesOfTheWallet ==
  ASSUME NEW p, NEW coins, Held(p.bundle, coins, {"me"}), p.what # "distributor",
         Passes(p, p.bundle), \A b : Passes(p, b) => Within(b, coins, {"me"})
  PROVE  Gates(p)
<1>1. ASSUME NEW b, Passes(p, b)
      PROVE  StakesNoMore(p, b) /\ IsSigned(p, b)
  <2>1. Within(b, coins, {"me"})
    BY <1>1
  <2>2. SignsForItself(b)
    BY <2>1, Zenon DEF Within, SignsForItself
  <2>3. IsSigned(p, b)
    BY <2>2, SignedAlone, Zenon
  <2>4. StakesNoMore(p, b)
    BY <2>1, WithinTakesNoMore, Zenon
  <2> QED BY <2>3, <2>4
<1> QED BY <1>1, Zenon DEF Gates

(* What is signed for itself and starts from the same coins is within.     *)
LEMMA SameCoins ==
  ASSUME NEW coins, IsFiniteSet(coins), NEW keys, NEW b, SignedBy(b, keys), Roots(b) = coins
  PROVE  Within(b, coins, keys)
<1>1. Mine(coins) \subseteq coins
  BY DEF Mine
<1>2. Cardinality(Mine(coins)) \in Nat
  BY <1>1, FS_Subset, FS_CardinalityType
<1>3. Cardinality(Mine(coins)) <= Cardinality(Mine(coins))
  BY <1>2
<1> QED BY <1>3 DEF Within

(* build_mint_spends starts from its source alone, and asks for the        *)
(* wallet's key.                                                           *)
LEMMA DidMintHolds ==
  ASSUME NEW fee \in Fees, NEW source \in Funding(fee)
  PROVE  Held(DidMintBundle(source, fee), {source}, {"me"})
<1> DEFINE split    == ChangeAndFee(source, fee)
           k        == split.change
           f        == split.fee
           one      == Output("me", 1, "XCH")
           launch   == Output("launcher", 1, "XCH")
           did      == Output("did", 1, "XCH")
           funding  == Made(source, one)
           launcher == Made(funding, launch)
           s1 == [Spending(source, <<one>> \o Change(k, "XCH")) EXCEPT !.fee = f]
           s2 == Spending(funding, <<launch>>)
           s3 == Spending(launcher, <<did>>)
           bundle == DidMintBundle(source, fee)
<1>1. bundle = {s1, s2, s3}
  BY Zenon DEF DidMintBundle
<1>2. source.owner = "me" /\ IsPath(source.id) /\ Len(source.id) = 1
  BY FundingCovers
<1>3. /\ IsPath(funding.id) /\ Len(funding.id) = Len(source.id) + 1
      /\ funding.owner = one.owner
  BY <1>2, MadeCoins, Zenon
<1>4. Len(launcher.id) = Len(funding.id) + 1 /\ launcher.owner = launch.owner
  BY <1>3, MadeCoins, Zenon
<1>5. one.owner = "me" /\ launch.owner = "launcher"
  BY DEF Output
<1>6. Signs(s1) /\ Signs(s2) /\ Signs(s3)
  BY SpendingSigns, Zenon
<1>7. s1.coin = source /\ s2.coin = funding /\ s3.coin = launcher
  BY DEF Spending
<1> HIDE DEF s1, s2, s3, funding, launcher, one, launch
<1>8. Len(funding.id) # 1 /\ Len(launcher.id) # 1
  BY <1>2, <1>3, <1>4
<1>9. Spent(bundle) = {source, funding, launcher}
  BY <1>1, <1>7 DEF Spent
<1>10. Roots(bundle) = {source}
  <2>1. Roots(bundle) = {c \in Spent(bundle) : Len(c.id) = 1}
    BY DidMintIsExact, PlansStartOnChain, Zenon
  <2> QED BY <1>2, <1>8, <1>9, <2>1
<1>11. \A s \in bundle : Signs(s) /\ KeyOf(s.coin.owner) \subseteq {"me"}
  BY <1>1, <1>2, <1>3, <1>4, <1>5, <1>6, <1>7, KeysOfOwners
<1>12. s1 \in bundle /\ s1.keys = {"me"}
  BY <1>1, <1>2, <1>6, <1>7, KeysOfOwners DEF Signs
<1> HIDE DEF bundle
<1>13. SignedBy(bundle, {"me"}) /\ Quoted(bundle)
  BY <1>11, DriversSign, Zenon
<1>14. \A key \in {"me"} : \E s \in bundle : key \in s.keys
  BY <1>12
<1>15. Held(bundle, {source}, {"me"})
  BY <1>10, <1>13, <1>14, Zenon DEF Held
<1> QED BY <1>15 DEF bundle

(* gate: one coin of the wallet, like the plan's.                          *)
LEMMA DidMintGate ==
  ASSUME NEW p, NEW fee \in Fees, NEW c \in Funding(fee), IsDidMint(p, fee, c)
  PROVE  Gates(p)
<1>1. p.what = "did mint" /\ p.bundle = DidMintBundle(c, fee)
  BY Zenon DEF IsDidMint, IsPlan
<1>2. Held(p.bundle, {c}, {"me"})
  BY <1>1, DidMintHolds, Zenon
<1>3. c.owner = "me" /\ c.asset = "XCH"
  BY FundingCovers
<1>4. \A b : Passes(p, b) <=> MintGate(b)
  BY <1>1, GateOfAKind, Zenon
<1>5. Passes(p, p.bundle)
  <2>1. Roots(p.bundle) = {c} /\ SignsForItself(p.bundle)
    BY <1>2, Zenon DEF Held, SignsForItself
  <2> QED BY <1>3, <1>4, <2>1 DEF MintGate, OwnCoin
<1>6. ASSUME NEW b, Passes(p, b)
      PROVE  Within(b, {c}, {"me"})
  <2>1. PICK d \in Roots(b) : Roots(b) = {d} /\ OwnCoin(d)
    BY <1>4, <1>6, Zenon DEF MintGate
  <2>2. d.owner = "me"
    BY <2>1 DEF OwnCoin
  <2>3. Cardinality(Mine({d})) = 1 /\ Cardinality(Mine({c})) = 1
    BY <1>3, <2>2, MineOfOne
  <2>4. Singular({d}) = {}
    BY <2>2 DEF Singular, Singletons
  <2>5. SignedBy(b, {"me"})
    BY <1>4, <1>6, Zenon DEF MintGate, SignsForItself
  <2> QED BY <2>1, <2>3, <2>4, <2>5 DEF Within
<1>7. p.what # "distributor"
  BY <1>1, Zenon
<1> QED BY <1>2, <1>5, <1>6, <1>7, GatesOfTheWallet, Zenon

(* build_and_sign_store_launch starts from the DID and its funding coin.   *)
LEMMA StoreLaunchHolds ==
  ASSUME NEW fee \in Fees, NEW funding \in Funding(fee)
  PROVE  Held(StoreLaunchBundle(funding, fee), {Did, funding}, {"me"})
<1> DEFINE k        == funding.amount - 1 - fee
           did      == Output("did", 1, "XCH")
           inter    == Output("intermediate", 0, "XCH")
           launch   == Output("launcher", 1, "XCH")
           store    == Output("store", 1, "XCH")
           between  == Made(Did, inter)
           launcher == Made(between, launch)
           s1 == Spending(Did, <<did, inter>>)
           s2 == Spending(between, <<launch>>)
           s3 == Spending(launcher, <<store>>)
           s4 == [Spending(funding, Change(k, "XCH")) EXCEPT !.fee = fee]
           bundle == StoreLaunchBundle(funding, fee)
<1>1. bundle = {s1, s2, s3, s4}
  BY Zenon DEF StoreLaunchBundle, FundingSpend
<1>2. funding.owner = "me" /\ Len(funding.id) = 1
  BY FundingCovers
<1>3. /\ IsPath(between.id) /\ Len(between.id) = Len(Did.id) + 1
      /\ between.owner = inter.owner
  BY OwnSingletons, MadeCoins, Zenon
<1>4. Len(launcher.id) = Len(between.id) + 1 /\ launcher.owner = launch.owner
  BY <1>3, MadeCoins, Zenon
<1>5. inter.owner = "intermediate" /\ launch.owner = "launcher"
  BY DEF Output
<1>6. Signs(s1) /\ Signs(s2) /\ Signs(s3) /\ Signs(s4)
  BY SpendingSigns, Zenon
<1>7. s1.coin = Did /\ s2.coin = between /\ s3.coin = launcher /\ s4.coin = funding
  BY DEF Spending
<1> HIDE DEF s1, s2, s3, s4, between, launcher, inter, launch
<1>8. Len(between.id) # 1 /\ Len(launcher.id) # 1
  BY <1>3, <1>4, OwnSingletons
<1>9. Spent(bundle) = {Did, between, launcher, funding}
  BY <1>1, <1>7 DEF Spent
<1>10. Roots(bundle) = {Did, funding}
  <2>1. Roots(bundle) = {c \in Spent(bundle) : Len(c.id) = 1}
    BY StoreLaunchIsExact, PlansStartOnChain, Zenon
  <2> QED BY <1>2, <1>8, <1>9, <2>1, OwnSingletons
<1>11. \A s \in bundle : Signs(s) /\ KeyOf(s.coin.owner) \subseteq {"me"}
  BY <1>1, <1>2, <1>3, <1>4, <1>5, <1>6, <1>7, KeysOfOwners, OwnSingletons
<1>12. s1 \in bundle /\ s1.keys = {"me"}
  BY <1>1, <1>6, <1>7, KeysOfOwners, OwnSingletons DEF Signs
<1> HIDE DEF bundle
<1>13. SignedBy(bundle, {"me"}) /\ Quoted(bundle)
  BY <1>11, DriversSign, Zenon
<1>14. \A key \in {"me"} : \E s \in bundle : key \in s.keys
  BY <1>12
<1>15. Held(bundle, {Did, funding}, {"me"})
  BY <1>10, <1>13, <1>14, Zenon DEF Held
<1> QED BY <1>15 DEF bundle

(* gate_store_launch: the DID and one coin of the wallet, like the plan's. *)
LEMMA StoreLaunchGate ==
  ASSUME NEW p, NEW fee \in Fees, NEW c \in Funding(fee), IsStoreLaunch(p, fee, c)
  PROVE  Gates(p)
<1>1. p.what = "store launch" /\ p.bundle = StoreLaunchBundle(c, fee)
  BY Zenon DEF IsStoreLaunch, IsPlan
<1>2. Held(p.bundle, {Did, c}, {"me"})
  BY <1>1, StoreLaunchHolds, Zenon
<1>3. c.owner = "me" /\ c.asset = "XCH" /\ c # Did
  BY FundingCovers, OwnSingletons
<1>4. \A b : Passes(p, b) <=> LaunchGate(b)
  BY <1>1, GateOfAKind, Zenon
<1>5. Passes(p, p.bundle)
  <2>1. Roots(p.bundle) = {Did, c} /\ SignsForItself(p.bundle)
    BY <1>2, Zenon DEF Held, SignsForItself
  <2> QED BY <1>3, <1>4, <2>1 DEF LaunchGate, OwnCoin
<1>6. ASSUME NEW b, Passes(p, b)
      PROVE  Within(b, {Did, c}, {"me"})
  <2>1. PICK d \in Roots(b) : Roots(b) = {Did, d} /\ d # Did /\ OwnCoin(d)
    BY <1>4, <1>6, Zenon DEF LaunchGate
  <2>2. d.owner = "me"
    BY <2>1 DEF OwnCoin
  <2>3. Cardinality(Mine({Did, d})) = 2 /\ Cardinality(Mine({Did, c})) = 2
    BY <1>3, <2>1, <2>2, MineOfTwo, OwnSingletons
  <2>4. Singular({Did, d}) = {Did} /\ Singular({Did, c}) = {Did}
    BY <1>3, <2>2, OwnSingletons DEF Singular, Singletons
  <2>5. SignedBy(b, {"me"})
    BY <1>4, <1>6, Zenon DEF LaunchGate, SignsForItself
  <2> QED BY <2>1, <2>3, <2>4, <2>5 DEF Within
<1>7. p.what # "distributor"
  BY <1>1, Zenon
<1> QED BY <1>2, <1>5, <1>6, <1>7, GatesOfTheWallet, Zenon

(* A bundle that spends nothing but coins of the chain starts from them.   *)
LEMMA NothingBetween ==
  ASSUME NEW bundle, \A c \in Spent(bundle) : IsPath(c.id) /\ Len(c.id) = 1
  PROVE  Roots(bundle) = Spent(bundle)
<1>1. ASSUME NEW c \in Spent(bundle), NEW d \in Spent(bundle)
      PROVE  Front(c.id) # d.id
  <2> DEFINE path == c.id
  <2>1. Len(path) = 1 /\ path = [i \in 1 .. Len(path) |-> path[i]]
    BY Zenon DEF IsPath
  <2> HIDE DEF path
  <2>2. path = Append(<<>>, path[1])
    BY <2>1
  <2>3. Len(<<>>) = 0 /\ <<>> = [i \in 1 .. Len(<<>>) |-> <<>>[i]]
    OBVIOUS
  <2>4. Front(path) = <<>>
    BY <2>2, <2>3, PathsGrow
  <2>5. Len(Front(path)) = 0
    BY <2>3, <2>4
  <2>6. Len(d.id) # 0
    OBVIOUS
  <2> QED BY <2>5, <2>6 DEF path
<1> QED BY <1>1 DEF Roots

(* build_and_sign_update and gate_edit: the store's tip alone.             *)
LEMMA EditGateHolds ==
  ASSUME NEW p, IsEdit(p)
  PROVE  Gates(p)
<1> DEFINE s == Spending(Store, <<Output("store", 1, "XCH")>>)
<1>1. p.what = "edit" /\ p.bundle = {s}
  BY Zenon DEF IsEdit, IsPlan, EditBundle
<1>2. Signs(s) /\ s.coin = Store
  BY SpendingSigns, SpendingIs, Zenon
<1> HIDE DEF s
<1>3. Spent(p.bundle) = {Store} /\ Cardinality(p.bundle) = 1
  BY <1>1, <1>2, FS_Singleton DEF Spent
<1>4. \A t \in p.bundle : Signs(t) /\ KeyOf(t.coin.owner) \subseteq {"me"}
  BY <1>1, <1>2, KeysOfOwners, OwnSingletons
<1>5. SignedBy(p.bundle, {"me"}) /\ Quoted(p.bundle)
  BY <1>4, DriversSign, Zenon
<1>6. \A b : Passes(p, b) <=> EditGate(b)
  BY <1>1, GateOfAKind, Zenon
<1>7. ASSUME NEW b, Spent(b) = {Store}
      PROVE  Roots(b) = {Store}
  BY <1>7, NothingBetween, OwnSingletons
<1>8. Held(p.bundle, {Store}, {"me"})
  <2>1. \A key \in {"me"} : \E t \in p.bundle : key \in t.keys
    BY <1>1, <1>2, KeysOfOwners, OwnSingletons DEF Signs
  <2> QED BY <1>3, <1>5, <1>7, <2>1, Zenon DEF Held
<1>9. Passes(p, p.bundle)
  BY <1>3, <1>5, <1>6, Zenon DEF EditGate, SignsForItself
<1>10. ASSUME NEW b, Passes(p, b)
       PROVE  Within(b, {Store}, {"me"})
  <2>1. Spent(b) = {Store} /\ SignedBy(b, {"me"})
    BY <1>6, <1>10, Zenon DEF EditGate, SignsForItself
  <2>2. Roots(b) = {Store}
    BY <1>7, <2>1
  <2> QED BY <2>1, <2>2, SameCoins, FS_Singleton
<1> QED BY <1>1, <1>8, <1>9, <1>10, GatesOfTheWallet

(* plan_melt and gate_profile_melt: the two singletons alone.              *)
LEMMA MeltGateHolds ==
  ASSUME NEW p, IsMelt(p)
  PROVE  Gates(p)
<1> DEFINE s1 == Spending(Did, <<>>)
           s2 == Spending(Store, <<>>)
<1>1. p.what = "melt" /\ p.bundle = {s1, s2}
  BY Zenon DEF IsMelt, IsPlan, MeltBundle
<1>2. Signs(s1) /\ s1.coin = Did /\ Signs(s2) /\ s2.coin = Store
  BY SpendingSigns, SpendingIs, Zenon
<1> HIDE DEF s1, s2
<1>3. Spent(p.bundle) = {Did, Store}
  BY <1>1, <1>2 DEF Spent
<1>4. Cardinality(p.bundle) = 2
  <2>1. s1 # s2
    BY <1>2, OwnSingletons
  <2>2. IsFiniteSet({s1}) /\ Cardinality({s1}) = 1
    BY FS_Singleton
  <2>3. Cardinality({s1} \cup {s2}) = 2
    BY <2>1, <2>2, FS_AddElement
  <2>4. {s1} \cup {s2} = {s1, s2}
    OBVIOUS
  <2> QED BY <1>1, <2>3, <2>4
<1>5. \A t \in p.bundle : Signs(t) /\ KeyOf(t.coin.owner) \subseteq {"me"}
  BY <1>1, <1>2, KeysOfOwners, OwnSingletons
<1>6. SignedBy(p.bundle, {"me"}) /\ Quoted(p.bundle)
  BY <1>5, DriversSign, Zenon
<1>7. \A b : Passes(p, b) <=> MeltGate(b)
  BY <1>1, GateOfAKind, Zenon
<1>8. ASSUME NEW b, Spent(b) = {Did, Store}
      PROVE  Roots(b) = {Did, Store}
  BY <1>8, NothingBetween, OwnSingletons
<1>9. Held(p.bundle, {Did, Store}, {"me"})
  <2>1. \A key \in {"me"} : \E t \in p.bundle : key \in t.keys
    BY <1>1, <1>2, KeysOfOwners, OwnSingletons DEF Signs
  <2> QED BY <1>3, <1>6, <1>8, <2>1, Zenon DEF Held
<1>10. Passes(p, p.bundle)
  BY <1>3, <1>4, <1>6, <1>7, Zenon DEF MeltGate, SignsForItself
<1>11. ASSUME NEW b, Passes(p, b)
       PROVE  Within(b, {Did, Store}, {"me"})
  <2>1. Spent(b) = {Did, Store} /\ SignedBy(b, {"me"})
    BY <1>7, <1>11, Zenon DEF MeltGate, SignsForItself
  <2>2. Roots(b) = {Did, Store}
    BY <1>8, <2>1
  <2>3. IsFiniteSet({Did} \cup {Store}) /\ {Did} \cup {Store} = {Did, Store}
    BY FS_Singleton, FS_Union
  <2> QED BY <2>1, <2>2, <2>3, SameCoins
<1> QED BY <1>1, <1>9, <1>10, <1>11, GatesOfTheWallet

(* begin_reward_distributor_refill starts from the distributor, its        *)
(* reserve, a reward slot and the funding coin.                            *)
LEMMA RefillHolds ==
  ASSUME NEW cat \in Own("DIG"), NEW rewards \in Amounts, NEW epoch, NEW staged,
         Refillable(cat, rewards, epoch, staged)
  PROVE  Held(RefillBundle(cat, rewards, staged),
              {Distributor, ReserveCoin, RewardSlot, cat}, {"me"})
<1> DEFINE s1 == Spending(Distributor, <<Output("distributor", 1, "XCH"),
                                         Output("slot", 0, "XCH")>>)
           s2 == Spending(ReserveCoin, <<Output("reserve", Reserve + rewards, "DIG")>>)
           s3 == Spending(RewardSlot, <<>>)
           s4 == Spending(cat, Change(cat.amount - rewards, "DIG"))
           bundle == RefillBundle(cat, rewards, staged)
<1>1. bundle = {s1, s2, s3, s4}
  <2>1. Staged(staged) = {}
    BY DEF Refillable, Staged
  <2>2. bundle = {s1, s2, s3, s4} \cup Staged(staged)
    BY Zenon DEF RefillBundle
  <2> HIDE DEF s1, s2, s3, s4, bundle
  <2> QED BY <2>1, <2>2
<1>2. cat.owner = "me" /\ Len(cat.id) = 1
  BY OwnCoins
<1>3. s1.coin = Distributor /\ s2.coin = ReserveCoin /\ s3.coin = RewardSlot /\ s4.coin = cat
  BY SpendingIs, Zenon
<1>4. Signs(s1) /\ Signs(s2) /\ Signs(s3) /\ Signs(s4)
  BY SpendingSigns, Zenon
<1> HIDE DEF s1, s2, s3, s4
<1>5. Spent(bundle) = {Distributor, ReserveCoin, RewardSlot, cat}
  BY <1>1, <1>3 DEF Spent
<1>6. Roots(bundle) = {Distributor, ReserveCoin, RewardSlot, cat}
  <2>1. Roots(bundle) = {c \in Spent(bundle) : Len(c.id) = 1}
    BY RefillIsExact, PlansStartOnChain, Zenon
  <2> QED BY <1>2, <1>5, <2>1, DistributorCoins
<1>7. \A s \in bundle : Signs(s) /\ KeyOf(s.coin.owner) \subseteq {"me"}
  BY <1>1, <1>2, <1>3, <1>4, KeysOfOwners, DistributorCoins
<1>8. s4 \in bundle /\ s4.keys = {"me"}
  BY <1>1, <1>2, <1>3, <1>4, KeysOfOwners DEF Signs
<1> HIDE DEF bundle
<1>9. SignedBy(bundle, {"me"}) /\ Quoted(bundle)
  BY <1>7, DriversSign, Zenon
<1>10. \A key \in {"me"} : \E s \in bundle : key \in s.keys
  BY <1>8
<1>11. Held(bundle, {Distributor, ReserveCoin, RewardSlot, cat}, {"me"})
  BY <1>6, <1>9, <1>10, Zenon DEF Held
<1> QED BY <1>11 DEF bundle

(* The one coin a refill or a clawback names that is the wallet's.         *)
LEMMA TheOwnIs ==
  ASSUME NEW p, NEW c \in p.named, c.owner = "me", \A d \in p.named : d.owner = "me" => d = c
  PROVE  TheOwn(p) = c
BY DEF TheOwn

(* gate_reward_distributor_refill_roots: exactly the plan's coins.         *)
LEMMA RefillGateHolds ==
  ASSUME NEW p, NEW cat \in Own("DIG"), NEW rewards \in Amounts, NEW epoch, NEW staged,
         Refillable(cat, rewards, epoch, staged), IsRefill(p, cat, rewards, staged)
  PROVE  Gates(p)
<1> DEFINE coins == {Distributor, ReserveCoin, RewardSlot, cat}
<1>1. p.what = "refill" /\ p.bundle = RefillBundle(cat, rewards, staged) /\ p.named = coins
  BY Zenon DEF IsRefill, IsPlan
<1>2. Held(p.bundle, coins, {"me"})
  BY <1>1, RefillHolds, Zenon
<1>3. TheOwn(p) = cat
  <2>1. cat.owner = "me"
    BY OwnCoins
  <2>2. cat \in p.named /\ \A d \in p.named : d.owner = "me" => d = cat
    BY <1>1, DistributorCoins
  <2> QED BY <2>1, <2>2, TheOwnIs, Zenon
<1>4. \A b : Passes(p, b) <=> Roots(b) = coins /\ SignsForItself(b)
  BY <1>1, <1>3, GateOfAKind, Zenon DEF RefillGate, RefillSigned
<1>5. IsFiniteSet(coins)
  <2>1. IsFiniteSet({Distributor} \cup {ReserveCoin} \cup {RewardSlot} \cup {cat})
    BY FS_Singleton, FS_Union
  <2>2. {Distributor} \cup {ReserveCoin} \cup {RewardSlot} \cup {cat} = coins
    OBVIOUS
  <2> QED BY <2>1, <2>2, Zenon
<1> HIDE DEF coins
<1>6. Passes(p, p.bundle)
  BY <1>2, <1>4, Zenon DEF Held, SignsForItself
<1>7. ASSUME NEW b, Passes(p, b)
      PROVE  Within(b, coins, {"me"})
  BY <1>4, <1>5, <1>7, SameCoins, Zenon DEF SignsForItself
<1> QED BY <1>1, <1>2, <1>6, <1>7, GatesOfTheWallet

(* begin_reward_distributor_clawback starts from the distributor, its      *)
(* reserve, two slots and the coin that authorizes it.                     *)
LEMMA ClawbackHolds ==
  ASSUME NEW coin \in Own("XCH"), NEW claim \in Claims, Recoverable(coin, claim)
  PROVE  Held(ClawbackBundle(coin, claim),
              {Distributor, ReserveCoin, Commitment, RewardSlot, coin}, {"me"})
<1> DEFINE s1 == Spending(Distributor, <<Output("distributor", 1, "XCH"),
                                         Output("slot", 0, "XCH")>>)
           s2 == Spending(ReserveCoin, <<Output("reserve", Reserve - Share(claim), "DIG")>>
                                         \o Change(Share(claim), "DIG"))
           s3 == Spending(Commitment, <<>>)
           s4 == Spending(RewardSlot, <<>>)
           s5 == Spending(coin, <<Output("me", coin.amount, "XCH")>>)
           bundle == ClawbackBundle(coin, claim)
<1>1. bundle = {s1, s2, s3, s4, s5}
  <2>1. Staged(claim.staged) = {}
    BY DEF Recoverable, Staged
  <2>2. bundle = {s1, s2, s3, s4, s5} \cup Staged(claim.staged)
    BY Zenon DEF ClawbackBundle
  <2> HIDE DEF s1, s2, s3, s4, s5, bundle
  <2> QED BY <2>1, <2>2
<1>2. coin.owner = "me" /\ Len(coin.id) = 1
  BY OwnCoins
<1>3. /\ s1.coin = Distributor /\ s2.coin = ReserveCoin /\ s3.coin = Commitment
      /\ s4.coin = RewardSlot /\ s5.coin = coin
  BY SpendingIs, Zenon
<1>4. Signs(s1) /\ Signs(s2) /\ Signs(s3) /\ Signs(s4) /\ Signs(s5)
  BY SpendingSigns, Zenon
<1> HIDE DEF s1, s2, s3, s4, s5
<1>5. Spent(bundle) = {Distributor, ReserveCoin, Commitment, RewardSlot, coin}
  BY <1>1, <1>3 DEF Spent
<1>6. Roots(bundle) = {Distributor, ReserveCoin, Commitment, RewardSlot, coin}
  <2>1. Roots(bundle) = {c \in Spent(bundle) : Len(c.id) = 1}
    BY ClawbackIsExact, PlansStartOnChain, Zenon
  <2> QED BY <1>2, <1>5, <2>1, DistributorCoins
<1>7. \A s \in bundle : Signs(s) /\ KeyOf(s.coin.owner) \subseteq {"me"}
  BY <1>1, <1>2, <1>3, <1>4, KeysOfOwners, DistributorCoins
<1>8. s5 \in bundle /\ s5.keys = {"me"}
  BY <1>1, <1>2, <1>3, <1>4, KeysOfOwners DEF Signs
<1> HIDE DEF bundle
<1>9. SignedBy(bundle, {"me"}) /\ Quoted(bundle)
  BY <1>7, DriversSign, Zenon
<1>10. \A key \in {"me"} : \E s \in bundle : key \in s.keys
  BY <1>8
<1>11. Held(bundle, {Distributor, ReserveCoin, Commitment, RewardSlot, coin}, {"me"})
  BY <1>6, <1>9, <1>10, Zenon DEF Held
<1> QED BY <1>11 DEF bundle

(* gate_reward_distributor_clawback_roots: exactly the plan's coins.       *)
LEMMA ClawbackGateHolds ==
  ASSUME NEW p, NEW coin \in Own("XCH"), NEW claim \in Claims, Recoverable(coin, claim),
         IsClawback(p, coin, claim)
  PROVE  Gates(p)
<1> DEFINE coins == {Distributor, ReserveCoin, Commitment, RewardSlot, coin}
<1>1. p.what = "clawback" /\ p.bundle = ClawbackBundle(coin, claim) /\ p.named = coins
  BY Zenon DEF IsClawback, IsPlan
<1>2. Held(p.bundle, coins, {"me"})
  BY <1>1, ClawbackHolds, Zenon
<1>3. TheOwn(p) = coin
  <2>1. coin.owner = "me"
    BY OwnCoins
  <2>2. coin \in p.named /\ \A d \in p.named : d.owner = "me" => d = coin
    BY <1>1, DistributorCoins
  <2> QED BY <2>1, <2>2, TheOwnIs, Zenon
<1>4. \A b : Passes(p, b) <=> Roots(b) = coins /\ SignsForItself(b)
  BY <1>1, <1>3, GateOfAKind, Zenon DEF ClawbackGate, ClawbackSigned
<1>5. IsFiniteSet(coins)
  <2>1. IsFiniteSet({Distributor} \cup {ReserveCoin} \cup {Commitment} \cup {RewardSlot}
                      \cup {coin})
    BY FS_Singleton, FS_Union
  <2>2. {Distributor} \cup {ReserveCoin} \cup {Commitment} \cup {RewardSlot} \cup {coin} = coins
    OBVIOUS
  <2> QED BY <2>1, <2>2, Zenon
<1> HIDE DEF coins
<1>6. Passes(p, p.bundle)
  BY <1>2, <1>4, Zenon DEF Held, SignsForItself
<1>7. ASSUME NEW b, Passes(p, b)
      PROVE  Within(b, coins, {"me"})
  BY <1>4, <1>5, <1>7, SameCoins, Zenon DEF SignsForItself
<1> QED BY <1>1, <1>2, <1>6, <1>7, GatesOfTheWallet

(* build_and_sign_reward_distributor_launch starts from the two coins the  *)
(* mint named, and asks for the launch's own key beside the wallet's.      *)
LEMMA DistributorHolds ==
  ASSUME NEW fee \in Fees, NEW funding \in Own("XCH"), NEW cat \in Own("DIG"), NEW terms,
         Launchable(funding, cat, fee, terms)
  PROVE  Held(LaunchBundle(funding, cat, fee), {funding, cat}, {"me", "security"})
<1> DEFINE k        == funding.amount - LaunchCost(fee)
           launch   == Output("launcher", 1, "XCH")
           settle   == Output("settlement", 1, "XCH")
           offer    == Output("settlement", cat.amount, "DIG")
           secure   == Output("security", 1, "XCH")
           launcher == Made(funding, launch)
           mojo     == Made(funding, settle)
           offered  == Made(cat, offer)
           security == Made(mojo, secure)
           s1 == [Spending(funding, <<launch, settle>> \o Change(k, "XCH")) EXCEPT !.fee = fee]
           s2 == Spending(launcher, <<Output("manager", 1, "XCH")>>)
           s3 == Spending(cat, <<offer>>)
           s4 == Spending(mojo, <<secure>>)
           s5 == Spending(security, <<Output("distributor", 1, "XCH")>>)
           s6 == Spending(offered, <<Output("reserve", 0, "DIG"), Output("me", cat.amount, "DIG")>>)
           bundle == LaunchBundle(funding, cat, fee)
<1>1. bundle = {s1, s2, s3, s4, s5, s6}
  BY Zenon DEF LaunchBundle, ManagerLauncher, OfferedXch, CatIntoSettlement
<1>2. /\ funding.owner = "me" /\ IsPath(funding.id) /\ Len(funding.id) = 1
      /\ cat.owner = "me" /\ IsPath(cat.id) /\ Len(cat.id) = 1
  BY OwnCoins
<1>3. /\ IsPath(mojo.id) /\ Len(mojo.id) = Len(funding.id) + 1
      /\ mojo.owner = settle.owner
      /\ Len(launcher.id) = Len(funding.id) + 1 /\ launcher.owner = launch.owner
      /\ Len(offered.id) = Len(cat.id) + 1 /\ offered.owner = offer.owner
  <2>1. /\ IsPath(mojo.id) /\ Len(mojo.id) = Len(funding.id) + 1
        /\ mojo.owner = settle.owner
    BY <1>2, MadeCoins, Zenon
  <2>2. Len(launcher.id) = Len(funding.id) + 1 /\ launcher.owner = launch.owner
    BY <1>2, MadeCoins, Zenon
  <2>3. Len(offered.id) = Len(cat.id) + 1 /\ offered.owner = offer.owner
    BY <1>2, MadeCoins, Zenon
  <2> QED BY <2>1, <2>2, <2>3, Zenon
<1>4. Len(security.id) = Len(mojo.id) + 1 /\ security.owner = secure.owner
  BY <1>3, MadeCoins, Zenon
<1>5. /\ launch.owner = "launcher" /\ settle.owner = "settlement"
      /\ offer.owner = "settlement" /\ secure.owner = "security"
  BY DEF Output
<1>6. Signs(s1) /\ Signs(s2) /\ Signs(s3) /\ Signs(s4) /\ Signs(s5) /\ Signs(s6)
  BY SpendingSigns, Zenon
<1>7. /\ s1.coin = funding /\ s2.coin = launcher /\ s3.coin = cat /\ s4.coin = mojo
      /\ s5.coin = security /\ s6.coin = offered
  BY DEF Spending
<1> HIDE DEF s1, s2, s3, s4, s5, s6, launcher, mojo, offered, security, launch, settle,
             offer, secure
<1>8. /\ Len(launcher.id) # 1 /\ Len(mojo.id) # 1 /\ Len(offered.id) # 1
      /\ Len(security.id) # 1
  BY <1>2, <1>3, <1>4
<1>9. Spent(bundle) = {funding, launcher, cat, mojo, security, offered}
  BY <1>1, <1>7 DEF Spent
<1>10. Roots(bundle) = {funding, cat}
  <2>1. Roots(bundle) = {c \in Spent(bundle) : Len(c.id) = 1}
    BY DistributorIsExact, PlansStartOnChain, Zenon
  <2> QED BY <1>2, <1>8, <1>9, <2>1
<1>11. \A s \in bundle : Signs(s) /\ KeyOf(s.coin.owner) \subseteq {"me", "security"}
  BY <1>1, <1>2, <1>3, <1>4, <1>5, <1>6, <1>7, KeysOfOwners
<1>12. s1 \in bundle /\ s1.keys = {"me"} /\ s5 \in bundle /\ s5.keys = {"security"}
  BY <1>1, <1>2, <1>4, <1>5, <1>6, <1>7, KeysOfOwners DEF Signs
<1> HIDE DEF bundle
<1>13. SignedBy(bundle, {"me", "security"}) /\ Quoted(bundle)
  BY <1>11, DriversSign, Zenon
<1>14. \A key \in {"me", "security"} : \E s \in bundle : key \in s.keys
  BY <1>12
<1>15. Held(bundle, {funding, cat}, {"me", "security"})
  BY <1>10, <1>13, <1>14, Zenon DEF Held
<1> QED BY <1>15 DEF bundle

(* gate_reward_distributor_launch: exactly the two coins the mint named,   *)
(* no key but the wallet's and the launch's, and no delegated puzzle.      *)
LEMMA DistributorGateHolds ==
  ASSUME NEW p, NEW funding \in Own("XCH"), NEW cat \in Own("DIG"), NEW fee \in Fees,
         NEW terms, Launchable(funding, cat, fee, terms), IsDistributor(p, funding, cat, fee)
  PROVE  Gates(p)
<1> DEFINE coins == {funding, cat}
           keys == {"me", "security"}
<1>1. /\ p.what = "distributor" /\ p.bundle = LaunchBundle(funding, cat, fee)
      /\ p.named = coins
  BY Zenon DEF IsDistributor, IsPlan
<1>2. Held(p.bundle, coins, keys)
  BY <1>1, DistributorHolds, Zenon
<1>3. funding.asset = "XCH" /\ cat.asset = "DIG"
  BY OwnCoins
<1>4. ASSUME NEW f \in coins, NEW c \in coins, f.asset = "XCH", c.asset = "DIG"
      PROVE  f = funding /\ c = cat
  BY <1>3, <1>4
<1>5. funding \in coins /\ cat \in coins
  OBVIOUS
<1>6. \A b : Passes(p, b) <=> DistributorLaunchGate(b, funding, cat) /\ Discharged(b)
  <2> SUFFICES ASSUME NEW b
               PROVE  Passes(p, b) <=> DistributorLaunchGate(b, funding, cat) /\ Discharged(b)
    OBVIOUS
  <2>1. Passes(p, b) <=> \E f, c \in coins : /\ f.asset = "XCH" /\ c.asset = "DIG"
                                             /\ DistributorLaunchGate(b, f, c)
                                             /\ Discharged(b)
    BY <1>1, GateOfAKind, Zenon
  <2> HIDE DEF coins
  <2> QED BY <1>3, <1>4, <1>5, <2>1, Zenon
<1>7. IsFiniteSet(coins)
  <2>1. IsFiniteSet({funding} \cup {cat}) /\ {funding} \cup {cat} = coins
    BY FS_Singleton, FS_Union
  <2> QED BY <2>1, Zenon
<1>8. \A b, f, c : DistributorLaunchGate(b, f, c)
                     <=> SignedBy(b, keys) /\ Quoted(b) /\ Roots(b) = {f, c}
  BY Zenon DEF DistributorLaunchGate
<1>9. Discharged(p.bundle)
  <2>1. \A s \in p.bundle : s.keys \subseteq keys
    BY <1>2, Zenon DEF Held, SignedBy
  <2>2. \E s \in p.bundle : "security" \in s.keys
    BY <1>2, Zenon DEF Held
  <2> QED BY <2>1, <2>2, Zenon DEF Discharged
<1>10. Passes(p, p.bundle)
  BY <1>2, <1>6, <1>8, <1>9, Zenon DEF Held
<1>11. IsSigned(p, p.bundle) /\ \A b : IsSigned(p, b)
  BY <1>1, Zenon DEF IsSigned
<1>12. ASSUME NEW b, Passes(p, b)
       PROVE  StakesNoMore(p, b)
  <2>1. SignedBy(b, keys) /\ Quoted(b) /\ Roots(b) = coins
    BY <1>6, <1>8, <1>12, Zenon
  <2> HIDE DEF coins, keys
  <2>2. Within(b, coins, keys)
    BY <1>7, <2>1, SameCoins, Zenon
  <2> QED BY <1>2, <2>1, <2>2, WithinTakesNoMore, Zenon
<1> QED BY <1>10, <1>11, <1>12, Zenon DEF Gates

(* Every plan passes its whitelist, and no bundle at all that passes it    *)
(* takes more coins of the wallet, another singleton or another key: gate, *)
(* gate_store_launch, gate_edit, gate_profile_melt and the gates of a      *)
(* reward distributor, over every bundle there is.                         *)
THEOREM NothingPassesButTheRequest ==
  ASSUME NEW p \in Gated
  PROVE  Gates(p)
<1>1. CASE \E fee \in Fees : \E c \in Funding(fee) : IsDidMint(p, fee, c)
  BY <1>1, DidMintGate, Zenon
<1>2. CASE \E fee \in Fees : \E c \in Funding(fee) : IsStoreLaunch(p, fee, c)
  BY <1>2, StoreLaunchGate, Zenon
<1>3. CASE IsEdit(p)
  BY <1>3, EditGateHolds, Zenon
<1>4. CASE IsMelt(p)
  BY <1>4, MeltGateHolds, Zenon
<1>5. CASE \E funding \in Own("XCH"), cat \in Own("DIG"), fee \in Fees, terms \in Terms :
             Launchable(funding, cat, fee, terms) /\ IsDistributor(p, funding, cat, fee)
  BY <1>5, DistributorGateHolds, Zenon
<1>6. CASE \E cat \in Own("DIG"), rewards \in Amounts, epoch \in {0, 1},
              staged \in SUBSET Own("DIG") :
             Refillable(cat, rewards, epoch, staged) /\ IsRefill(p, cat, rewards, staged)
  BY <1>6, RefillGateHolds, Zenon
<1>7. CASE \E coin \in Own("XCH"), claim \in Claims :
             Recoverable(coin, claim) /\ IsClawback(p, coin, claim)
  BY <1>7, ClawbackGateHolds, Zenon
<1> QED BY <1>1, <1>2, <1>3, <1>4, <1>5, <1>6, <1>7, GatedIs, Zenon

(* Each builder's own bundle passes the whitelist it is held against       *)
(* before it is signed, and no bundle at all that passes it takes more     *)
(* coins of the wallet, another singleton, or somebody else's key; the     *)
(* property that is checked asks it of the tampered ones alone.            *)
THEOREM NoGateTakesMore == Spec => []GatesTakeOnlyTheRequest
<1>1. ASSUME NEW p \in Gated
      PROVE  /\ Passes(p, p.bundle) /\ IsSigned(p, p.bundle)
             /\ \A b \in Tampered(p.bundle) :
                  Passes(p, b) => StakesNoMore(p, b) /\ IsSigned(p, b)
  BY NothingPassesButTheRequest, Zenon DEF Gates
<1>2. GatesHold
  BY <1>1, Zenon DEF GatesHold
<1>3. GatesTakeOnlyTheRequest
  BY <1>2, Zenon DEF GatesTakeOnlyTheRequest
<1> QED BY <1>3, PTL
=============================================================================
