------------------------------ MODULE SpendGate ------------------------------
(***************************************************************************)
(* The custody gate: PolicyAuthorizer, with its rolling auto-send ledger   *)
(* and its ledger of confirmation prompts, shared by the threads of one    *)
(* process, and the ceremony a PendingApproval goes through.               *)
(*                                                                         *)
(* One authorizer rules for one profile.  A call of authorize_op derives   *)
(* what the spend does, picks the tier's rule, and then either charges the *)
(* ledger or raises a prompt.  Each ledger has a mutex of its own, and the *)
(* clock is read BEFORE the mutex is taken, so reading and charging are    *)
(* two steps and other calls and ticks fall between them.  A call that is  *)
(* refused before it reads the clock changes nothing and is no step.       *)
(***************************************************************************)
EXTENDS Naturals, FiniteSets

CONSTANTS
  Callers,     \* threads that share the authorizer
  Spends,      \* what DerivedSpend::derive can make of the spends presented
  Classes,     \* SpendOpClass::CONFIGURABLE
  Undeclared,  \* SpendOpClass::Undeclared
  Custodies,   \* CustodyPolicy: "Hot", "Vault"
  HotLimit,    \* HotWallet.auto_send_limit
  Enabled,     \* AutoSendPolicy.enabled
  Limits,      \* AutoSendPolicy's OpClassLimits: [enabled, perTx] per class
  Period,      \* AutoSendPolicy.period_seconds
  Cap,         \* AutoSendPolicy.period_cap_mojos
  MaxPrompts,  \* AutoSendPolicy.max_confirmations_per_period
  MaxLedger,   \* MAX_LEDGER_ENTRIES
  MaxAmount,   \* u64::MAX
  MaxClock,    \* bound: the clock stops here
  MaxCalls     \* bound: calls of authorize_op in a behaviour

(* total: checked_native_total_mojos; plain: no non-native asset, melted   *)
(* singleton or NFT moves; pays: the destinations, as the vault rule tells *)
(* them apart.                                                             *)
Spend == [total : Nat, plain : BOOLEAN, pays : {"hot wallet", "somebody else"},
          class : Classes \cup {Undeclared}]

ASSUME GateAssumption ==
  /\ Spends \subseteq Spend
  /\ Undeclared \notin Classes
  /\ Custodies \subseteq {"Hot", "Vault"}
  /\ HotLimit \in Nat
  /\ Enabled \in BOOLEAN
  /\ Limits \in [Classes -> [enabled : BOOLEAN, perTx : Nat]]
  /\ Period \in Nat
  /\ Cap \in Nat
  /\ MaxPrompts \in Nat
  /\ MaxLedger \in Nat
  /\ MaxAmount \in Nat
  /\ MaxClock \in Nat
  /\ MaxCalls \in Nat

VARIABLES
  custody,    \* the CustodyPolicy of the profile the authorizer rules for
  clock,      \* what Clock::now_unix answers
  ledger,     \* PolicyAuthorizer.recent: charges still remembered
  prompts,    \* PolicyAuthorizer.prompts: ceremonies still remembered
  call,       \* the locals of each caller's authorize_op and confirm_with
  calls,      \* calls of authorize_op so far
  approvals,  \* history: every SpendApproval minted
  raised      \* history: every ceremony raised

vars == <<custody, clock, ledger, prompts, call, calls, approvals, raised>>

Stages == {"idle", "weighing", "charging", "escalating", "prompting", "pending"}

Idle == [stage |-> "idle"]

Call == [stage : Stages \ {"idle"}, id : Nat, spend : Spend, seen : Nat]

(* AutoSendRecord, with the call that made it.                             *)
Record == [id : Nat, at : Nat, mojos : Nat]

Prompt == [id : Nat, at : Nat]

(* at: the clock reading the charge was recorded with; when: the time the  *)
(* permission was minted.                                                  *)
Approval == [id : Nat, at : Nat, when : Nat, spend : Spend, by : {"policy", "human"}]

(***************************************************************************)
(* What a set of records is worth.  A record stands for as many mojos as   *)
(* it says, told apart by the record's id, and the total is their number.  *)
(***************************************************************************)
Mojos(records) == UNION {{r.id} \X (1 .. r.mojos) : r \in records}

Worth(records) == Cardinality(Mojos(records))

(***************************************************************************)
(* Rulings                                                                 *)
(***************************************************************************)
(* Mutant: the tier is decided by the amount alone.                        *)
TierByAmount(s) ==
  IF custody = "Vault" THEN "Vault"
  ELSE IF s.total <= HotLimit THEN "AutoSend"
  ELSE "Confirm"

(* SpendTier::classify, and DerivedSpend::derive's three overrides.        *)
Tier(s) ==
  IF custody = "Vault" THEN "Vault"
  ELSE IF s.total <= HotLimit /\ s.plain THEN "AutoSend"
  ELSE "Confirm"

(* A vault outflow may pay one destination, the profile's own hot wallet.  *)
Forbidden(s) == Tier(s) = "Vault" /\ s.pays # "hot wallet"

(* rule_on_auto_send up to the rolling cap.                                *)
WithinBounds(s) ==
  /\ Tier(s) = "AutoSend"
  /\ Enabled
  /\ s.class # Undeclared
  /\ Limits[s.class].enabled
  /\ s.total <= Limits[s.class].perTx

(* Mutant: a record drops out a second early.                              *)
InWindowShort(records, now) == {r \in records : r.at + Period > now + 1}

(* Mutant: a record drops out a second late.                               *)
InWindowLong(records, now) == {r \in records : r.at + Period >= now}

(* What is still in the window at a reading of the clock: a record made at *)
(* t counts until t + Period - 1 and is gone at t + Period.                *)
InWindow(records, now) == {r \in records : r.at + Period > now}

(***************************************************************************)
(* Actions                                                                 *)
(***************************************************************************)
(* authorize_op: derive, dispatch on the tier.  A zero period is refused   *)
(* on both paths.                                                          *)
Authorize(t, s) ==
  /\ call[t].stage = "idle"
  /\ calls < MaxCalls
  /\ ~Forbidden(s)
  /\ Period > 0
  /\ call' = [call EXCEPT ![t] =
                [stage |-> IF WithinBounds(s) THEN "weighing" ELSE "escalating",
                 id |-> calls, spend |-> s, seen |-> 0]]
  /\ calls' = calls + 1
  /\ UNCHANGED <<custody, clock, ledger, prompts, approvals, raised>>

(* Mutant: the start of the window is remembered instead of its end.       *)
ReadWindowStart(t) ==
  /\ call[t].stage \in {"weighing", "escalating"}
  /\ call' = [call EXCEPT
                ![t].stage = IF @ = "weighing" THEN "charging" ELSE "prompting",
                ![t].seen = clock - Period]
  /\ UNCHANGED <<custody, clock, ledger, prompts, calls, approvals, raised>>

(* Both ledgers read the clock before they take their lock.                *)
ReadClock(t) ==
  /\ call[t].stage \in {"weighing", "escalating"}
  /\ LET ledgerOf == IF call[t].stage = "weighing" THEN "charging" ELSE "prompting"
     IN  call' = [call EXCEPT ![t] = [@ EXCEPT !.stage = ledgerOf, !.seen = clock]]
  /\ UNCHANGED <<custody, clock, ledger, prompts, calls, approvals, raised>>

Return(t) == call' = [call EXCEPT ![t] = Idle]

(* The clock cannot be read: an error, and nothing has been recorded.      *)
ClockFails(t) ==
  /\ call[t].stage \in {"weighing", "escalating"}
  /\ Return(t)
  /\ UNCHANGED <<custody, clock, ledger, prompts, calls, approvals, raised>>

Kept(t) == InWindow(ledger, call[t].seen)

Projected(t) == Worth(Kept(t)) + call[t].spend.total

(* A zero-value approval is not worth remembering.                         *)
Charges(t) ==
  {r \in {[id |-> call[t].id, at |-> call[t].seen, mojos |-> call[t].spend.total]} :
     r.mojos > 0}

Approve(t, by) ==
  approvals' = approvals \cup
    {[id |-> call[t].id, at |-> call[t].seen, when |-> clock,
      spend |-> call[t].spend, by |-> by]}

(* charge_the_rolling_period_cap under its lock: the window fits, the      *)
(* charge is recorded and the approval minted.                             *)
Charge(t) ==
  /\ call[t].stage = "charging"
  /\ Projected(t) <= MaxAmount
  /\ Projected(t) <= Cap
  /\ Cardinality(Kept(t)) < MaxLedger
  /\ ledger' = Kept(t) \cup Charges(t)
  /\ Approve(t, "policy")
  /\ Return(t)
  /\ UNCHANGED <<custody, clock, prompts, calls, raised>>

(* Mutant: a spend that is over the cap is charged all the same.           *)
OverCapCharges(t) ==
  /\ call[t].stage = "charging"
  /\ Projected(t) <= MaxAmount
  /\ Projected(t) > Cap
  /\ ledger' = Kept(t) \cup Charges(t)
  /\ call' = [call EXCEPT ![t] = [@ EXCEPT !.stage = "escalating"]]
  /\ UNCHANGED <<custody, clock, prompts, calls, approvals, raised>>

(* Over the cap: the spend goes to the human, and nothing is charged.      *)
OverCap(t) ==
  /\ call[t].stage = "charging"
  /\ Projected(t) <= MaxAmount
  /\ Projected(t) > Cap
  /\ ledger' = Kept(t)
  /\ call' = [call EXCEPT ![t] = [@ EXCEPT !.stage = "escalating"]]
  /\ UNCHANGED <<custody, clock, prompts, calls, approvals, raised>>

(* The total does not fit in a u64, or the ledger is full.                 *)
Indeterminate(t) ==
  /\ call[t].stage = "charging"
  /\ \/ Projected(t) > MaxAmount
     \/ Projected(t) <= Cap /\ Cardinality(Kept(t)) >= MaxLedger
  /\ ledger' = Kept(t)
  /\ Return(t)
  /\ UNCHANGED <<custody, clock, prompts, calls, approvals, raised>>

KeptPrompts(t) == InWindow(prompts, call[t].seen)

(* Mutant: one ceremony too many.                                          *)
RaisePromptOver(t) ==
  /\ call[t].stage = "prompting"
  /\ Cardinality(KeptPrompts(t)) <= MaxPrompts
  /\ prompts' = KeptPrompts(t) \cup {[id |-> call[t].id, at |-> call[t].seen]}
  /\ raised' = raised \cup {[id |-> call[t].id, at |-> call[t].seen]}
  /\ call' = [call EXCEPT ![t] = [@ EXCEPT !.stage = "pending"]]
  /\ UNCHANGED <<custody, clock, ledger, calls, approvals>>

(* charge_a_confirmation_prompt under its lock: the ceremony is raised.    *)
RaisePrompt(t) ==
  /\ call[t].stage = "prompting"
  /\ Cardinality(KeptPrompts(t)) < MaxPrompts
  /\ prompts' = KeptPrompts(t) \cup {[id |-> call[t].id, at |-> call[t].seen]}
  /\ raised' = raised \cup {[id |-> call[t].id, at |-> call[t].seen]}
  /\ call' = [call EXCEPT ![t] = [@ EXCEPT !.stage = "pending"]]
  /\ UNCHANGED <<custody, clock, ledger, calls, approvals>>

(* The ceiling is reached: the spend is refused.                           *)
TooManyPrompts(t) ==
  /\ call[t].stage = "prompting"
  /\ Cardinality(KeptPrompts(t)) >= MaxPrompts
  /\ prompts' = KeptPrompts(t)
  /\ Return(t)
  /\ UNCHANGED <<custody, clock, ledger, calls, approvals, raised>>

(* PendingApproval::confirm_with: the user approves.                       *)
Confirm(t) ==
  /\ call[t].stage = "pending"
  /\ Approve(t, "human")
  /\ Return(t)
  /\ UNCHANGED <<custody, clock, ledger, prompts, calls, raised>>

(* The user declines, or the provider fails: the permission is gone.       *)
Decline(t) ==
  /\ call[t].stage = "pending"
  /\ Return(t)
  /\ UNCHANGED <<custody, clock, ledger, prompts, calls, approvals, raised>>

Tick ==
  /\ clock < MaxClock
  /\ clock' = clock + 1
  /\ UNCHANGED <<custody, ledger, prompts, call, calls, approvals, raised>>

Init ==
  /\ custody \in Custodies
  /\ clock = 0
  /\ ledger = {}
  /\ prompts = {}
  /\ call = [t \in Callers |-> Idle]
  /\ calls = 0
  /\ approvals = {}
  /\ raised = {}

Step(t) ==
  \/ \E s \in Spends : Authorize(t, s)
  \/ ReadClock(t) \/ ClockFails(t) \/ Charge(t) \/ OverCap(t) \/ Indeterminate(t)
  \/ RaisePrompt(t) \/ TooManyPrompts(t) \/ Confirm(t) \/ Decline(t)

Next == Tick \/ \E t \in Callers : Step(t)

Spec == Init /\ [][Next]_vars

(***************************************************************************)
(* Properties                                                              *)
(***************************************************************************)
TypeOK ==
  /\ custody \in {"Hot", "Vault"}
  /\ clock \in Nat
  /\ ledger \subseteq Record
  /\ prompts \subseteq Prompt
  /\ call \in [Callers -> Call \cup {Idle}]
  /\ calls \in Nat
  /\ approvals \subseteq Approval
  /\ raised \subseteq Prompt

Unattended == {a \in approvals : a.by = "policy"}

Recorded(a) == [id |-> a.id, at |-> a.at, mojos |-> a.spend.total]

(* The records of the Period seconds that end at a time.                   *)
LastPeriod(records, time) == {r \in records : time < r.at + Period}

(* The rolling cap: what the gate approved unattended with readings of the *)
(* last Period seconds totals at most the cap, whatever sweeps and charges *)
(* of other threads, with older or newer readings, came between.           *)
RollingCap == Worth(LastPeriod({Recorded(a) : a \in Unattended}, clock)) <= Cap

(* The ceiling on the demands on the user's attention, in the same sense.  *)
PromptCeiling == Cardinality(LastPeriod(raised, clock)) <= MaxPrompts

(* Only an Approved ruling is charged: the ledger never holds a spend that *)
(* was escalated, declined, refused or confirmed by hand.                  *)
OnlyApprovalsAreCharged == ledger \subseteq {Recorded(a) : a \in Unattended}

(* A spend goes to the human for the cap's sake only if the spends of the  *)
(* window really leave no room for it: a record made at t has expired at   *)
(* t + Period.                                                             *)
OverCapIsTrue ==
  [][\A t \in Callers :
       call[t].stage = "charging" /\ call'[t].stage = "escalating" =>
         Worth(LastPeriod({Recorded(a) : a \in Unattended}, call[t].seen))
           + call[t].spend.total > Cap]_vars

(* A permission nobody confirmed is within every bound the user set, and   *)
(* nobody, confirmed or not, takes vault funds anywhere but to the hot     *)
(* wallet.                                                                 *)
PermissionsAreEarned ==
  \A a \in approvals :
    /\ a.by = "policy" => /\ custody = "Hot" /\ Enabled
                          /\ a.spend.plain
                          /\ a.spend.total <= HotLimit
                          /\ a.spend.class \in Classes
                          /\ Limits[a.spend.class].enabled
                          /\ a.spend.total <= Limits[a.spend.class].perTx
    /\ a.by = "human" => \E p \in raised : p.id = a.id
    /\ custody = "Vault" => a.spend.pays = "hot wallet"
=============================================================================
