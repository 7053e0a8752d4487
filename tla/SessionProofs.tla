---------------------------- MODULE SessionProofs ----------------------------
(***************************************************************************)
(* Proofs about Session, for every set of attempts, window and clock.  The *)
(* factors are argued first, since no step of the session changes them but *)
(* as SecondFactor says: what a guard has let through lies at or below it, *)
(* so what it lets through next is new.  Then the gate: every other unlock *)
(* it ever made is revoked, and no step makes a revoked token live.  Last  *)
(* the rules of custody, which say what a live signer may sign, for every  *)
(* profile, window, clock and memo.                                        *)
(***************************************************************************)
EXTENDS CustodyReference, TLAPS

FactorNext == (\E a \in Attempts : Authorize(a) \/ OpenSeed(a)) \/ Surroundings

(***************************************************************************)
(* The inductive invariant                                                 *)
(***************************************************************************)
SpentCode(a) == attempt[a].code # None /\ attempt[a].at # "guard"

CodesAreGuarded ==
  /\ \A a \in Attempts : attempt[a].at = "new" => attempt[a].code = None
  /\ \A a \in Attempts : attempt[a].at = "guard" => attempt[a].code # None
  /\ \A a \in Attempts : SpentCode(a) => last # None /\ attempt[a].code <= last

SpentChallenge(a) == attempt[a].challenge # None /\ attempt[a].at # "challenge"

ChallengesAreIssued ==
  /\ \A a \in Attempts :
       attempt[a].at \in {"new", "guard", "passkey"} => attempt[a].challenge = None
  /\ \A a \in Attempts : attempt[a].at = "challenge" => attempt[a].challenge # None
  /\ \A a \in Attempts : attempt[a].challenge # None => attempt[a].challenge <= issued
  /\ slot # None => slot.id = issued
  /\ \A a \in Attempts : slot # None /\ SpentChallenge(a) => attempt[a].challenge # slot.id

Passed(a) == attempt[a].at \in {"password", "open"}

CountsAreStored == \A a \in Attempts : Passed(a) => attempt[a].count <= stored

FactorInv ==
  /\ FactorTypeOK
  /\ CodesAreGuarded /\ CodeIsSpentOnce
  /\ ChallengesAreIssued /\ ChallengeIsSpentOnce
  /\ CountsAreStored /\ CountIsSpentOnce

(* Of the tokens the gate gave out only the one it holds is not revoked.   *)
OthersAreRevoked == \A a \in GateAttempts : token[a].live => held = a

SessionTypeOK ==
  /\ now \in 0 .. MaxNow
  /\ held \in GateAttempts \cup {None}
  /\ token \in [Attempts -> [live : BOOLEAN, deadline : 0 .. MaxNow + Idle]]
  /\ touch \in {"none", "checking", "refreshing"}

IInv == FactorInv /\ SessionTypeOK /\ OthersAreRevoked

(***************************************************************************)
(* The factors                                                             *)
(***************************************************************************)
(* Every step of the session is a step of the factors or leaves them.      *)
LEMMA StepsTheFactors == Next => [FactorNext]_factors
BY DEF Next, FactorNext, AttemptRuns, Unlock, UnlockBeside, LockHandle, Access, AccessLapsed,
       TouchCheck, Refresh, Lock, Tick

(* The factors' part of the types is kept by the factors' steps.           *)
LEMMA FactorTypes == ASSUME FactorTypeOK, [FactorNext]_factors PROVE FactorTypeOK'
<1> USE FactorAssumption
<1>1. ASSUME NEW a \in Attempts, NEW code \in Codes, MatchCode(a, code) PROVE FactorTypeOK'
  <2> DEFINE r == [attempt[a] EXCEPT !.at = "guard", !.code = code]
  <2>1. attempt[a] \in Attempt
    BY DEF FactorTypeOK
  <2>2. r \in Attempt
    BY <2>1 DEF Attempt
  <2>3. attempt' = [attempt EXCEPT ![a] = r]
    BY <1>1 DEF MatchCode
  <2> HIDE DEF r
  <2> QED BY <1>1, <2>2, <2>3 DEF FactorTypeOK, MatchCode
<1>2. ASSUME NEW a \in Attempts, SpendCode(a) \/ RefuseReplay(a) PROVE FactorTypeOK'
  BY <1>2 DEF FactorTypeOK, SpendCode, RefuseReplay, Goes, Attempt
<1>3. ASSUME NEW a \in Attempts, NEW ch \in Challenges, NEW n \in 0 .. MaxCount, Verify(a, ch, n)
      PROVE  FactorTypeOK'
  <2> DEFINE r == [attempt[a] EXCEPT !.at = "challenge", !.challenge = ch, !.count = n, !.read = wall]
  <2>1. attempt[a] \in Attempt /\ wall \in 0 .. MaxWall
    BY DEF FactorTypeOK
  <2>2. r \in Attempt
    BY <2>1 DEF Attempt
  <2>3. attempt' = [attempt EXCEPT ![a] = r]
    BY <1>3 DEF Verify
  <2> QED BY <1>3, <2>2, <2>3 DEF FactorTypeOK, Verify
<1>4. ASSUME NEW a \in Attempts, SpendChallenge(a) \/ RefuseChallenge(a) PROVE FactorTypeOK'
  BY <1>4 DEF FactorTypeOK, SpendChallenge, RefuseChallenge, Attempt
<1>5. ASSUME NEW a \in Attempts, SpendCount(a) \/ RefuseClone(a) PROVE FactorTypeOK'
  BY <1>5 DEF FactorTypeOK, SpendCount, RefuseClone, Goes, Attempt
<1>6. ASSUME NEW a \in Attempts, Deny(a) \/ OpenSeed(a) PROVE FactorTypeOK'
  BY <1>6 DEF FactorTypeOK, Deny, OpenSeed, Goes, Attempt
<1>7. CASE Issue
  BY <1>7 DEF FactorTypeOK, Issue, Challenges
<1>8. ASSUME NEW t \in 0 .. MaxWall, SetWall(t) PROVE FactorTypeOK'
  BY <1>8 DEF FactorTypeOK, SetWall
<1>9. CASE UNCHANGED factors
  BY <1>9 DEF FactorTypeOK, factors
<1> QED BY <1>1, <1>2, <1>3, <1>4, <1>5, <1>6, <1>7, <1>8, <1>9 DEF FactorNext, Authorize, Surroundings

(* What the guard lets through is above everything it let through before.  *)
LEMMA CodeStep ==
  ASSUME FactorTypeOK, CodesAreGuarded, CodeIsSpentOnce, [FactorNext]_factors
  PROVE  CodesAreGuarded' /\ CodeIsSpentOnce'
<1> USE FactorAssumption DEF FactorTypeOK, Attempt, Codes, CodesAreGuarded, CodeIsSpentOnce, SpentCode
<1>1. ASSUME NEW a \in Attempts, NEW code \in Codes, MatchCode(a, code)
      PROVE  CodesAreGuarded' /\ CodeIsSpentOnce'
  BY <1>1 DEF MatchCode
<1>2. ASSUME NEW a \in Attempts, SpendCode(a) PROVE CodesAreGuarded' /\ CodeIsSpentOnce'
  <2>1. /\ attempt[a].at = "guard" /\ attempt[a].code \in Nat /\ last' = attempt[a].code
        /\ last = None \/ (last \in Nat /\ last < attempt[a].code)
        /\ attempt' = [attempt EXCEPT ![a].at = "passkey"]
    BY <1>2 DEF SpendCode, Replayed, Goes
  <2>2. \A b \in Attempts : b # a => attempt'[b] = attempt[b]
    BY <2>1
  <2>3. attempt'[a].at = "passkey" /\ attempt'[a].code = attempt[a].code
    BY <2>1
  <2>4. \A b \in Attempts : SpentCode(b) => attempt[b].code \in Nat /\ attempt[b].code < attempt[a].code
    BY <2>1
  <2> QED BY <2>1, <2>2, <2>3, <2>4
<1>3. ASSUME NEW a \in Attempts, RefuseReplay(a) PROVE CodesAreGuarded' /\ CodeIsSpentOnce'
  BY <1>3 DEF RefuseReplay
<1>4. ASSUME NEW a \in Attempts, NEW ch \in Challenges, NEW n \in 0 .. MaxCount, Verify(a, ch, n)
      PROVE  CodesAreGuarded' /\ CodeIsSpentOnce'
  BY <1>4 DEF Verify
<1>5. ASSUME NEW a \in Attempts,
             \/ SpendChallenge(a) \/ RefuseChallenge(a) \/ SpendCount(a) \/ RefuseClone(a)
             \/ Deny(a) \/ OpenSeed(a)
      PROVE  CodesAreGuarded' /\ CodeIsSpentOnce'
  <2>1. /\ attempt[a].at \notin {"guard"} /\ last' = last
        /\ \A b \in Attempts : attempt'[b].code = attempt[b].code
        /\ \A b \in Attempts : b # a => attempt'[b].at = attempt[b].at
        /\ attempt'[a].at \notin {"new", "guard"}
    BY <1>5 DEF SpendChallenge, RefuseChallenge, SpendCount, RefuseClone, Deny, OpenSeed, Goes
  <2> QED BY <2>1
<1>6. CASE Surroundings \/ UNCHANGED factors
  BY <1>6 DEF Surroundings, Issue, SetWall, factors
<1> QED BY <1>1, <1>2, <1>3, <1>4, <1>5, <1>6 DEF FactorNext, Authorize

(* A challenge that was let through is no longer outstanding, and the next *)
(* to be issued is new.                                                    *)
LEMMA ChallengeStep ==
  ASSUME FactorTypeOK, ChallengesAreIssued, ChallengeIsSpentOnce, [FactorNext]_factors
  PROVE  ChallengesAreIssued' /\ ChallengeIsSpentOnce'
<1> USE FactorAssumption
    DEF FactorTypeOK, Attempt, Challenges, ChallengesAreIssued, ChallengeIsSpentOnce, SpentChallenge
<1>1. ASSUME NEW a \in Attempts, NEW code \in Codes, MatchCode(a, code)
      PROVE  ChallengesAreIssued' /\ ChallengeIsSpentOnce'
  BY <1>1 DEF MatchCode
<1>2. ASSUME NEW a \in Attempts,
             SpendCode(a) \/ RefuseReplay(a) \/ SpendCount(a) \/ RefuseClone(a) \/ Deny(a) \/ OpenSeed(a)
      PROVE  ChallengesAreIssued' /\ ChallengeIsSpentOnce'
  <2>1. /\ attempt[a].at # "challenge" /\ issued' = issued /\ slot' = slot
        /\ \A b \in Attempts : attempt'[b].challenge = attempt[b].challenge
        /\ \A b \in Attempts : b # a => attempt'[b].at = attempt[b].at
        /\ attempt'[a].at # "challenge"
        /\ attempt'[a].at \in {"new", "guard", "passkey"} => attempt[a].challenge = None
    BY <1>2 DEF SpendCode, RefuseReplay, SpendCount, RefuseClone, Deny, OpenSeed, Goes
  <2> QED BY <2>1
<1>3. ASSUME NEW a \in Attempts, NEW ch \in Challenges, NEW n \in 0 .. MaxCount, Verify(a, ch, n)
      PROVE  ChallengesAreIssued' /\ ChallengeIsSpentOnce'
  <2>1. /\ issued' = issued /\ slot' = slot /\ ch <= issued /\ ch # None
        /\ \A b \in Attempts : b # a => attempt'[b] = attempt[b]
        /\ attempt'[a].at = "challenge" /\ attempt'[a].challenge = ch
    BY <1>3 DEF Verify
  <2> QED BY <2>1
<1>4. ASSUME NEW a \in Attempts, SpendChallenge(a) PROVE ChallengesAreIssued' /\ ChallengeIsSpentOnce'
  <2>1. /\ issued' = issued /\ slot' = None /\ slot # None
        /\ attempt[a].at = "challenge" /\ slot.id = attempt[a].challenge
        /\ \A b \in Attempts : b # a => attempt'[b] = attempt[b]
        /\ attempt'[a].at = "count" /\ attempt'[a].challenge = attempt[a].challenge
    BY <1>4 DEF SpendChallenge, Outstanding
  <2> QED BY <2>1
<1>5. ASSUME NEW a \in Attempts, RefuseChallenge(a) PROVE ChallengesAreIssued' /\ ChallengeIsSpentOnce'
  <2>1. /\ issued' = issued /\ slot' = slot
        /\ \A b \in Attempts : b # a => attempt'[b] = attempt[b]
        /\ attempt'[a].at = "refused" /\ attempt'[a].challenge = None
    BY <1>5 DEF RefuseChallenge
  <2> QED BY <2>1
<1>6. CASE Issue
  <2>1. /\ slot' # None => slot'.id = issued'
        /\ issued' = issued + 1 /\ attempt' = attempt
    BY <1>6 DEF Issue
  <2>2. \A a \in Attempts : attempt[a].challenge # None => attempt[a].challenge < issued'
    BY <2>1
  <2> QED BY <2>1, <2>2
<1>7. CASE UNCHANGED factors \/ \E t \in 0 .. MaxWall : SetWall(t)
  BY <1>7 DEF SetWall, factors
<1> QED BY <1>1, <1>2, <1>3, <1>4, <1>5, <1>6, <1>7 DEF FactorNext, Authorize, Surroundings

(* A counter that passes is above every counter that passed before it.     *)
LEMMA CountStep ==
  ASSUME FactorTypeOK, CountsAreStored, CountIsSpentOnce, [FactorNext]_factors
  PROVE  CountsAreStored' /\ CountIsSpentOnce'
<1> USE FactorAssumption DEF FactorTypeOK, Attempt, CountsAreStored, CountIsSpentOnce, Passed
<1>1. ASSUME NEW a \in Attempts, SpendCount(a) PROVE CountsAreStored' /\ CountIsSpentOnce'
  <2>1. /\ \A b \in Attempts : b # a => attempt'[b] = attempt[b]
        /\ attempt'[a].at = "password" /\ attempt'[a].count = attempt[a].count
        /\ stored' = attempt[a].count
        /\ attempt[a].count \in Nat /\ stored \in Nat
        /\ (attempt[a].count = 0 /\ stored = 0) \/ attempt[a].count > stored
    BY <1>1 DEF SpendCount, Advances, Goes
  <2>2. \A b \in Attempts : Passed(b) => attempt[b].count \in Nat /\ attempt[b].count <= stored
    OBVIOUS
  <2> QED BY <2>1, <2>2
<1>2. ASSUME NEW a \in Attempts, OpenSeed(a) PROVE CountsAreStored' /\ CountIsSpentOnce'
  <2>1. /\ \A b \in Attempts : b # a => attempt'[b] = attempt[b]
        /\ Passed(a) /\ attempt'[a].count = attempt[a].count
        /\ stored' = stored
    BY <1>2 DEF OpenSeed, Goes
  <2> QED BY <2>1
<1>3. ASSUME NEW a \in Attempts,
             \/ \E code \in Codes : MatchCode(a, code)
             \/ SpendCode(a) \/ RefuseReplay(a) \/ SpendChallenge(a) \/ RefuseChallenge(a)
             \/ RefuseClone(a) \/ Deny(a)
      PROVE  CountsAreStored' /\ CountIsSpentOnce'
  <2>1. /\ \A b \in Attempts : b # a => attempt'[b] = attempt[b]
        /\ attempt'[a].at \notin {"password", "open"} /\ stored' = stored
    BY <1>3 DEF MatchCode, SpendCode, RefuseReplay, SpendChallenge, RefuseChallenge,
                RefuseClone, Deny, Goes
  <2> QED BY <2>1
<1>4. ASSUME NEW a \in Attempts, NEW ch \in Challenges, NEW n \in 0 .. MaxCount, Verify(a, ch, n)
      PROVE  CountsAreStored' /\ CountIsSpentOnce'
  <2>1. /\ \A b \in Attempts : b # a => attempt'[b] = attempt[b]
        /\ attempt'[a].at = "challenge" /\ stored' = stored
    BY <1>4 DEF Verify
  <2> QED BY <2>1
<1>5. CASE Surroundings \/ UNCHANGED factors
  BY <1>5 DEF Surroundings, Issue, SetWall, factors
<1> QED BY <1>1, <1>2, <1>3, <1>4, <1>5 DEF FactorNext, Authorize

(***************************************************************************)
(* The gate                                                                *)
(***************************************************************************)
Token == [live : BOOLEAN, deadline : 0 .. MaxNow + Idle]

(* The tokens after a revocation are tokens.                               *)
LEMMA RevokedType == ASSUME SessionTypeOK PROVE Revoked \in [Attempts -> Token]
<1>1. token \in [Attempts -> Token] /\ held \in GateAttempts \cup {None}
  BY DEF SessionTypeOK, Token
<1>2. CASE held = None
  BY <1>1, <1>2 DEF Revoked
<1>3. CASE held # None
  <2>1. held \in Attempts
    BY <1>1, <1>3, SessionAssumption
  <2>2. [token[held] EXCEPT !.live = FALSE] \in Token
    BY <1>1, <2>1 DEF Token
  <2>3. Revoked = [token EXCEPT ![held] = [token[held] EXCEPT !.live = FALSE]]
    BY <1>3 DEF Revoked
  <2> QED BY <1>1, <2>1, <2>2, <2>3
<1> QED BY <1>2, <1>3

(* The session's part of the types is kept by every step.                  *)
LEMMA SessionTypes == ASSUME SessionTypeOK, Next \/ UNCHANGED vars PROVE SessionTypeOK'
<1>1. token \in [Attempts -> Token] /\ now \in 0 .. MaxNow /\ held \in GateAttempts \cup {None}
  BY DEF SessionTypeOK, Token
<1>2. ASSUME NEW a \in Attempts, AttemptRuns(a) PROVE SessionTypeOK'
  BY <1>2 DEF AttemptRuns, session, SessionTypeOK
<1>3. ASSUME NEW a \in Attempts, Unlock(a) PROVE SessionTypeOK'
  <2>1. [live |-> TRUE, deadline |-> now + Idle] \in Token
    BY <1>1, SessionAssumption DEF Token
  <2>2. token' \in [Attempts -> Token]
    BY <1>3, <2>1, RevokedType DEF Unlock
  <2> QED BY <1>1, <1>3, <2>2 DEF Unlock, SessionTypeOK, Token
<1>4. ASSUME NEW a \in Attempts, NEW b \in BOOLEAN, token' = [token EXCEPT ![a].live = b]
      PROVE  token' \in [Attempts -> Token]
  <2>1. [token[a] EXCEPT !.live = b] \in Token
    BY <1>1 DEF Token
  <2>2. token' = [token EXCEPT ![a] = [token[a] EXCEPT !.live = b]]
    BY <1>4
  <2> QED BY <1>1, <2>1, <2>2
<1>5. ASSUME NEW a \in Attempts, UnlockBeside(a) \/ LockHandle(a) PROVE SessionTypeOK'
  <2>1. token' \in [Attempts -> Token]
    BY <1>4, <1>5 DEF UnlockBeside, LockHandle
  <2> QED BY <1>1, <1>5, <2>1 DEF UnlockBeside, LockHandle, SessionTypeOK, Token
<1>6. CASE Access \/ TouchCheck
  BY <1>6 DEF Access, TouchCheck, SessionTypeOK
<1>7. CASE AccessLapsed \/ Lock
  BY <1>1, <1>7, RevokedType DEF AccessLapsed, Lock, SessionTypeOK, Token
<1>8. CASE Refresh
  <2>1. now + Idle \in 0 .. MaxNow + Idle
    BY <1>1, SessionAssumption
  <2>2. CASE held = None
    <3>1. token' = token
      BY <1>1, <1>8, <2>2, SessionAssumption DEF Refresh
    <3> QED BY <1>1, <1>8, <3>1 DEF Refresh, SessionTypeOK, Token
  <2>3. CASE held \in Attempts
    <3>1. [token[held] EXCEPT !.deadline = now + Idle] \in Token
      BY <1>1, <2>1, <2>3 DEF Token
    <3>2. token' = [token EXCEPT ![held] = [token[held] EXCEPT !.deadline = now + Idle]]
      BY <1>8 DEF Refresh
    <3>3. token' \in [Attempts -> Token]
      BY <1>1, <2>3, <3>1, <3>2
    <3> QED BY <1>1, <1>8, <3>3 DEF Refresh, SessionTypeOK, Token
  <2> QED BY <1>1, <2>2, <2>3, SessionAssumption
<1>9. CASE (Surroundings /\ UNCHANGED session) \/ UNCHANGED vars \/ Tick
  BY <1>1, <1>9, SessionAssumption DEF session, vars, Tick, SessionTypeOK
<1> QED BY <1>2, <1>3, <1>5, <1>6, <1>7, <1>8, <1>9 DEF Next

(* Whatever takes the place of the unlock the gate holds revokes it.       *)
LEMMA GateStep ==
  ASSUME SessionTypeOK, OthersAreRevoked, Next \/ UNCHANGED vars
  PROVE  OthersAreRevoked'
<1> USE SessionAssumption DEF SessionTypeOK, OthersAreRevoked
<1>1. ASSUME NEW a \in Attempts, AttemptRuns(a) PROVE OthersAreRevoked'
  BY <1>1 DEF AttemptRuns, session
<1>2. ASSUME NEW a \in Attempts, Unlock(a) PROVE OthersAreRevoked'
  BY <1>2 DEF Unlock, Revoked
<1>3. ASSUME NEW a \in Attempts, UnlockBeside(a) \/ LockHandle(a) PROVE OthersAreRevoked'
  BY <1>3 DEF UnlockBeside, LockHandle
<1>4. CASE Access \/ TouchCheck \/ Tick
  BY <1>4 DEF Access, TouchCheck, Tick
<1>5. CASE AccessLapsed \/ Lock
  BY <1>5 DEF AccessLapsed, Lock, Revoked
<1>6. CASE Refresh
  BY <1>6 DEF Refresh
<1>7. CASE (Surroundings /\ UNCHANGED session) \/ UNCHANGED vars
  BY <1>7 DEF session, vars
<1> QED BY <1>1, <1>2, <1>3, <1>4, <1>5, <1>6, <1>7 DEF Next

(* The invariant holds of a new session.                                   *)
LEMMA InvInit == Init => IInv
<1> SUFFICES ASSUME Init PROVE IInv
  OBVIOUS
<1> USE FactorAssumption, SessionAssumption DEF Init, FactorInit, New
<1>1. FactorTypeOK
  BY DEF FactorTypeOK, Attempt
<1>2. CodesAreGuarded /\ CodeIsSpentOnce
  BY DEF CodesAreGuarded, CodeIsSpentOnce, SpentCode
<1>3. ChallengesAreIssued /\ ChallengeIsSpentOnce
  BY DEF ChallengesAreIssued, ChallengeIsSpentOnce, SpentChallenge
<1>4. CountsAreStored /\ CountIsSpentOnce
  BY DEF CountsAreStored, CountIsSpentOnce, Passed
<1>5. SessionTypeOK /\ OthersAreRevoked
  BY DEF SessionTypeOK, OthersAreRevoked
<1> QED BY <1>1, <1>2, <1>3, <1>4, <1>5 DEF IInv, FactorInv

(* The invariant is kept by every step.                                    *)
LEMMA InvStep == IInv /\ [Next]_vars => IInv'
<1> SUFFICES ASSUME IInv, [Next]_vars PROVE IInv'
  OBVIOUS
<1>1. [FactorNext]_factors
  BY StepsTheFactors DEF vars
<1>2. FactorTypeOK'
  BY <1>1, FactorTypes DEF IInv, FactorInv
<1>3. CodesAreGuarded' /\ CodeIsSpentOnce'
  BY <1>1, CodeStep DEF IInv, FactorInv
<1>4. ChallengesAreIssued' /\ ChallengeIsSpentOnce'
  BY <1>1, ChallengeStep DEF IInv, FactorInv
<1>5. CountsAreStored' /\ CountIsSpentOnce'
  BY <1>1, CountStep DEF IInv, FactorInv
<1>6. SessionTypeOK' /\ OthersAreRevoked'
  BY SessionTypes, GateStep DEF IInv
<1> QED BY <1>2, <1>3, <1>4, <1>5, <1>6 DEF IInv, FactorInv

(* The inductive invariant of attempts, factors and the gate's unlocks.    *)
THEOREM Invariance == Spec => []IInv
BY InvInit, InvStep, PTL DEF Spec

(* Every reachable state has the declared types.                           *)
THEOREM TypeCorrect == Spec => []TypeOK
<1>1. IInv => TypeOK
  BY DEF IInv, FactorInv, SessionTypeOK, TypeOK
<1> QED BY <1>1, Invariance, PTL

(* However attempts interleave and the clock is set, a TOTP code, a        *)
(* passkey challenge and a signature counter each let one attempt through. *)
THEOREM SingleUse == Spec => []NothingPassesTwice
<1>1. IInv => NothingPassesTwice
  BY DEF IInv, FactorInv, NothingPassesTwice
<1> QED BY <1>1, Invariance, PTL

(* After a lock, a lapse or a superseding unlock no capability of an       *)
(* earlier unlock of the gate is live.                                     *)
THEOREM NoCapabilityOutlivesItsUnlock == Spec => []OnlyTheHeldUnlockIsLive
<1>1. IInv => OnlyTheHeldUnlockIsLive
  BY DEF IInv, OthersAreRevoked, OnlyTheHeldUnlockIsLive, IsLive
<1> QED BY <1>1, Invariance, PTL

(* A superseded challenge is never the one that is spent.                  *)
THEOREM OnlyTheNewestIsAnswered == Spec => NewestChallengeOnly
<1> DEFINE Newest ==
      \A a \in Attempts :
        attempt[a].at = "challenge" /\ attempt'[a].at = "count" => attempt[a].challenge = issued
<1>1. IInv /\ [Next]_vars => [Newest]_factors
  <2> SUFFICES ASSUME IInv, FactorNext, NEW a \in Attempts,
                      attempt[a].at = "challenge", attempt'[a].at = "count"
               PROVE  attempt[a].challenge = issued
    BY StepsTheFactors DEF vars
  <2> USE DEF IInv, FactorInv, FactorTypeOK
  <2>1. ASSUME NEW b \in Attempts, Authorize(b) \/ OpenSeed(b) PROVE SpendChallenge(a)
    <3>1. b = a
      <4>1. CASE \E ch \in Challenges, n \in 0 .. MaxCount : Verify(b, ch, n)
        BY <4>1 DEF Verify
      <4>2. CASE ~(\E ch \in Challenges, n \in 0 .. MaxCount : Verify(b, ch, n))
        BY <2>1, <4>2 DEF Authorize, OpenSeed, MatchCode, SpendCode, RefuseReplay, SpendChallenge,
                          RefuseChallenge, SpendCount, RefuseClone, Deny, Goes
      <4> QED BY <4>1, <4>2
    <3>2. ~(\E ch \in Challenges, n \in 0 .. MaxCount : Verify(a, ch, n))
      BY DEF Verify
    <3>3. SpendChallenge(a) \/ RefuseChallenge(a)
      BY <2>1, <3>1, <3>2 DEF Authorize, OpenSeed, MatchCode, SpendCode, RefuseReplay, SpendCount,
                              RefuseClone, Deny
    <3>4. ~RefuseChallenge(a)
      <4>1. RefuseChallenge(a) => attempt'[a].at = "refused"
        BY FactorAssumption DEF RefuseChallenge, Attempt
      <4> QED BY <4>1
    <3> QED BY <3>3, <3>4
  <2>2. CASE Surroundings
    BY <2>2 DEF Surroundings, Issue, SetWall
  <2> QED BY <2>1, <2>2 DEF FactorNext, SpendChallenge, Outstanding, ChallengesAreIssued
<1> QED BY <1>1, Invariance, PTL DEF Spec, NewestChallengeOnly

(* Nothing undoes a relock but an access() that found the unlock live, and *)
(* a revoked unlock is never live again.                                   *)
THEOREM LapsesAreFinal == Spec => LapseIsUndoneOnlyMidTouch
<1> DEFINE Final ==
      /\ \A a \in Attempts :
           attempt[a].at = "open" /\ ~IsLive(a) /\ IsLive(a)'
             => touch = "refreshing" /\ held = a /\ token[a].live
      /\ touch # "refreshing" /\ touch' = "refreshing" => IsLive(held)
<1>1. IInv /\ [Next]_vars => [Final]_vars
  <2> SUFFICES ASSUME IInv, Next PROVE Final
    OBVIOUS
  <2> USE DEF IInv, SessionTypeOK
  <2>1. ASSUME touch # "refreshing", touch' = "refreshing" PROVE IsLive(held)
    BY <2>1 DEF Next, AttemptRuns, session, Unlock, UnlockBeside, LockHandle, Access, AccessLapsed,
                TouchCheck, Refresh, Lock, Tick
  <2>2. ASSUME NEW a \in Attempts, attempt[a].at = "open", ~IsLive(a), IsLive(a)'
        PROVE  touch = "refreshing" /\ held = a /\ token[a].live
    <3>1. CASE Refresh
      BY <2>2, <3>1 DEF Refresh, IsLive, factors
    <3>2. CASE Tick
      BY <2>2, <3>2, SessionAssumption DEF Tick, IsLive, factors
    <3>3. ASSUME token'[a] = token[a] \/ ~token'[a].live, now' = now PROVE FALSE
      BY <2>2, <3>3 DEF IsLive
    <3>4. ASSUME NEW b \in Attempts, Unlock(b) \/ UnlockBeside(b) PROVE FALSE
      <4>1. b # a
        BY <2>2, <3>4 DEF Unlock, UnlockBeside, OpenSeed
      <4>2. now' = now /\ (token'[a] = token[a] \/ ~token'[a].live)
        BY <3>4, <4>1 DEF Unlock, UnlockBeside, Revoked
      <4> QED BY <3>3, <4>2
    <3>5. ASSUME AccessLapsed \/ Lock \/ \E b \in Attempts : LockHandle(b) PROVE FALSE
      <4>1. now' = now /\ (token'[a] = token[a] \/ ~token'[a].live)
        BY <3>5 DEF AccessLapsed, Lock, LockHandle, Revoked
      <4> QED BY <3>3, <4>1
    <3>6. ASSUME \/ \E b \in Attempts : AttemptRuns(b)
                 \/ Access \/ TouchCheck \/ (Surroundings /\ UNCHANGED session)
          PROVE  FALSE
      BY <3>3, <3>6 DEF AttemptRuns, Access, TouchCheck, session
    <3> QED BY <3>1, <3>2, <3>4, <3>5, <3>6 DEF Next
  <2> QED BY <2>1, <2>2
<1> QED BY <1>1, Invariance, PTL DEF Spec, LapseIsUndoneOnlyMidTouch

(***************************************************************************)
(* Permissions                                                             *)
(***************************************************************************)
(* A signer that signs is live and of the permission's profile, and is the *)
(* wallet that the scope names, if it names one.                           *)
LEMMA Admitted ==
  ASSUME NEW p, NEW kind, NEW live, NEW scope,
         SignApproved(Signer(p, kind, live), Permission("spend", scope)) # {}
  PROVE  live /\ scope.profile = p /\ scope.wallet \subseteq {WalletOf(p, kind)}
BY DEF SignApproved, Signer, Permission, LiveSigner, SignableBy

(* The scope of a gate is made of its profile's own custody.               *)
LEMMA ScopeOfAGate ==
  ASSUME NEW configured \in Configurations, NEW scope \in Scopes(configured)
  PROVE  /\ scope.profile \in Profiles
         /\ configured[scope.profile] = "Hot" => \E h \in HotWallets : scope.wallet = {h}
         /\ configured[scope.profile] = "Vault" => scope.wallet = {}
BY DEF Scopes, Scope, Configurations

(* Money is signed away by a live session only, under the custody of the   *)
(* profile it belongs to (assert_signable_by, sign_approved).              *)
THEOREM PermissionsAreBound == PermissionsBind
<1> SUFFICES ASSUME NEW configured \in Configurations, NEW p \in Profiles,
                    NEW live \in BOOLEAN, NEW scope \in Scopes(configured),
                    SignApproved(Signer(p, IF configured[p] = "Vault" THEN "vault" ELSE "hot",
                                        live),
                                 Permission("spend", scope)) # {}
             PROVE  /\ live
                    /\ scope.profile = p
                    /\ configured[p] = "Hot" => scope.wallet = {KeyFor(configured, p)}
  BY DEF PermissionsBind
<1>1. live /\ scope.profile = p /\ scope.wallet \subseteq {KeyFor(configured, p)}
  BY Admitted DEF KeyFor
<1>2. configured[p] = "Hot" => \E h \in HotWallets : scope.wallet = {h}
  BY <1>1, ScopeOfAGate
<1> QED BY <1>1, <1>2

(* A vault is never signed for on a hot gate's word, nor the reverse.      *)
THEOREM TiersAreKept == TiersDoNotCross
<1> SUFFICES ASSUME NEW configured \in Configurations, NEW p \in Profiles,
                    NEW scope \in Scopes(configured),
                    SignApproved(Signer(p, IF configured[p] = "Vault" THEN "vault" ELSE "hot",
                                        TRUE),
                                 Permission("spend", scope)) # {}
             PROVE  Tiers(configured, scope) = configured[p]
  BY DEF TiersDoNotCross
<1>1. scope.profile = p
  BY Admitted
<1>2. configured[p] \in {"Vault", "Hot"}
  BY DEF Configurations
<1> QED BY <1>1, <1>2, ScopeOfAGate DEF Tiers

(***************************************************************************)
(* Moves out of a vault                                                    *)
(***************************************************************************)
(* A planned move names a vault and an amount, and settles a window later. *)
LEMMA Planned ==
  ASSUME MinWindow \in Nat, MaxU64 \in Nat, NEW start \in Seconds, NEW m \in Plans(start)
  PROVE  /\ m.from \in Vaults /\ m.amount \in {1, 2}
         /\ m.settles \in Seconds /\ m.settles >= start + MinWindow
         /\ m = Move(m.from, m.to, m.settles, m.amount)
<1>1. PICK x \in Seconds \X Vaults \X (HotWallets \cup Vaults) \X {0, 1, 2} :
        m \in ToHotWallet(x[1], x[2], x[3], x[4], {start})
  BY DEF Plans
<1>2. /\ m = Move(x[2], x[3], start + x[1], x[4])
      /\ x[4] # 0 /\ x[1] >= MinWindow /\ start + x[1] <= MaxU64
  BY <1>1 DEF ToHotWallet
<1>3. x[1] \in Seconds /\ x[2] \in Vaults /\ x[4] \in {0, 1, 2}
  BY <1>1
<1>4. start + x[1] \in Seconds /\ start + x[1] >= start + MinWindow
  BY <1>2, <1>3 DEF Seconds
<1> QED BY <1>2, <1>3, <1>4 DEF Move

(* From the moment it was planned a move can be cancelled by the vault's   *)
(* key for at least the shortest window, and by nobody else; then it can   *)
(* be settled, and never either way at once (to_hot_wallet, cancel,        *)
(* settle).                                                                *)
THEOREM MovesReverse ==
  ASSUME MinWindow \in Nat, MaxU64 \in Nat
  PROVE  MovesAreReversible
<1> SUFFICES ASSUME NEW start \in Seconds, NEW m \in Plans(start)
             PROVE  /\ m.amount > 0 /\ m.settles \in Seconds
                    /\ \A t \in Seconds, key \in Vaults \cup HotWallets :
                         LET back == Cancel(m, CoinOf(m), key, t)
                             on   == Settle(m, CoinOf(m), key, t)
                         IN  /\ back \cap on = {} /\ (back = {} \/ on = {})
                             /\ back \subseteq Vaults /\ on \subseteq {m.to}
                             /\ t \in start .. start + MinWindow - 1 =>
                                  on = {} /\ (key = m.from => back = {m.from})
  BY DEF MovesAreReversible
<1>1. /\ m.from \in Vaults /\ m.amount \in {1, 2}
      /\ m.settles \in Seconds /\ m.settles >= start + MinWindow
  BY Planned
<1>2. ASSUME NEW t \in Seconds, NEW key \in Vaults \cup HotWallets
      PROVE  LET back == Cancel(m, CoinOf(m), key, t)
                 on   == Settle(m, CoinOf(m), key, t)
             IN  /\ back \cap on = {} /\ (back = {} \/ on = {})
                 /\ back \subseteq Vaults /\ on \subseteq {m.to}
                 /\ t \in start .. start + MinWindow - 1 =>
                      on = {} /\ (key = m.from => back = {m.from})
  <2> DEFINE back == Cancel(m, CoinOf(m), key, t)
             on   == Settle(m, CoinOf(m), key, t)
  <2>1. back = (IF key = m.from /\ t < m.settles THEN {m.from} ELSE {})
    BY DEF Cancel, CoinOf
  <2>2. on = (IF key = m.to /\ t >= m.settles THEN {m.to} ELSE {})
    BY DEF Settle, CoinOf
  <2>3. t \in Int /\ m.settles \in Int /\ start \in Int
    BY <1>1 DEF Seconds
  <2>4. ~(t < m.settles /\ t >= m.settles)
    BY <2>3
  <2>5. t \in start .. start + MinWindow - 1 => t < m.settles
    BY <1>1, <2>3
  <2> HIDE DEF back, on
  <2> QED BY <1>1, <2>1, <2>2, <2>4, <2>5 DEF back, on
<1> QED BY <1>1, <1>2

(* A wallet finds its own moves again, and what it recovers by a memo that *)
(* lies is the coin's or nothing (parse_pending).                          *)
THEOREM MovesAreFound ==
  ASSUME MinWindow \in Nat \ {0}, MaxU64 \in Nat \ {0}
  PROVE  ParsedMovesAreReal
<1> SUFFICES ASSUME NEW start \in {0, 1}, NEW m \in Plans(start)
             PROVE  LET coin == CoinOf(m)
                        lies == {[Memo(m) EXCEPT !.settles = t] : t \in Seconds}
                                  \cup {[Memo(m) EXCEPT !.from = v] : v \in Vaults}
                    IN  /\ ParsePending(Memo(m), coin, m.to) = {m}
                        /\ \A memo \in lies, hot \in HotWallets :
                             \A p \in ParsePending(memo, coin, hot) :
                               p.to = hot /\ Cancel(p, coin, p.from, start) # {}
  BY Zenon DEF ParsedMovesAreReal
<1>1. start \in Seconds
  BY DEF Seconds
<1>2. /\ m.settles \in Seconds /\ m.settles >= start + MinWindow
      /\ m = Move(m.from, m.to, m.settles, m.amount)
  BY <1>1, Planned
<1>3. ParsePending(Memo(m), CoinOf(m), m.to) = {m}
  BY <1>2 DEF ParsePending, Memo, CoinOf
<1>4. ASSUME NEW memo, NEW hot, NEW p \in ParsePending(memo, CoinOf(m), hot)
      PROVE  p.to = hot /\ Cancel(p, CoinOf(m), p.from, start) # {}
  <2>1. p = m /\ p.to = hot
    BY <1>4 DEF ParsePending, CoinOf, Move
  <2>2. start < m.settles
    BY <1>2 DEF Seconds
  <2> QED BY <2>1, <2>2 DEF Cancel, CoinOf
<1> QED BY <1>3, <1>4

(* Each default alone keeps the gate from sending value unasked, and a     *)
(* request that declares nothing is always asked about (authorize_op,      *)
(* configured_limits).                                                     *)
THEOREM DefaultsAskFirst == DefaultsAsk
<1> SUFFICES ASSUME NEW hotLimit \in Totals, NEW policy \in SamplePolicies,
                    NEW class \in Classes \cup {Undeclared}, NEW total \in Totals,
                    Unasked(hotLimit, policy, class, total)
             PROVE  /\ class # Undeclared
                    /\ policy.enabled # DefaultAutoSend.enabled
                    /\ policy.limits[class] # NoLimits
                    /\ total > 0 => hotLimit > 0 /\ policy.cap > DefaultAutoSend.cap
  BY DEF DefaultsAsk
<1>1. class # Undeclared /\ policy.enabled /\ policy.limits[class].enabled
  BY DEF Unasked, ConfiguredLimits
<1>2. total <= hotLimit /\ total <= policy.cap
  BY DEF Unasked
<1>3. /\ DefaultAutoSend.enabled = FALSE /\ DefaultAutoSend.cap = 0
      /\ NoLimits.enabled = FALSE
  BY DEF DefaultAutoSend, AutoSend, NoLimits, ClassLimits
<1>4. policy.cap \in Totals
  <2>1. PICK x \in BOOLEAN \X SampleLimits \X Totals :
          policy = AutoSend(x[1], [c \in Classes |-> x[2]], x[3])
    BY DEF SamplePolicies
  <2> QED BY <2>1 DEF AutoSend
<1>5. total > 0 => hotLimit > 0 /\ policy.cap > DefaultAutoSend.cap
  BY <1>2, <1>3, <1>4 DEF Totals
<1> QED BY <1>1, <1>3, <1>5

(* The rules of custody, together.                                         *)
THEOREM CustodyIsHeld ==
  ASSUME MinWindow \in Nat \ {0}, MaxU64 \in Nat \ {0}
  PROVE  Spec => []CustodyHolds
<1>1. CustodyHolds
  BY MovesReverse, MovesAreFound, PermissionsAreBound, TiersAreKept, DefaultsAskFirst
  DEF CustodyHolds
<1> QED BY <1>1, PTL
=============================================================================
