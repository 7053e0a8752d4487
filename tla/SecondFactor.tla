----------------------------- MODULE SecondFactor -----------------------------
(***************************************************************************)
(* Attempts to unlock one account under one AllOf policy of a TOTP factor  *)
(* and a passkey factor, in that order, and then the password.  The        *)
(* factors are shared: their guards are mutexes inside them, each taken    *)
(* and released alone, and attempts run on any number of threads.          *)
(*                                                                         *)
(* A code is named by the counter it is the code of, so two counters never *)
(* share one, and wall time is counted in TOTP steps.  A challenge is      *)
(* named by the order of its issue.  An assertion is one the enrolled key  *)
(* signed, by whichever authenticator holds that key: it may answer any    *)
(* challenge ever issued, with any counter, and be presented twice.        *)
(***************************************************************************)
EXTENDS Naturals

CONSTANTS
  Attempts,   \* the unlock attempts
  Skew,       \* skew_steps
  Ttl,        \* how long a challenge is answerable
  MaxWall,    \* bound: the latest wall time
  MaxIssued,  \* bound: how many challenges are issued
  MaxCount,   \* bound: the highest signature counter an authenticator reports
  None        \* no counter, no challenge

ASSUME FactorAssumption ==
  /\ {Skew, Ttl, MaxWall, MaxIssued, MaxCount} \subseteq Nat
  /\ None \notin Nat

VARIABLES
  wall,     \* the wall clock, which the system may set forward or back
  last,     \* last_consumed of the TOTP factor
  slot,     \* the outstanding challenge
  issued,   \* how many challenges were issued
  stored,   \* sign_count of the credential
  attempt   \* where each attempt is, and what it has presented

factors == <<wall, last, slot, issued, stored, attempt>>

Codes == 0 .. MaxWall + Skew

Challenges == 1 .. MaxIssued

New == [at |-> "new", code |-> None, challenge |-> None, count |-> 0, read |-> 0]

Goes(a, at) == attempt' = [attempt EXCEPT ![a].at = at]

SetWall(t) ==
  /\ t # wall
  /\ wall' = t
  /\ UNCHANGED <<last, slot, issued, stored, attempt>>

(* issue_challenge: any challenge outstanding is replaced.                 *)
Issue ==
  /\ issued < MaxIssued
  /\ issued' = issued + 1
  /\ slot' = [id |-> issued + 1, expires |-> wall + Ttl]
  /\ UNCHANGED <<wall, last, stored, attempt>>

(***************************************************************************)
(* TotpFactor::check                                                       *)
(***************************************************************************)
(* The clock is read, and the code is one of the counters around it.       *)
MatchCode(a, code) ==
  /\ attempt[a].at = "new"
  /\ wall <= code + Skew /\ code <= wall + Skew
  /\ attempt' = [attempt EXCEPT ![a].at = "guard", ![a].code = code]
  /\ UNCHANGED <<wall, last, slot, issued, stored>>

(* Mutant: only the code accepted last is refused.                         *)
ReplayedLastOnly(code) == last # None /\ code = last

Replayed(code) == last # None /\ code <= last

(* Under the guard, some time later: the counter is consumed.              *)
SpendCode(a) ==
  /\ attempt[a].at = "guard"
  /\ ~Replayed(attempt[a].code)
  /\ last' = attempt[a].code
  /\ Goes(a, "passkey")
  /\ UNCHANGED <<wall, slot, issued, stored>>

RefuseReplay(a) ==
  /\ attempt[a].at = "guard"
  /\ Replayed(attempt[a].code)
  /\ attempt' = [attempt EXCEPT ![a].at = "refused", ![a].code = None]
  /\ UNCHANGED <<wall, last, slot, issued, stored>>

(***************************************************************************)
(* PasskeyFactor::check                                                    *)
(***************************************************************************)
(* The assertion is well formed and signed, and the clock is read.         *)
Verify(a, challenge, count) ==
  /\ attempt[a].at = "passkey"
  /\ challenge <= issued
  /\ attempt' = [attempt EXCEPT ![a].at = "challenge", ![a].challenge = challenge,
                                ![a].count = count, ![a].read = wall]
  /\ UNCHANGED <<wall, last, slot, issued, stored>>

Outstanding(a) ==
  /\ slot # None
  /\ slot.id = attempt[a].challenge
  /\ attempt[a].read < slot.expires

(* Mutant: the challenge that is answered stays outstanding.               *)
SpendChallengeNot(a) ==
  /\ attempt[a].at = "challenge"
  /\ Outstanding(a)
  /\ attempt' = [attempt EXCEPT ![a].at = "count", ![a].read = 0]
  /\ UNCHANGED <<wall, last, slot, issued, stored>>

(* ChallengeIssuer::consume.                                               *)
SpendChallenge(a) ==
  /\ attempt[a].at = "challenge"
  /\ Outstanding(a)
  /\ slot' = None
  /\ attempt' = [attempt EXCEPT ![a].at = "count", ![a].read = 0]
  /\ UNCHANGED <<wall, last, issued, stored>>

RefuseChallenge(a) ==
  /\ attempt[a].at = "challenge"
  /\ ~Outstanding(a)
  /\ attempt' = [attempt EXCEPT ![a].at = "refused", ![a].challenge = None,
                                ![a].count = 0, ![a].read = 0]
  /\ UNCHANGED <<wall, last, slot, issued, stored>>

(* Mutant: a counter that stands still is taken for one that advances.     *)
AdvancesOrStays(count) == count >= stored

Advances(count) == (count = 0 /\ stored = 0) \/ count > stored

SpendCount(a) ==
  /\ attempt[a].at = "count"
  /\ Advances(attempt[a].count)
  /\ stored' = attempt[a].count
  /\ Goes(a, "password")
  /\ UNCHANGED <<wall, last, slot, issued>>

(* The challenge stays spent.                                              *)
RefuseClone(a) ==
  /\ attempt[a].at = "count"
  /\ ~Advances(attempt[a].count)
  /\ attempt' = [attempt EXCEPT ![a].at = "refused", ![a].count = 0]
  /\ UNCHANGED <<wall, last, slot, issued, stored>>

(* A factor that is absent, malformed, foreign or unsigned, a code of no   *)
(* counter in the window, an unreadable clock, a wrong password, a blob    *)
(* that is not there: what was spent before stays spent.                   *)
Deny(a) ==
  /\ attempt[a].at \in {"new", "passkey", "password"}
  /\ Goes(a, "refused")
  /\ UNCHANGED <<wall, last, slot, issued, stored>>

(* The password opens the keystore.                                        *)
OpenSeed(a) ==
  /\ attempt[a].at = "password"
  /\ Goes(a, "open")
  /\ UNCHANGED <<wall, last, slot, issued, stored>>

FactorInit ==
  /\ wall = 0
  /\ last = None
  /\ slot = None
  /\ issued = 0
  /\ stored \in {0, 1}
  /\ attempt = [a \in Attempts |-> New]

Authorize(a) ==
  \/ \E code \in Codes : MatchCode(a, code)
  \/ SpendCode(a) \/ RefuseReplay(a)
  \/ \E challenge \in Challenges, count \in 0 .. MaxCount : Verify(a, challenge, count)
  \/ SpendChallenge(a) \/ RefuseChallenge(a)
  \/ SpendCount(a) \/ RefuseClone(a)
  \/ Deny(a)

Surroundings == Issue \/ \E t \in 0 .. MaxWall : SetWall(t)

(***************************************************************************)
(* Properties                                                              *)
(***************************************************************************)
Attempt ==
  [at : {"new", "guard", "passkey", "challenge", "count", "password", "open", "refused"},
   code : Codes \cup {None}, challenge : Challenges \cup {None},
   count : 0 .. MaxCount, read : 0 .. MaxWall]

FactorTypeOK ==
  /\ wall \in 0 .. MaxWall
  /\ last \in Codes \cup {None}
  /\ slot \in [id : Challenges, expires : Nat] \cup {None}
  /\ issued \in 0 .. MaxIssued
  /\ stored \in 0 .. MaxCount \cup {1}
  /\ attempt \in [Attempts -> Attempt]

(* "A code is single-use across its entire validity, including the skew    *)
(* steps": no two attempts get past TOTP on one code, in whatever order    *)
(* their threads matched it and took the guard, and wherever the clock is  *)
(* set in between.                                                         *)
CodeIsSpentOnce ==
  \A a, b \in Attempts :
    a # b /\ attempt[a].code # None /\ attempt[a].code = attempt[b].code
      => "guard" \in {attempt[a].at, attempt[b].at}

(* "An assertion replayed a second time answers nothing": one challenge    *)
(* lets one attempt through.                                               *)
ChallengeIsSpentOnce ==
  \A a, b \in Attempts :
    a # b /\ attempt[a].challenge # None /\ attempt[a].challenge = attempt[b].challenge
      => "challenge" \in {attempt[a].at, attempt[b].at}

(* A cloned credential is refused: of two attempts that pass the passkey   *)
(* with a counter, whichever authenticator kept it, one reports more than  *)
(* the other.                                                              *)
CountIsSpentOnce ==
  \A a, b \in Attempts :
    a # b /\ {attempt[a].at, attempt[b].at} \subseteq {"password", "open"}
      => attempt[a].count # attempt[b].count \/ attempt[a].count = 0

(* What single use comes to: however attempts interleave and the clock is  *)
(* set, each of the three lets at most one attempt through.                *)
NothingPassesTwice == CodeIsSpentOnce /\ ChallengeIsSpentOnce /\ CountIsSpentOnce

(* "Issuing invalidates any predecessor": the challenge that is spent is   *)
(* the newest, so a prompt that was superseded opens nothing.              *)
NewestChallengeOnly ==
  [][\A a \in Attempts :
        attempt[a].at = "challenge" /\ attempt'[a].at = "count"
          => attempt[a].challenge = issued]_factors
=============================================================================
