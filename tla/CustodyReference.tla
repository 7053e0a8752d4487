--------------------------- MODULE CustodyReference ---------------------------
(***************************************************************************)
(* What the rules of Custody must come to, over every profile, window,     *)
(* clock reading, memo and policy of a small range.                        *)
(***************************************************************************)
EXTENDS Session, Custody

(* Profiles differ in custody: each is a vault or hot, once and for all.   *)
Configurations == [Profiles -> {"Vault", "Hot"}]

(* The key a profile's money is spent with.                                *)
KeyFor(configured, p) == WalletOf(p, IF configured[p] = "Vault" THEN "vault" ELSE "hot")

HotWallets == {WalletOf(p, "hot") : p \in Profiles}

(* The scopes of the gates a host may build: it knows each profile's       *)
(* custody, and may mistake the address of a hot wallet for another's.     *)
Scopes(configured) ==
  {Scope(p, configured[p], h) : p \in Profiles, h \in HotWallets}

(* Money is only ever signed away by a live session, under the custody of  *)
(* the profile it belongs to; and a hot gate told another's wallet signs   *)
(* nothing.                                                                *)
PermissionsBind ==
  \A configured \in Configurations, p \in Profiles, live \in BOOLEAN :
    LET kind   == IF configured[p] = "Vault" THEN "vault" ELSE "hot"
        signer == Signer(p, kind, live)
    IN  \A scope \in Scopes(configured) :
          SignApproved(signer, Permission("spend", scope)) # {} =>
            /\ live
            /\ scope.profile = p
            /\ configured[p] = "Hot" => scope.wallet = {KeyFor(configured, p)}

(* A vault is never signed for on a hot gate's word, nor the reverse.      *)
Tiers(configured, scope) == IF scope.wallet = {} THEN "Vault" ELSE "Hot"

TiersDoNotCross ==
  \A configured \in Configurations, p \in Profiles :
    \A scope \in Scopes(configured) :
      SignApproved(Signer(p, IF configured[p] = "Vault" THEN "vault" ELSE "hot", TRUE),
                   Permission("spend", scope)) # {} =>
        Tiers(configured, scope) = configured[p]

(* Each default alone keeps the gate from sending value unasked, and a     *)
(* request that declares nothing is always asked about.                    *)
Totals == 0 .. 2

SampleLimits == {NoLimits, ClassLimits(TRUE, 0), ClassLimits(FALSE, 2), ClassLimits(TRUE, 2)}

SamplePolicies ==
  {AutoSend(x[1], [c \in Classes |-> x[2]], x[3]) : x \in BOOLEAN \X SampleLimits \X Totals}

DefaultsAsk ==
  \A hotLimit \in Totals, policy \in SamplePolicies, class \in Classes \cup {Undeclared},
     total \in Totals :
    Unasked(hotLimit, policy, class, total) =>
      /\ class # Undeclared
      /\ policy.enabled # DefaultAutoSend.enabled
      /\ policy.limits[class] # NoLimits
      /\ total > 0 => hotLimit > 0 /\ policy.cap > DefaultAutoSend.cap

(***************************************************************************)
(* Vault moves                                                             *)
(***************************************************************************)
Vaults == {WalletOf(p, "vault") : p \in Profiles}

Plans(start) ==
  UNION {ToHotWallet(x[1], x[2], x[3], x[4], {start}) :
           x \in Seconds \X Vaults \X (HotWallets \cup Vaults) \X {0, 1, 2}}

(* From the moment it was planned, a move can be cancelled by the vault's  *)
(* key for at least the shortest window, and by nobody else; then it can   *)
(* be settled, and never either way at once.  No move ends anywhere but in *)
(* its vault or its hot wallet.                                            *)
MovesAreReversible ==
  \A start \in Seconds : \A m \in Plans(start) :
    LET coin == CoinOf(m)
    IN  /\ m.amount > 0 /\ m.settles \in Seconds
        /\ \A t \in Seconds, key \in Vaults \cup HotWallets :
             LET back == Cancel(m, coin, key, t)
                 on   == Settle(m, coin, key, t)
             IN  /\ back \cap on = {} /\ (back = {} \/ on = {})
                 /\ back \subseteq Vaults /\ on \subseteq {m.to}
                 /\ t \in start .. start + MinWindow - 1 =>
                      on = {} /\ (key = m.from => back = {m.from})

(* A wallet finds its own moves again from the chain; and whatever a memo  *)
(* says, the parameters it recovers are the coin's, so what it offers to   *)
(* cancel can be cancelled.                                                *)
ParsedMovesAreReal ==
  \A start \in {0, 1} : \A m \in Plans(start) :
    LET coin == CoinOf(m)
        lies == {[Memo(m) EXCEPT !.settles = t] : t \in Seconds}
                  \cup {[Memo(m) EXCEPT !.from = v] : v \in Vaults}
    IN  /\ ParsePending(Memo(m), coin, m.to) = {m}
        /\ \A memo \in lies, hot \in HotWallets :
             \A p \in ParsePending(memo, coin, hot) :
               /\ p.to = hot
               /\ Cancel(p, coin, p.from, start) # {}

(* A move out of a vault can be cancelled for a whole window and found     *)
(* again from the chain; a permission is used only by a live signer of the *)
(* profile whose gate gave it; and each default keeps the gate asking      *)
(* (vault_move.rs, policy.rs, autosend.rs).                                *)
CustodyHolds ==
  now <= MaxNow =>
    /\ MovesAreReversible /\ ParsedMovesAreReal
    /\ PermissionsBind /\ TiersDoNotCross
    /\ DefaultsAsk
=============================================================================
