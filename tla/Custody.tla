------------------------------- MODULE Custody -------------------------------
(***************************************************************************)
(* The custody rules that decide nothing by themselves and bind what the   *)
(* gate and the signers do: the two tiers, the policy of unattended        *)
(* sending with its defaults, whose money a permission is for, and the     *)
(* move out of a vault, which its owner may cancel until it settles.       *)
(***************************************************************************)
EXTENDS Integers, FiniteSets

CONSTANTS
  Profiles,    \* profile indices
  Classes,     \* SpendOpClass::CONFIGURABLE
  Undeclared,  \* the class of a request that declares none
  MinWindow,   \* MIN_CLAWBACK_SECONDS
  MaxU64       \* u64::MAX, for amounts and for Unix seconds alike

Seconds == 0 .. MaxU64
Mojos   == 0 .. MaxU64

(***************************************************************************)
(* Tiers, and whose money a gate rules over                                *)
(***************************************************************************)
(* The two wallets of a profile: the key the money is spent with, and the  *)
(* hot wallet a vault pays into.  A hot profile has one.                   *)
WalletOf(profile, kind) == <<profile, kind>>

(* CustodyPolicy: a vault with its window, or a hot wallet with its limit. *)
Policies == [kind : {"Vault"}, window : Seconds] \cup [kind : {"Hot"}, limit : Mojos]

(* A gate is configured with a profile, its policy and a hot wallet; the   *)
(* scope names the wallet only where the gate is told it (CustodyScope).   *)
Scope(profile, kind, hotWallet) ==
  [profile |-> profile, wallet |-> IF kind = "Hot" THEN {hotWallet} ELSE {}]

(* What the gate permits is stamped with its scope.                        *)
Permission(spend, scope) == [spend |-> spend, scope |-> scope]

(* Mutant: only the wallet is compared.                                    *)
SignableByWallet(scope, profile, wallet) == scope.wallet \subseteq {wallet}

(* assert_signable_by: the profile must agree, and the wallet if named.    *)
SignableBy(scope, profile, wallet) ==
  scope.profile = profile /\ scope.wallet \subseteq {wallet}

(* A signer shares the seed and the residency of one unlock; it derives    *)
(* nothing, and signs nothing, once that unlock has ended.                 *)
Signer(profile, kind, live) == [profile |-> profile, wallet |-> WalletOf(profile, kind), live |-> live]

LiveSigner(signer) == signer.live

(* sign_approved: liveness first, then admission.  The answer is the spend *)
(* that is signed, or none.                                                *)
SignApproved(signer, permission) ==
  IF LiveSigner(signer) /\ SignableBy(permission.scope, signer.profile, signer.wallet)
  THEN {permission.spend} ELSE {}

(***************************************************************************)
(* Sending unattended                                                      *)
(***************************************************************************)
ClassLimits(enabled, perTx) == [enabled |-> enabled, perTx |-> perTx]

NoLimits == ClassLimits(FALSE, 0)

AutoSend(enabled, limits, cap) == [enabled |-> enabled, limits |-> limits, cap |-> cap]

DefaultAutoSend == AutoSend(FALSE, [c \in Classes |-> NoLimits], 0)

(* Mutant: a request that declares nothing is bound as the first class is. *)
AnyLimits(policy, class) ==
  {policy.limits[c] : c \in Classes}

(* configured_limits: a request that declares nothing has no bounds.       *)
ConfiguredLimits(policy, class) ==
  IF class = Undeclared THEN {} ELSE {policy.limits[class]}

(* What authorize_op approves of an empty window, without asking.          *)
Unasked(hotLimit, policy, class, total) ==
  /\ total <= hotLimit
  /\ policy.enabled
  /\ \E l \in ConfiguredLimits(policy, class) : l.enabled /\ total <= l.perTx
  /\ total <= policy.cap

(***************************************************************************)
(* A move out of a vault                                                   *)
(***************************************************************************)
(* The parameters of a pending move; the coin that carries them is locked  *)
(* under exactly them.                                                     *)
Move(from, to, settles, amount) ==
  [from |-> from, to |-> to, settles |-> settles, amount |-> amount]

(* Mutant: a window of any length will do.                                 *)
ToHotWalletAtOnce(window, vault, hotWallet, amount, reading) ==
  {Move(vault, hotWallet, time + window, amount) :
     time \in {t \in reading : /\ amount # 0
                               /\ hotWallet # vault
                               /\ t + window <= MaxU64}}

(* to_hot_wallet: reading holds the clock's answer, or nothing when it     *)
(* cannot be read.                                                         *)
ToHotWallet(window, vault, hotWallet, amount, reading) ==
  {Move(vault, hotWallet, time + window, amount) :
     time \in {t \in reading : /\ amount # 0
                               /\ hotWallet # vault
                               /\ window >= MinWindow
                               /\ t + window <= MaxU64}}

(* The coin a funding spend makes of a move.                               *)
CoinOf(move) == [puzzle |-> move, amount |-> move.amount]

(* The memo the funding spend carries: all a reader needs but the amount,  *)
(* which the coin tells.                                                   *)
Memo(move) == [to |-> move.to, from |-> move.from, settles |-> move.settles]

(* Mutant: the memo is believed.                                           *)
ParseByMemo(memo, coin, hotWallet) ==
  {Move(memo.from, hotWallet, memo.settles, coin.amount)}

(* parse_pending: the reader's own hot wallet and the memo must come to    *)
(* the puzzle the coin is locked under.                                    *)
ParsePending(memo, coin, hotWallet) ==
  {m \in {Move(memo.from, hotWallet, memo.settles, coin.amount)} : m = coin.puzzle}

(* The two spends of the coin, by whose key and when a block takes them:   *)
(* the wallet that asks spends the coin as the parameters it holds say,    *)
(* and a coin is not spent by parameters that are not its own.             *)
Cancel(move, coin, key, time) ==
  IF coin.puzzle = move /\ key = move.from /\ time < move.settles THEN {move.from} ELSE {}

Settle(move, coin, key, time) ==
  IF coin.puzzle = move /\ key = move.to /\ time >= move.settles THEN {move.to} ELSE {}
=============================================================================
