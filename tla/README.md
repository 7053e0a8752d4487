# dig-account in TLA+

dig-account is the logic of a DIG Network user account: a master seed, the
profiles derived from it (each a DID and a dig-store, minted on the Chia
chain), and the wallet of each profile. It draws no screens and runs no loop of
its own. A host (dig-app) calls it from its threads, gives it a chain source, a
publisher, a clock and a keystore backend, and saves what it is handed. What
can go wrong is therefore mostly a matter of *when*: two calls interleave, the
chain moves between two reads, a push is not answered, the process ends between
a push and a save.

This directory holds TLA+ modules translated from that code, TLC models of them
on small instances, and TLAPS proofs of their main properties for all
instances. `PROJECT.json` lists, for every definition, the source lines it
stands for.

## 1. Inventory

Paths are relative to `src/src/`. "State" is what outlives a call.

| Component | Source | State | Operations | Modelled by |
|---|---|---|---|---|
| Coin selection | `wallet/transfer.rs` `select_input_coins`, `wallet/cat_transfer.rs`, `mint/did.rs` `select_funding_coin` | none | choose coins for a transfer, a CAT transfer, its fee, a mint | `CoinSelection` |
| Coin reservation | `wallet/reservation.rs`, `wallet/clock.rs` | table of reservations with expiries, behind a mutex | `held`, `reserve_all`, `release`; `select_and_reserve`; the `HeldCoins` guard | `Reservation` |
| Bundle construction | `wallet/transfer.rs`, `cat_transfer.rs`, `mint/did.rs`, `store_launch.rs`, `edit/commit.rs`, `melt/melter.rs`, `mint/reward_distributor*.rs` | none | make the spends of each operation; hold them against a whitelist before signing | `SpendBundles`, `IncentiveBundles` |
| Spend derivation | `wallet/summary.rs` | none | the lines, the total and the tier of a bundle | `SpendSummary` |
| Custody gate | `wallet/enforcer.rs`, `policy.rs`, `autosend.rs`, `approval.rs` | ledger of charges and ledger of prompts, a mutex each | `authorize_op`; `PendingApproval::confirm_with` | `SpendGate`, `Custody` |
| Vault move | `wallet/vault_move.rs` | none | a move from a vault to its hot wallet, its cancellation and its recovery | `Custody` |
| Signers | `signer.rs`, `wallet/money_signer.rs` | none of their own; observe the residency | sign an approved spend, sign a challenge | `Custody` (admission) |
| Transfers | `wallet/transfer.rs` | pushed bundles | `transfer_status`, replace by fee | `Settlement` |
| DID-only mint | `mint/did.rs`, `mint/status.rs` | a pending mint | `begin_did_mint`, `mint_status` | `Settlement`, `ProfileMint` |
| Reward distributor | `reward_distributor_mint.rs`, `mint/reward_distributor*.rs` | a pending distributor; its record in a file | launch, refill, clawback, status, evidence, `resume` | `Settlement`, `DistributorRecord`, `IncentiveBundles` |
| Profile registry | `registry/*` | entries, active slot, mints in progress; a JSON file | `record_minted`, `set_active`, `set_visibility`, `record_melted`, `begin_mint`, `advance_mint`, `abandon_mint`, `to_json`, `from_json` | `ProfileRegistry` |
| Profile mint | `profile_mint.rs`, `mint/profile.rs`, `did.rs`, `store_launch.rs`, `evidence.rs`, `store_evidence.rs`, `coinset_push.rs` | the registry's journal, reservations, the chain | `begin_profile_mint`, `advance_profile_mint`, `profile_mint_status` | `ProfileMint` |
| Profile edit | `edit/*`, `mint/seed.rs` | the profile store on chain; the bodies the host keeps | `read_profile`, `ProfileEdit`, `commit_edit`, `publish_profile` | `ProfileStore`, `ProfileBody` |
| Profile melt | `melt/*` | the profile's two singletons on chain | preview, melt, `melt_status` | `ProfileStore`, `ProfileBody` |
| Resolution | `profile_resolve.rs`, `registry/verify.rs` | none | find a store from its DID; re-verify an anchor | `ProfileResolve` |
| Session, residency | `session.rs`, `session_residency.rs`, `unlocked.rs` | the seed in memory, an idle deadline, a revocation flag | `unlock`, `lock`, `touch` | `Session` |
| Unlock gate | `auth/*` | the live unlock; the last consumed TOTP counter; the outstanding challenge and the passkey's counter, a mutex each | `UnlockGate::unlock`, `access`, `lock`; `issue_challenge`; evaluate a policy | `SecondFactor`, `Session` |
| Account store | `store.rs`, `model.rs` | sealed seeds in the keystore backend | enrol, unlock, list, delete | not modelled |
| Key derivation | `keys/*` | none | wallet key, DEK, sealing key | not modelled |

### Interactions

- A **wallet build** (a thread of the host) asks *selection* which coins to use,
  from one chain listing and the coins *reservation* says are held; it then
  reserves them, builds, and hands the host a plan that keeps them reserved.
- A **mint** does the same for a funding coin, and between reserving and
  pushing it writes the *registry*'s journal. The host cannot save the registry
  while the call holds it.
- A **plan** goes to the *custody gate*, which reads it back from its bytes
  (*spend derivation*) and returns a permission, a request for the user's
  confirmation, or a refusal; the *signer* signs only with a permission of its
  own profile's gate, and only while the *residency* is live.
- A **push** is answered, rejected or not answered. What became of it is asked
  of the chain later, in several reads that different nodes may answer; the
  host acts on the verdict (sends again, replaces, records an end).
- **Evidence** of a confirmed DID and store is what `record_minted` takes, and
  of a deletion what `record_melted` takes: the crate owns the evidence, the
  host owns the entries.
- An **edit** commits a root on chain; the body it commits to exists only where
  the host puts it.

### What makes it hard, and what must hold

| Component | Hard behaviour | What makes it correct |
|---|---|---|
| Selection | greedy choice under an input cap, coins that cannot be judged | minimal selections; a refusal gives the reason that decides |
| Reservation | snapshot, choice and reservation are three steps; the clock is read before the lock; entries lapse; restarts | two live plans share no coin; nothing frees a coin but its owner or its lapse; no leak; a build runs down |
| Bundles and summary | change, ties, burials, CAT rings, coins of two owners in one bundle | a bundle lands and pays what was asked; a whitelist admits that bundle only; the summary hides no loss |
| Custody gate | concurrent calls, late clock readings, full ledgers | the rolling cap over what is really lost; the prompt ceiling; every permission was earned |
| Vault | a move that must stay cancellable until it settles | no other way out; reversible for a whole window; recoverable from the chain |
| Settlement | reads at different moments from nodes that lag, forks, evictions, replacements | a death and a confirmation are final; a debt is paid once |
| Registry | any sequence of calls, saves and restarts | its invariants; what is saved loads; history is kept |
| Profile mint | the chain moves between any two steps; lost answers; crashes; reorganisations | one identity per index; what is recorded exists; a paid DID becomes a profile |
| Profile edit, melt | the tip moves between read and commit; lost answers; two singletons in one bundle | no slot changes but the one named; a body is recoverable; an end is recorded only for a deletion; what was shown is what is done |
| Distributor record | after a restart the ids are data of a file | only a launch of this account's own coin resumes |
| Resolution | a source that errs or withholds | a live store is never read as "no profile" for a lost spend of the DID |
| Residency | an idle deadline that lapses while it is refreshed | a relock is never undone |
| Second factors | two verifications of one code at once | a code is accepted once |

`PROJECT.json` lists these hazards one by one, each at its line.

## 2. Order of the work

Each module before its proofs: `CoinSelection`; `Reservation`, which extends it,
and `CoinLock`, the abstract specification it implements; `SpendGate`;
`ProfileRegistry`; `ProfileMint`, which composes the chain, reservations and the
journal and implements `ProfileRegistry`; `SecondFactor` and `Session`, which
extends it; `Chain` and `Settlement`, which extends it; `ProfileStore`; then the
rules that keep no state of their own, each a module of operators with a
reference definition beside it: `SpendBundles`, `IncentiveBundles`,
`SpendSummary`, `Custody`, `ProfileResolve`, `ProfileBody`, `DistributorRecord`.

What would add most next: a replacement rule in the mempool of `ProfileMint`; a
chain with a node that lags under it.

## 3. Modules

| Module | Role |
|---|---|
| `CoinSelection`, `SelectionReference` | the three selection rules as operators over a listing; what they must agree with |
| `Reservation` | reservation store, builders, host, chain, clock |
| `CoinLock` | what reservation promises: an atomic lock on sets of coins |
| `SpendBundles`, `IncentiveBundles` | the bundles the crate builds, and the whitelists they pass |
| `SpendSummary` | what the gate and the user are told of a bundle |
| `BundleReference` | what the three must come to |
| `SpendGate` | the custody gate with its two ledgers |
| `Custody`, `CustodyReference` | tiers, policies and defaults, scopes of permissions, the move out of a vault; what they must come to |
| `Chain` | blocks, a mempool, forks, and a source some of whose nodes lag |
| `Settlement` | what the wallet concludes about a bundle it pushed, over `Chain` |
| `DistributorRecord`, `RecordReference` | resuming a distributor from a file; what it must come to |
| `ProfileRegistry` | the registry's mutators, its check, save and restart |
| `ProfileResolve`, `ResolveReference` | the walk from a DID to its store; what it must come to |
| `ProfileMint` | the two-bundle ceremony at one index, over a chain that reorganises |
| `ProfileStore` | edits, publications and the deletion of a profile, over a store that forks |
| `ProfileBody`, `BodyReference` | bodies slot by slot, previews, readbacks, the pins of a deletion; what they must come to |
| `SecondFactor` | concurrent unlock attempts over one TOTP and one passkey factor |
| `Session` | the gate and the residency of its unlocks, over `SecondFactor` |
| `MC...` | instances for TLC |
| `...Proofs` | theorems and proofs |

**Rules and their references.** A rule without state is an operator from its
inputs to its outcome, and a `...Reference` module quantifies over a range of
inputs and says what the outcome must be without the rule's own cases. It
extends the component that uses the rule, so that one run answers for the
component and its rules and one module of proofs can cite both. Being about
every input rather than a state, such an invariant holds in every state; its
guard (`forks <= MaxForks => ...`, `custody \in Custodies => ...`) is true in
every state too and is there because TLC takes an invariant to be about the
state.

**CoinSelection.** A listing is a function from coins to what the source says
of them (value, own, confirmed, spent). Sorting by (amount, coin id) is
abstracted to the set of answers a rule may give, a tie being a choice.
`SelectMany` is the common part of the XCH and CAT rules, `SelectOne` of the fee
and funding rules.

**Reservation.** `entries` and `nextId` are the fields of `LocalReservations`;
`build[b]` holds the locals of a builder's call; `grants` is a history of who
still relies on a reservation. `Start`, `Held`, `Select`, `ConfirmByName`,
`ReadClock`, `Reserve`/`ReserveConflict`, `Commit`/`Drop` are the steps of
`select_and_reserve` and of the build around it, cut where another thread may
come between. The clock reading and the locked section are two steps, as in the
code. Coins that the chain shows as spent are skipped by the selector and
refused by name, as two separate reads.

**SpendBundles, IncentiveBundles.** A coin's id is the name of a coin of the
chain, or its parent's id with the output that made it, so that two equal
outputs of one spend collide as they would on chain. A spend is the coin, what
it creates, the fee it reserves, what it announces and asserts, the keys that
sign it and the domain they sign for; a bundle is a set of spends. Puzzles stand
as owners. `Lands` is what consensus asks of a bundle. A whitelist is what each
builder's own gate compares before it signs.

**SpendSummary.** `Recipients` are the outputs that do not return to an address
the bundle itself proves to be the spender's; `NativeTotal` is what is weighed
against every limit; the tier follows from them.

**SpendGate.** One authorizer, several threads. `Authorize` is the dispatch on
the tier, `ReadClock` the reading before the mutex, `Charge`, `OverCap`,
`Indeterminate`, `RaisePrompt`, `TooManyPrompts` the locked sections, `Confirm`
and `Decline` the ceremony. The history variables `approvals` and `raised` say
what was permitted and what the user was asked. The spends are those that
`SpendSummary` makes of `Presented`, the bundles the gate is asked about
(`PresentedAssumption`): a bundle whose spends cannot be accounted for never
reaches the gate, and no bare coin in it is somebody else's, since the crate
builds and signs for one wallet. What a bundle costs the wallet (`Loss`) is
counted over its `Roots`, the coins that were there before it.

**Custody.** A permission carries the scope of the gate that gave it (profile,
and the hot wallet where the gate is told one); a signer compares it with its
own. A vault's coin may be spent back at any time and onward only after its
window; the memo is what finds it again.

**Chain, Settlement.** `landed[b]` is the height at which a bundle is in a
block. `Block` includes any consistent part of the mempool, `Reorg` undoes up to
`Reach` blocks and rearranges what was in them, `Evict` drops a bundle, and
`behind` is the node that is up to `Lag` blocks late; every read is answered
from the chain or from that node's view. In `Settlement`, `pending[b]` is
`pushed_at_height` and `watch[b]` the locals of a status call: each read is a
step (`ReadPeak`, `ReadOutput`, `ReadInput`, `ReadOutputAgain` for a transfer;
`ReadFunding` for a DID; `ReadDistributorInput` and `ResumeFunding`,
`ResumeLauncher`, `ResumeBurial` for a distributor). `RereadInput` is
`build_transfer_replacing`. The host sends a second payment only for a transfer
reported dead.

**DistributorRecord.** A coin is the sequence of puzzle hashes down to it, as
its id commits to its lineage. `Resume` is the call with its refusals in order;
a source is a function from ids to answers, one of which may be wrong.

**ProfileRegistry.** Entries, journal and active slot are functions of the
index. `Becomes` is a mutation followed by `expect_valid`; a broken invariant
panics, and a panicked process does nothing until `Restart` reloads the last
save. An error is a call that changes nothing, hence no step.

**ProfileResolve.** A coin is known by its kind and the DID coin it descends
from. `Walk` folds `Step` over the lineage; `Resolve` is the whole call,
`VerifyAnchor` the re-reading of both coins.

**ProfileMint.** One index. The calls `begin_profile_mint` and
`advance_profile_mint` are cut at every chain read, journal write and push;
`Abort` is every error path before a push, `Accepted`, `Unanswered` and
`Rejected` are the three answers a push can have. Since a call borrows the
registry mutably, `Save` and `RecordMinted` happen between calls; `Restart` may
happen anywhere. The chain is a mempool and the height at which each bundle
landed; a reorganisation undoes a suffix shorter than `Depth`
(MIN_CONFIRMATION_DEPTH) and puts its bundles back in the mempool. A DID is
named by the coin that funds it and a store by the DID coin it is launched from,
as their launcher ids are determined. `Registry == INSTANCE ProfileRegistry
WITH ...` maps a mint's journal and entry to the registry's.

**ProfileStore.** A store's coin is the sequence of contents up to it, the root
it commits its last content. `Read` and `Sign` each resolve the tip, as
`commit_edit` does; `ReadRoot`/`AlreadyPublished` belong to `publish_profile`.
`held` is what the host's content source can serve, `lost` what was pushed,
not answered, and handed to nobody. `PlanDid`, `PlanStore` are the readings of
`plan_melt`, `PollDid`, `PollStore` those of `melt_status`; `ended` is what the
host records.

**ProfileBody.** A body is a function from slots to typed values and a root IS
its body. `CommitEdit`, `PublishProfile`, `ReadProfile` are the calls over it;
`PlanMelt` pins the two singletons a deletion may spend.

**SecondFactor.** An attempt is a call of `AllOf::authorize` and the keystore
unlock after it; attempts share the factors, as `AccountSession::unlock` lets
them (the policy is borrowed immutably). `MatchCode` reads the clock and
matches; `SpendCode`/`RefuseReplay` is the guard. `Verify` is everything
`PasskeyFactor::check` does before it moves state; `SpendChallenge` and
`SpendCount` are its two locks, one after the other. `Deny` is every refusal
that moves nothing. The wall clock may be set back; an assertion may come from
a cloned authenticator and be presented again.

**Session.** `held` is the gate's `live`, `token[a]` the `Residency` of the
unlock that attempt `a` opened. The gate's methods take `&mut self`, hence
`Borrowed`; a handle's `lock` and every reader of `is_live` are on other
threads. `access` is cut between its check, `touch`'s check and the refresh,
which reads the clock again.

## 4. Runs

| Run | Question | Result |
|---|---|---|
| `reservation` | two builders, every kind of request, lapses, releases, blocks, restarts: is reservation a lock, does a build run down, and do the greedy rules select minimally and refuse for the reason they give? | pass |
| `spend_gate` | three threads race for the last of a cap and of the prompts, on a hot wallet or a vault: does what is really lost unattended stay within the cap? Over every request of a purse: are the bundles exact, the whitelists tight, the summary complete? | pass |
| `settlement` | over forks and lagging nodes, is a transfer's death final, a confirmation final, a debt paid once; and does a distributor's record resume only when proven? | pass |
| `profile_registry` | every sequence of mutators, saves and restarts; and every history of a DID resolved by sources that err: is a lost answer ever read as "no profile"? | pass |
| `mint` | a careful host: one identity, one launch, a legal use of the registry | pass |
| `mint_live` | does a paid DID become a profile, unless the host abandons it? | pass |
| `profile_store` | are bodies recoverable, other slots kept, ends real; and is what was shown what is done? | pass |
| `session` | can a code, a challenge or a counter let two attempts through; can a capability outlive its unlock; do permissions, tiers and vault moves bind? | pass |
| `profile_registry_panic`, `mint_crash`, `mint_failed`, `edit_lost_answer` | sentences of the documentation that the code does not keep | violated, see 7 |

### Bounds

- `reservation`: two XCH coins and a CAT coin, requests that want one, both, or
  one of each kind; a TTL of 1 and a clock to 2, so that an entry is live, at
  its inclusive boundary and lapsed; two attempts, so that a conflict is retried
  and exhausted; two reservations per run. For the rules, sample listings of
  three coins worth 1 to 3 or of a kind that must not be used, every reserved
  set, every requirement up to 7, an input cap of 2: exact covers, one-short
  sums, ties, refusals for the cap and for the total's width (`MaxAmount`) all
  occur.
- `spend_gate`: period 2 and clock to 3, so that a record is in, at the edge of
  and out of the window; cap 3 with spends of 0 to 3 and a ledger of two
  records, so that either may be what is full. The purse holds XCH coins of 3, 4
  and 5 and CAT coins of 2 and 3; amounts 0, 1, 2, 4, 7 and fees 0 to 3 with a
  ceiling of 2 and two inputs at most, so that requests need one coin, two, an
  exact sum, or are refused for amount, fee or inputs; the width of an amount
  (`Largest`) is 14.
- `settlement`: a transfer of two inputs, its dearer copy, a second payment, a
  rival of one input; a DID mint and a distributor, each beside a rival. The
  `Families` share no coin and run one at a time. Forks of one block, a node one
  block behind and depth 4, the least that `DepthOutlastsForks` admits; peak to
  6, so that a spend is buried and a fork still comes after. One status call at
  a time (`OneCallAtATime`): calls only read, so two of them do not disturb each
  other. Records: depth 3, every fate of the account's own launch, every field
  of the record replaced by another coin in sight, one faulty answer.
- `profile_registry`: two identities and three indices, two fees on either side
  of the ceiling, two heights for a melt. Fewer than three indices would not
  separate "next live" from "the other". Resolution counts two launches, over
  lineages of up to four coins and sources with one or two wrong answers.
- `mint`: three coins (the DID's, the store's, one more for a second attempt),
  depth 2, peak to 7, one reorganisation. The chain is long enough for both
  halves to be buried after the reorganisation.
- `profile_store`: an edit of one slot and a publication that replaces both, each
  made again and again, and a deletion; three tips, two bundles waiting
  (`MaxWaiting`), one fork, a node one spend behind. A bundle that is evicted is
  one that is never included. Bodies: two named slots, one that no editor names
  and the schema stamp, two texts and a value that is no text; batches of up to
  three changes, so that a slot is changed, changed back and removed.
- `session`: two attempts through the gate, so that one supersedes or races
  the other's unlock, and one beside it, so that a code can be replayed after a
  newer one; two challenges, so that one supersedes the other; counters 0 (none
  kept) to 2; an idle window of 1 and a clock to 2, so that a touch finds the
  window live, and the refresh finds it lapsed. Custody rules: two profiles, Unix
  seconds and mojos up to 7, a least window of 3.

`MaxClock`, `MaxId`, `MaxCalls`, `MaxPeak`, `MaxReorgs`, `MaxTips`,
`MaxWaiting`, `MaxForks`, `MaxNow`, `MaxWall`, `MaxIssued`, `MaxCount` bound the
runs only; the theorems hold for all of their values. Where deadlock is not
checked, the clock, the chain or the ids are bounded and the model does stop.

### Fairness

One run assumes any. `PaidDidBecomesAProfile`: the host keeps calling
`advance_profile_mint` and records what it reads confirmed, a call ends, a push
is answered, reservations lapse, blocks keep coming, and the network does not
for ever fail a step that can succeed (strong fairness of the reads, the
reservation of a funding coin, the inclusion of a bundle and of `Accepted`). The
code is written for it: "safe to call on a timer". It assumes that a lost answer
is not a lost bundle (`Lossy = FALSE`): dig-account re-broadcasts nothing, so a
bundle lost with its answer leaves the mint pending until the host abandons it.

That a build ends needs no fairness but its own thread's: `BuildsRunDown` gives
every build a number that each of its steps lowers, whatever other builders do.

## 5. Proofs

All theorems hold for every value of the constants. Induction is over steps;
each has an inductive invariant, type correctness first.

- **`SumProofs`.** What the other modules need of sums. A weight of n is n
  units, a sum is the number of units of a set, and splitting, comparing and
  bounding sums is then about sets and their cardinalities. The library's
  `MapThenSumSet` adds up one element at a time; that it comes to this sum in
  any order is proved by the smallest set for which it would not
  (`AddingUp`).
- **`ReservationProofs`.** Invariant: no builder's clock reading is ahead of the
  clock; entries share no coin; handles are unique; every entry is somebody's
  grant; every unlapsed grant is an entry. The first part is what the order
  "read the clock, then lock" needs: a sweep with an old reading removes less,
  never more, so it removes only lapsed entries. Then unlapsed grants share no
  coin, and each step is a step of `CoinLock` (`Refinement`). `BuildsEnd` is the
  variant of a build. `SelectionProven` is about the rules of selection, for
  every listing: as many coins, each as heavy as any that was left, weigh at
  least what any other choice of that many does (`FewerAndLighter`), so a
  selection that stops at the first sufficient prefix is minimal and one that
  runs out has no solution.
- **`SpendGateProofs`.** Invariant: readings are in the past; the ledger
  remembers every approval of the last period; what it holds is worth at most
  the cap; every call has a number of its own and is approved at most once.
  `RollingCap` follows, since the approvals of the last period are among the
  ledger's; the numbers make the approvals and their charges one to one.
  `NothingIsHidden` is about the summary, for every purse and every bundle of
  it: what is weighed is what the bundle found less what returns to an address
  it proves to be the wallet's, so a loss is always a part of it; and of a
  transfer the lines are the payment that was asked for, which needs what the
  selector guarantees, that the change is less than any input.
  `CapIsTheWallets` joins the two: what the wallet really loses by the bundles
  approved unattended within a period stays within the cap.
  `EveryBundleIsExact` is about the builders, for every purse, request, fee and
  claim. What a bundle takes and makes of an asset is the sum over its spends as
  long as no coin is taken or made twice (`BalanceGrows`), so a bundle is joined
  spend by spend (`Joined`), each spend being one of a few kinds (`OneForOne`,
  `MakesChange`, `DistributorTurns`); that no coin is made twice is where a
  change of one mojo, folded into the fee by `ChangeAndFee`, matters. A coin
  with an id of one step is on the chain, so a supplied bundle finds nothing
  else (`RootsAreOnChain`). Of a transfer any part that lands contains its lead,
  because the others assert what the lead says, or bring a CAT ring out of
  balance; with the lead it makes the payment, and the farmer gets the fee only
  if the fee coin is there (`XchTransferIsExact`, `CatTransferIsExact`).
  `NothingPassesButTheRequest` is about the whitelists: a plan holds coins and
  keys (`Held`), and whatever its gate passes stays within them (`Within`).
  It says so of every bundle; the checked property, which
  `NoGateTakesMore` states, of the tampered ones.
- **`ProfileRegistryProofs`.** Five of the six parts of `check` are inductive.
  The sixth, that the active profile is shown, is not: `record_melted` breaks it
  and that is the only panic there is (`OnlyHiddenPanics`). `ResolutionProven`
  is about the walk from a DID to its store, for every history and limit of
  launches, and in fact for a source any number of whose answers are wrong
  (`ErringSourcesAreRefused`). Its invariant, over the steps of the walk: a walk
  that has not stopped has visited the lineage down to the coin it is at, and
  collected the intermediates of the spends it has read. It cannot be under way
  after as many steps as the lineage has coins, each step visiting one more; and
  one that has visited them all has read every spend the source tells of.
  Withholding a spend of the DID therefore ends in a refusal, not in "no
  profile".
- **`ProfileMintProofs`.** Two invariants. `ChainInv` holds for every host: what
  is recorded, saved, held as evidence or launched from lies in a block that no
  reorganisation undoes, because evidence asks for exactly the depth a
  reorganisation cannot reach. `CarefulInv` holds when the host saves before the
  process ends and does not abandon (`Careful`): every DID abroad is named by the
  registry, and an unlaunched DID has no store abroad. `Refinement` shows that a
  mint is a use of the registry; it needs `MarkerAssumption`, that the value for
  "none" is no entry of the registry.
- **`SettlementProofs`.** The chain first: the node behind is at most `Lag`
  blocks behind (`Near`), and what it sees landed below the reach of a fork is
  what has landed there (`Agree`). A bundle that any node reports `MinDepth` deep
  is then `Deep`: below every fork, in every node's eyes, and for good. This is
  where `DepthOutlastsForks` (`Reach + Lag + 1 < MinDepth`) is used; it is an
  assumption about the network, and the code's constant, 6, is the bet on it.
  The verdicts follow: a confirmed bundle is deep; a transfer reported dead
  has an input taken, deep, by a bundle that does not make its payment coin. The
  second reading of the payment coin is what excludes its own spend. `PaidOnce`
  adds `OneDebt`: two transfers in play share an input, or one answers the
  other's death. `RecordsProven` is about a distributor's record: it resumes only
  by a walk from its launcher to its funding coin, each read answering about the
  coin it was asked for, and a record is called dead only on an absent launcher
  and a spend that is deep enough; an honest source hears the account's own.
- **`ProfileStoreProofs`.** What waits in a mempool or in a call carries the
  argument: every content that may yet be committed is held or lost; every
  waiting edit changes one slot of the tip it spends; a poll that has read the
  DID spent is about a melted profile as long as no deletion was undone.
  `ShownIsDone` is about the bodies, for every set of slots and texts: a commit
  and its preview agree on every slot, a seed is the edit of its fields, a read
  is the committed body or nothing, and a deletion spends the two singletons it
  names.
- **`SessionProofs`.** Invariant, in three parts that concern one guard each: no
  code that was spent is above `last`; no challenge that was spent is the
  outstanding one, and none is newer than the last issued; no counter that
  passed is above the stored one. A fourth says that every token of the gate
  but the held one is revoked. From the first three, each token of a factor
  lets one attempt through (`NothingPassesTwice`), whatever the clock does; from
  the fourth, no capability outlives its unlock. The action properties follow
  from the same invariant. Type correctness of `Session` is proved and not a
  property of its run. `CustodyIsHeld` is about the rules a live signer obeys:
  it admits only a scope of its own profile, and the scope of a gate is made of
  that profile's custody, hence tiers do not cross; a move settles no earlier
  than the least window after it was planned, and its coin is locked under its
  parameters, so it is reversible for that long and recoverable from the chain.

Assumed, each a named `ASSUME` or a modelling decision: the parameters are
natural numbers and finite sets; the clock does not run backwards; a journalled
DID record is one the crate made; in `ProfileMint` the chain source answers
truthfully and a reorganisation is shallower than the confirmation depth; in
`Settlement` forks and lag together are; a coin's id commits to its lineage
(`PaymentNamesItsInputs`); the coins of a purse are the wallet's own, each worth
something and named by its id (`PurseAssumption`); the bundles a gate is asked
about are well formed and the wallet's (`PresentedAssumption`); a distributor's
reserve, its share and the chain's clock are natural numbers
(`DistributorAssumption`). A reward slot holds a part of the reserve
(`Claims`): the reserve is what the slots promise, and without that a share
that fits in its slot might not fit in the reserve. Only `ClawbackIsExact`
needs it.

Induction over data goes through the least counterexample: the library's
induction theorems take an operator as a parameter, which no installed prover
instantiates, but `WFMin` picks the smallest set, or the shortest walk, for
which a fact fails, and the fact for the next smaller one contradicts it.
Recursive functions are met the same way, since what a definition like `Walk`
chooses must be shown to exist (`WalksExist`, `AddingUp`).

Only model-checked:

- liveness (`PaidDidBecomesAProfile`), out of the prover's reach, like
  everything about ENABLED;
- the four statements of the documentation that the code does not keep
  (section 7), which no theorem could state.

## 6. Not modelled

- **Account store** (`store.rs`, `model.rs`). Each operation is an existence
  check and one call on the account's own blob. What can go wrong, two
  enrolments that both find the blob absent, is decided by the create-if-absent
  write of the keystore backend, which is not in this repository
  (`store.rs:255-259`, SPEC.md:85-90).
- **Key derivation, signatures, CLVM, JSON, the encoding of bodies and its size
  bounds.** What they decide is an input of the models or is stood in for by
  owners, keys and ids.
- **Identity signer** (`signer.rs`) beyond the liveness of the session it
  observes; enrolment; the capabilities an unlocked handle gives out.
- u64 widths of sums, except where the total of a listing, a bundle or a ledger
  is judged.
- A monotonic clock that jumps back. `SystemClock` may; the cap and the TTL are
  then off by the jump.
- The mempool rules of full nodes: `ProfileMint`'s mempool is first come, and
  `Chain` admits what could be included now, so that a replacement may displace
  the original or not.
- CAT transfers have no status call; nor have refills and clawbacks.
- Test guards and fixtures.

## 7. Findings

1. `profile_registry_panic`: ending the active profile while the lowest live one
   is hidden panics (`registry/registry.rs:306`).
2. `mint_crash`: the journal is written before the push but cannot be saved
   before it, so a crash in between pays for a second DID
   (`mint/profile.rs:177`).
3. `mint_failed`: a block that lands between the reading of the DID coin (or the
   distributor's launcher) and that of the funding coin makes a mint that just
   succeeded "can NEVER confirm" (`mint/did.rs:281`,
   `mint/reward_distributor.rs:357`). `transfer_status` reads its payment coin
   again for exactly this reason; the mints do not.
4. `edit_lost_answer`: an edit whose push landed but was not answered leaves a
   root whose body nobody holds, and the retry the documentation promises cannot
   read the profile (`edit/commit.rs:252`).

### Observations

More can be read off the models, though no run is spent on them. Some are
documented limits.

*Mints and transfers*

- The crash of `mint_crash` one push later, with the store's bundle: the
  reloaded stage says "not launched" of a store that is.
- The least height `mint/evidence.rs` believes is the peak read before the push;
  a fork may include the DID below it, and it then stays "in flight".
- `SpendabilityUnknown` is raised for any shortfall while some coin has no
  height, even when that coin could not have covered it
  (`wallet/transfer.rs:1352`), where SPEC.md says "if and only if".
- `SignedRewardDistributorMint::submit` (`mint/reward_distributor.rs:230-263`),
  called again after an unanswered push, may be told "rejected" because the
  first one landed.
- The funding spend of a store launch is bound to the DID's spend by the
  aggregate signature only, by no announcement.

*Custody*

- Charges carry the clock reading taken before the lock
  (`wallet/enforcer.rs:362`), so `RollingCap` is over readings: permissions
  *minted* within one period can pass the cap when a thread is delayed between
  the two.
- A CAT transfer with no fee coin shows its own change as a line (documented:
  it errs on the safe side).
- A vault move presented to the gate as an ordinary spend is refused
  (documented).
- The window of a vault move is counted from the time of planning, so a bundle
  that waits in a mempool lands with less of it left.

*Profiles*

- An edit that lands between `read_profile` and the second resolution of the tip
  is overwritten whole (`edit/read.rs:47`, `edit/commit.rs:374`);
  `EditsKeepOtherSlots` is about edits that land on the tip they were computed
  from.
- A deletion is confirmed at no particular depth (`melt/melter.rs:128-165`); a
  fork that undoes it leaves a live profile recorded as ended, which
  `EndedUnlessForked` excuses.
- A deletion pinned to a tip that an edit replaced stays pushed for ever, and one
  whose push was not answered leaves the host nothing to poll with.
- `ProfileSeed::with_utf8` accepts the slot of the schema version, and so can
  mint a body that no reader interprets; the publishing path guards against it.

*Readings and records*

- A source that withholds the spend of an *intermediate* makes a launch read as
  "never completed", though `read_spend_of`'s comment
  (`profile_resolve.rs:421-430`) says that the completeness check catches a
  withheld spend.
- `verify_anchor` proves what its documentation says and no more: two coins
  exist and are unspent.
- Resuming a distributor answers `NotYours` when a source simply has no record
  of the funding or the reward coin; a record whose distributor id was corrupted
  reads as `LaunchDead` once the real launch is buried, since the id depends on a
  key that is discarded; and `reward_cat_coin_id` is bound only as "a DIG coin of
  ours".
- `Residency::touch` (`session_residency.rs:109`) checks and then refreshes, so a
  window that lapses in between is live again, after a capability may have been
  refused; "a relock is never undone by touching it" holds of every other order
  (`LapseIsUndoneOnlyMidTouch`).
