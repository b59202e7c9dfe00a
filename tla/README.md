# Verification of harmony-migration

TLA+ models of the programs of this repository that decide where value goes and that move it, TLC
runs that check them on small instances, and TLAPS proofs of what matters most. `PROJECT.json`
lists the components, the runs, the source lines behind every definition, the hazards and the
theorems; this file explains them.

## The system

The repository takes the Harmony chain at a cutoff, turns its state into a ledger of claims, decides
where each claim goes, and pays it on another chain. It has four layers.

| Layer | Directories | State | What changes it |
|---|---|---|---|
| Evidence | `toolkit/cmd`, `toolkit/internal`, `toolkit/scripts/archive`, `/cutoff`, `/forensics`, `/contract-review` | CSV files appended by resumable scans, `done` notes, `stage.json`, checkpoints | scans and replays over a node or its database, stopped and resumed |
| Ledger and policy | `toolkit/scripts/claims`, `/bridge`, `/exchanges` | claim ledger, stage policy, vault shares, allocations | one-shot programs that read files, check closing totals and write files |
| Routing | `toolkit/scripts/routing` | exceptions, governors, vault stages, unresolved, a summary with hashes, the initial plan | `apply-routes`, `materialize-initial-stage`, an operator who edits inputs |
| Payment | `airdrop`, `vault`, `bridge-claims` | three contracts, the reserve's tokens and approvals, the Safe's queue, run directories, signing packages | executors, owners, reviewers, the admin, relayers, recipients |

How they interact: the claim ledger and the stage policy feed the routing; the routing's initial
plan becomes the payment lists; a wallet list is paid either by the airdrop contract (a Merkle tree
of batches, `CommittedBatchAirdrop`) or by direct Safe payments (`safe_batch.py`); vault shares are
deposited by `vault_batch.py` into one `GovernorDelegator` per validator; bridged assets are claimed
from `BridgeClaims`, whose approvals the owners sign from packages kept by `package.py`. The archive
is independent evidence of what happened on the chain.

What is hard to get right, and to test:

* a contract loop that fails half-way, or hands control to somebody else in the middle of a payment;
* scripts that read the chain, decide, and act later, while others act in between;
* reviews whose verdict rests on a list read earlier, while proposals compete for nonces;
* programs that replace several files one after the other and may stop between any two;
* scans that are stopped, resumed, and meet a chain that changed in between;
* amounts that are split, rounded and summed again by another program, and must agree to the unit;
* a pipeline of some twenty programs run by hand, where one that is run too early, left out or killed
  leaves files that fit together and are wrong.

The properties that make the system correct, all of them checked below: a row is paid exactly once;
a payee is never paid twice, by any path of one component; an approval bounds what leaves the
reserve; a rerun finishes the job and repeats nothing; what a report calls done is done; what is
listed for signing is the last complete build; a file called complete is complete; the plan that is
paid is the routing that was checked, and with the transfers to exchanges it adds up to the chain.

## Modules

| Module | Models | State and actions |
|---|---|---|
| `CommittedBatchAirdrop` | `airdrop/src/CommittedBatchAirdrop.sol`, the token it spends | the contract's storage, token balances and allowances; `execute()` as `ExecuteBegin`, `ExecuteRow`, `ExecuteRevert`, `ExecuteEnd` with the storage a revert restores; administration; approvals and transfers |
| `AtomicAirdrop` | what the contract promises (the mapping that shows it is in `CommittedBatchAirdrop`) | balances and sent batches; one step sends one batch |
| `RecipientList` | the list part of `common.py`, `select_batch.py` | reading, merging and ordering recipients; the selection strategies |
| `RunDirectory` | `build.py`, `verify.py`, `VerifyRoot.s.sol`, `Deploy.s.sol`; `BatchTree.sol` and the tree part of `tools/common.py` | the directory, a copy of it, the deployed values; one action per file written, deleted or downloaded; the tree and its proofs as definitions, in which hashes are terms and do not collide |
| `AirdropReports` | `status.py`, `reconcile.py` | what each concludes from a state |
| `AirdropRun` | `Execute.s.sol`, `airdrop.py`, `approve_calldata.py`, `Simulate.s.sol` | the script's runs, the mempool; start, broadcast, mine, lose, interrupt, give up; the rehearsal on a fork as a function of the state |
| `SafeQueue` | `safe_batch.py crosscheck` | the Safe's nonce and proposals; each review's two reads and its verdict |
| `DirectPayment` | `select_batch.py`, `safe_batch.py build` and `verify` | selections and payment folders; its proposals are those of `SafeQueue` |
| `GovernorDelegator` | `vault/contract/GovernorDelegator.sol` | several vaults and the token; one action per function |
| `VaultRun` | `vault_batch.py` build, show, deploy, reconcile | run directories, the Safe's queue, what builds read; extends `GovernorDelegator` |
| `BridgeClaims` | `bridge-claims/src/BridgeClaims.sol` | a world, and the stack of calls that have not returned, each with the worlds it may go back to |
| `EscrowRelease` | `release_plan.py`, `send_calldata.py` | the escrows' settings and funds, plans, files and the sender's log; read, list, send, kill, resume |
| `ClaimRun` | `build_claims.py`, the binding of `claims_run.py` | what a build writes and in which order, what `bind` accepts |
| `ClaimFunding` | `approve_claims.py`, and the order of the four | the directory, the Safe, grants, packages; build, publish, bind, prepare, sign, execute, pay |
| `RunPackages` | `package.py`, `quarantine.py` | packages at their paths, staging, superseded and quarantined ones, the record and the journal; one action per file operation |
| `ArchiveScan` | `scan-blocks.py`, `trace-internal.py`, `archive_lib.py`, the run check of `build-archive.py` | the files, the notes, the stages, the node's branch; start, read, append, note, stop, finish |
| `Activity`, `ActivityRun` | `fetch-account-activity-rpc.py`, `extend-account-activity.py`, `build-directional-activity.py`, `enrich-claim-activity.py` | pages and events as definitions; checkpoints, `.partial` files, chunks, kills and rewritten candidate files as steps |
| `NativeClaims` | the merge of the two shards' states, receipts and stakes | the claim ledger as a function of the chain |
| `WoneOverlay`, `WoneVerify` | the overlay of the wrapped coin, `verify-wone-allocation.py` with its cache | functions of files; what each refuses |
| `StagePolicy` | exclusions, eligibility, stages, vault shares and their verifiers | functions of files |
| `ExchangeWallets`, `ExchangeAccounting` | `normalize-exchange-wallets.py`, the accounting, the native policy, the transfers | the eight submission formats; routes and deliveries |
| `RoutingInputs` | the route builders | generated route files |
| `Routing` | `apply-routes.py` | a function from the inputs to rows and reports |
| `InitialStage` | `materialize-initial-stage.py` | a function from policy, shares and exceptions to the plan |
| `RoutingRun` | the two programs over their files | inputs, outputs, summary, plan; one action per file written, edits, kills |
| `Pipeline`, `LedgerRun` | the programs in the order of `docs/reproduce.md`, `verify_cutoff_amounts.py` among them, and an operator who runs them | one record of files; a program is the writes it makes, in order; edits, kills, `.partial` files and their removal, runs out of turn, omissions |

`MC*` modules give the constants their values where a `.cfg` cannot. `*Proofs` modules hold the theorems.

### How they are composed

* `AirdropRun` and `AirdropReports` add the operator and the reports to the contract. `RunDirectory`
  comes before it in the run `airdrop_contract`: directories are built, copied and checked until the
  contract is in use.
* `DirectPayment` proposes into `SafeQueue`; each of its steps leaves the Safe alone or is an
  action of `SafeQueue`, with a transaction that was built or a sheet of a payment.
* `VaultRun` drives the vaults it extends. Its last phase (`open`) lets anybody call the funded vaults
  in any order.
* `ClaimFunding` puts escrow releases, claim runs, approvals and the contract one after the other
  ("release", "build", "approve", "claims"). The four have one operator order and share no variable:
  what a stage is done with returns to its first value, and the contract of the last stage has a list
  of its own. What crosses from one to the next is therefore not checked, with two exceptions: the
  published run is what approvals are prepared from, and the approvals of the last stage are the
  manifest's function of its list.
* `RoutingRun` runs `Routing` and `InitialStage` over shared files. `InitialStage` has to infer, from
  what `Routing` chose to write down, what `Routing` computed.
* `LedgerRun` runs the whole chain of programs over the same files, from the shards' states to the
  release, and ends with the independent recomputation of `verify_cutoff_amounts.py`.

### The refinement

`CommittedBatchAirdrop` instantiates `AtomicAirdrop` with the contract's variables: between transactions
the abstract balances are the token's, and while an `execute()` runs they are those it started from,
since it may still revert. `ExecuteIsAtomic` is the abstract specification as a property of the run
`airdrop_contract`: beginning, paying a row and reverting are stuttering steps, and the end of
`execute()` sends the batch as a whole. TLC checks it on that run, and `ImplementsAtomicAirdrop`
proves it for every list.

### What each model leaves out

* **Airdrop.** Events. A Merkle proof is accepted exactly for the published batch of its index;
  the tree in `RunDirectory` justifies this. The branch of the rehearsal that deploys a
  contract of its own, the command-line wrapper, explorers and the local demo. Of a run directory, a
  file's hash is its contents; blank rows, quoting and column names of lists are left out.
* **Direct payments.** The service's list is read in one piece (pages are not modelled); its execution
  flags are at least as fresh as the nonce read before it. A call that is not a plain transfer pays
  nobody. Owners sign a payment only after `RESULT: PASS`. Packing, hashing and decoding, `show`, `diff`.
* **Vaults.** `Part` stands for the packing by gas. Credits are read in one step; anybody may deploy a
  vault, through the public deployer, but nobody except the Safe deposits during the funding; no foreign proposals compete for the Safe's nonces. `Sequential` is the operator's
  discipline to build only when no other run has a deposit left to make; `Rest` is what a delegator
  who withdraws leaves behind.
* **BridgeClaims.** Tokens have no recipient hooks and no transfer fees. Gas is a step that may
  revert. The Merkle proof is the fact that a row is on the list.
* **Escrow releases.** Only listed files are started, by one process at a time; the signers' sheets;
  owner setup and the transfer of ONE are one transaction of the Safe. A plan that was read before
  another release started cannot be finished and has to be planned again.
* **Claim runs and approvals.** Trees, samples and reports; drafts, the signing sheet,
  the check of a release plan against a run, and binding again after approvals.
* **RunPackages.** Symlink checks, hashes, legacy files, `--include`; `--replace` is always
  allowed; a rename is atomic and durable; loops take their targets in any order; several leftover
  staging directories of a target count as one.
* **ArchiveScan.** One row per block and file; a task is read on one branch; one process at a time;
  `--expect` pins and block lists; what a damaged line reads as.
* **Activity.** Batching and retries of the RPC client; the `.partial` of a scan's summary; a history
  does not change while it is scanned.
* **Ledger and exchanges.** Parsing, address spellings, spreadsheets and signature arithmetic; prices
  and renderings; statistics and reports; a displayed total is the exact one (the code allows for its
  rounding). Of the verifiers, the counts and sums per kind of row, the priority of the leftover
  route, and the paths that summaries list. A summary that names a file by its hash holds its content.
  A program that refuses to overwrite is run after its old outputs were moved aside.
* **Routing.** Parsing and addresses; the readiness of later stages. `--replace` is given and one
  program runs at a time. A route's number stands for the destination it resolves to.

## Runs

Twelve runs; two of them show a disagreement between the code and its own documentation. A run that
composes several components asks their questions over one state space.

| Run | Question | Properties | States |
|---|---|---|---|
| `airdrop_contract` | run directories built, rebuilt, copied and deployed in any order; then any interleaving of submissions (wrong ones too), administration, approvals and transfers | `PaidExactlyOnce`, `ApprovalCapsSpending`, `ReportsAreSound`, `VerifiedCopyIsWhatIsPaid`, `ProofsAdmitExactlyTheList`, `ExecuteIsAtomic` | 258,112 |
| `airdrop_run` | two wallets run the script at once, with an interruption or a lost transaction | `RecipientsPaidExactly`, `RehearsalPredictsExecution`, `EverythingIsSent` | 68,740 |
| `safe_queue` | a list paid in rounds; two reviewers and overlapping payments | `NobodyPaidTwice`, `SheetPaidExactly`, `SelectionUsesTheBudget` | 307,554 |
| `vault_run` | builds one after the other, with and without an RPC, vaults deployed by others, rejected transactions, a reserve that runs out, withdrawals; then the vaults in use, with totals that overflow | `NeverCreditedTwice`, `ReconcileOkMeansDone`, `ReserveAccounted`, `RebuildCompletes` | 854,463 |
| `vault_funded_early` | a funding transaction before its vaults exist (violation) | `NothingStaysApproved` | |
| `bridge_claims` | releases interrupted and resumed; claim runs built over one another; approvals while money moves; nested claims, refusals, sweeps, revocations | `PaysEachRowOnce`, `HoldsOnlyMistakes`, `FunderPaysTheMarkedRows`, `EveryRowIsPaid`, `ReleaseRestores`, `FundingIsSound` | 450,039 |
| `packages` | refresh and quarantine with errors and kills anywhere | `CurrentIsTheLastBuild`, `NothingIsDeleted`, `ListedAsAWhole`, `RecoverCanFinish`, `QuarantineEnds` | 1,138,830 |
| `packages_failed_listed` | the write that lists the new packages fails (violation) | `FailureUnlists` | |
| `archive` | scans stopped, torn and resumed over a chain that changes | `ScanIsComplete`, `OneChain`, `TraceIsComplete`, `RunGetsDone` | 405,872 |
| `routing` | every small set of routes; edits and kills between writes | `RoutesClose`, `PlanIsTheRouting` | 453,546 |
| `activity` | two shards scanned in chunks, killed at any step, the candidate file rewritten meanwhile | `EnrichedIsLatest`, `ActivityGetsKnown` | 80,166 |
| `ledger` | the pipeline from the shards' states to the release, with a change of what is given, a kill between two files or while one is written, a program run out of turn or left out | `EveryCoinHasOnePlace`, `PlanPaysWhatWasOwned`, `ExchangesArePaidApart`, `VerdictNeedsNoCache`, `OnePassRepairs` | 120,337 |

### Bounds, and why they are enough

* `airdrop_contract`: three batches over bitmap words of two bits, so that a word boundary is
  crossed; a batch of two rows, so that the second can fail after the first was paid; submissions
  under a wrong index, with wrong amounts, with a missing amount, empty, and past the end; approvals
  of nothing, too little, enough and the unlimited value. `ProofsAdmitExactlyTheList` takes every list of up to five
  batches over two contents: five leaves carry an unpaired node up through two levels. Run
  directories: three recipients in batches of one or two, the same list with another amount, and a
  batch size that is refused; two builds, so that a copy can mix files of both.
* `airdrop_run`: two batches, two wallets, one fault. The slot lets two transactions for one batch
  be in flight from one wallet, which is what a rerun after giving up produces.
* `safe_queue`: one past and two new proposals over two nonces, so that rivals meet at a nonce and
  overlapping payments queue one behind the other; two rounds, so that a recipient of the first can be
  selected again when the operator forgets to pass it; four selections, in which the next recipient
  does not fit, one is on hold, or one is required; contents that are unreadable, mixed or pay
  somebody twice. Proposals and reviewers are symmetric.
* `vault_run`: two vaults, one below the minimum, deposits of one vault in two transactions, two runs,
  a reserve that covers exactly the deposits that reach the minimum; the largest amount is 3, so that
  sums overflow. The constraint `Bound` leaves out only that a transaction is rejected which could be
  executed, after a build was told not to look at the chain (`careful` is false from then on and the
  properties about funding say nothing).
* `bridge_claims`: one escrow of a key holder and one of a Safe, two plans, one setback, so that a plan
  can be older than what it is followed by. Four allocations (with and without a funder of its own,
  another amount, another bytecode) and two builds over one directory. Three transactions of the Safe,
  one signed at a time, one or two units of an asset. In the contract, two native rows and one row of
  the wrapped coin over one approval that is exactly their sum; calls nest twice; one unit sent by
  mistake. `MaxBatch` bounds what others submit; the relayer's batch is the whole list.
* `packages`: two packages and three refreshes: one to supersede, one to fail, one to follow.
* `archive`: five blocks in tasks of two (the last one short), the fork inside the first task, three
  stops, one torn line.
* `routing`: a wallet with two unequal vault positions and wrapped coin, the owner of a vault, the
  wrapped coin's contract, a wallet below the threshold; every pair of eight routes of the wallet
  (fixed, all, liquid; wallet first, wallet only, vault only; ready, held, not issued, exchange), one
  replaced input and one kill.
* `activity`: three addresses in chunks of two; pages of two, of which two are asked for, over
  histories with a page of stale entries, an entry after the cutoff, and more entries than the pages
  hold; one kill and one rewritten candidate file.
* `ledger`: eleven addresses that are each a case of the policy (a contract, the wrapped coin, the
  bridge collateral, a validator, wallets of two exchanges, holders of wrapped coin only, one below
  the threshold); three sets of submissions; two faults, at most one of them a change. Its properties are
  stated for a plan that may be released (`Releasable`: every program got to its end and the reports
  say "ready"). Two programs run out of turn can leave an accepted chain whose report says "hold",
  which nobody releases. Wrapped coin stays in reserve, see the observations.

Deadlock is not checked where an operator may always stop: the routing, vault, Safe, package, archive
and activity runs.

### Fairness

* `airdrop_run`: whoever runs the script runs it again and it goes on; sent transactions are mined or
  given up. `EverythingIsSent` asks nothing of the admin or the reserve and holds once the contract
  stays usable.
* `bridge_claims` (all of it in the last stage): the contract's code runs on and a receiving account's
  code ends, because both run on the gas of one transaction; the funder approves; a relayer keeps
  sending the whole list; setbacks (refusing tokens, revocations) end. Others may always come first,
  hence strong fairness.
* `packages`: somebody runs `--recover` until it is through; kills and errors end.
* `archive`: attempts are repeated; traces do not fail for ever.
* `activity`: the operator runs the next program of the documented chain again and again.

That a vault run and the pipeline get done is stated without fairness: `RebuildCompletes` says that a
rebuild is never refused, plans exactly what is missing in the vaults that exist or reach the minimum,
and completes every vault that was begun; `OnePassRepairs` says that after a refusal one more pass is
accepted. A pass that stops at a `.partial` file is not counted: no program removes one, the operator
does (`CleanUp`), at any time or never.

## Proofs

Seven modules prove their component's results for every value of the constants, from `Init`, `Next`
and the named assumptions on constants; an eighth, `FunctionSums`, holds the lemmas about sums
and finite sets that four of them need. None of the properties is inductive as it stands: each module has an inductive invariant, with
one lemma per action. TLC checks the invariants on the instances of the runs first.

| Module | Theorems | Property of a run |
|---|---|---|
| `CommittedBatchAirdropProofs` | `PaysEachRowOnce`, `ApprovalIsACap`, `ReportsCanBeTrusted`, `ImplementsAtomicAirdrop`, `PaysRecipientsExactly`, `RehearsalsPredict`; also `CountsTheBitmap`, `SendsOnlyPublishedRows`, `RunsImplementAtomicAirdrop`, `TypesHold` | `PaidExactlyOnce`, `ApprovalCapsSpending`, `ReportsAreSound`, `ExecuteIsAtomic`, `RecipientsPaidExactly`, `RehearsalPredictsExecution` |
| `SafeQueueProofs` | `RoundsNeverPayTwice`, `RoundsPayTheSheetOnce` (for `SafeQueue` alone: `NeverPaysTwice`, `PaysTheSheetOnce`); also `TypesHold` | `NobodyPaidTwice`, `SheetPaidExactly` |
| `VaultRunProofs` | `ReserveIsAccounted`, `NobodyIsCreditedTwice`, `ReconciledRunsAreDone`, `RebuildsComplete` | `ReserveAccounted`, `NeverCreditedTwice`, `ReconcileOkMeansDone`, `RebuildCompletes` |
| `BridgeClaimsProofs` | `RowsPaidOnce`, `NothingHeld`, `FunderPays`; also `TypesHold` | `PaysEachRowOnce`, `HoldsOnlyMistakes`, `FunderPaysTheMarkedRows` |
| `RunPackagesProofs` | `OnlyTheLastBuildVerifies`, `PackagesAreKept`, `RefreshesListAsAWhole`, `QuarantineIsRecoverable` | `CurrentIsTheLastBuild`, `NothingIsDeleted`, `ListedAsAWhole`, `RecoverCanFinish` |
| `ArchiveScanProofs` | `CompleteScans`, `ScansOfOneChain`, `CompleteTraces` | `ScanIsComplete`, `OneChain`, `TraceIsComplete` |
| `ActivityRunProofs` | `ActivityIsTheLatest` | `EnrichedIsLatest` |

### The arguments

**The airdrop.** The properties speak of the time between two transactions. The inductive invariant
adds what holds after each row of a running `execute()`: the batch is the published one, its bit is
the only new one, exactly its rows before the position are paid, and the storage a revert would
restore is itself settled. The lemmas under it: no two indexes share a bit (`WordBitInjective`),
setting a bit marks one batch (`MarkOne`), a covered transfer keeps balances natural (`MovedType`).
The refinement and the runs of the scripts add what each account holds: the sum of its rows in the
marked batches, and while a batch runs the rows before the position as well. Every step of
`execute()` but the last is then a stutter of `AtomicAirdrop`, and the last sends one batch. The
rehearsal's balance covers the list, and the batches the script goes through are a part of the list,
each taken once, so that no prefix of them costs more.

**The Safe's queue.** Of two reviews, the one that read its list later saw everything the earlier one
saw, so it knew both payments, and it passes only if the other can no longer execute. "Can no longer"
rests on the order of the two reads: the nonce is read first, so a listed, unexecuted proposal below
it was overtaken for good. The invariant states that lists are ordered, that what a review remembers
is still so, and that whatever was approved without being on a review's list is compatible with it.
Nothing in it depends on what is proposed or on which sheets are compared, so it also holds of the
payment rounds: a paid file that the operator forgets leads to a review that fails.

**The vaults.** What has left the Safe is what the delegators were credited with, whatever is called
in whatever order (`AccountInv`): one summand changes at a time, or a batch is spread over the
delegators. The three results about funding have two hypotheses, which the theorems state.
`Sequential`: a build starts only when no other run has a deposit left to make (see the vault's entry under what
each model leaves out). `Rest > 0`: a delegator who withdraws leaves something behind, because `build`
looks at the credit in the vault and not at the history. `FundingInv` says that what a build has read
is still so when it writes its plan, and that what it planned is still due when it is executed.

**The bridge claims.** A refusal goes back to the world saved before the send, a revert to the world
at the start of the call. So the invariant speaks of every world on the stack: a start world is at
rest, and a saved world is settled but for the row in flight, whose coin the contract holds. What the
funder has paid of an asset is, in each of these worlds, the sum of the marked rows and of the row in
flight.

**The packages.** The invariant adds what every operation relies on: generations only grow, an
operation's copy of the record lists nothing the last refresh of a path did not build, where its
loops have got to, and, as long as no write went wrong in a place the handlers do not expect, that
the copy agrees with the record on disk.

**The archive.** A task is noted only after its rows are in the files, and rows are never lost. Tasks
whose ends link by hash lie on one branch: otherwise take the least task that is on another one.

**The activity.** Two parts. As a function: the history is read newest first, so the first page with
an activity has the latest, and the latest of the latest of each source is the latest of all
(`SourceIsLatest`, `ScanIsLatest`, `NewestOfThree`). As files: whatever was killed, joined, or kept
from an earlier candidate file, each row of a checkpoint, of an output and of the running scan is the
answer for its address.

### What the proofs rest on

The assumptions are the `ASSUME`s of the modules, which TLC evaluates on the runs. The ones that say
something about the world: published batches are non-empty and have as many amounts as recipients;
the list's total fits in 256 bits; claim rows have positive amounts; the Safe is not on its own list
of delegators, and the sets of holders and addresses a sum runs over are finite; a node lists a
history newest first (`WorldsAssumption`).

Theorems are about the specification of the component, or of the scripts' run (`RunSpec`) for
`PaysRecipientsExactly`, `RehearsalsPredict` and `RunsImplementAtomicAirdrop`, and of the payment
rounds (`PaymentSpec`) for `RoundsNeverPayTwice` and `RoundsPayTheSheetOnce`. The runs
`airdrop_contract` and `bridge_claims` compose more around the contracts (`DeployedSpec`,
`FundedSpec`) and check the same properties there.

Induction over data is done by hand where it was needed. The library's induction theorems take an
operator and cannot be used; what a property says of a finite set is proved instead from
`SubsetInduction` (a set of subsets that holds the empty set and grows by elements holds the whole
set), and what it says of numbers from the least counterexample. That covers sums over sets, the
latest of a set of events, the k-th least of a set of numbers, and chains of tasks.

### What is only model-checked

* All liveness (`EverythingIsSent`, `EveryRowIsPaid`, `QuarantineEnds`, `RunGetsDone`,
  `ActivityGetsKnown`): fairness and `ENABLED` are out of the prover's reach.
* What rests on folds or filters of sequences and on operators passed as arguments, for which there
  are no usable facts: the selection, the tree and its proofs, the routing's and the
  ledger's totals (`SelectionUsesTheBudget`,
  `VerifiedCopyIsWhatIsPaid`, `ProofsAdmitExactlyTheList`, `RoutesClose`, `PlanIsTheRouting`,
  `EveryCoinHasOnePlace`, `PlanPaysWhatWasOwned`, `ExchangesArePaidApart`, `VerdictNeedsNoCache`,
  `OnePassRepairs`).
* The release of escrowed tokens and the funding of the claims contract (`ReleaseRestores`,
  `FundingIsSound`), whose invariants range over the files of several programs at once.

## Findings

* `vault_funded_early`: `vault_batch.py:576` says a funding transaction reverts unless its vaults
  exist. Its calls go through `MultiSendCallOnly`, where a call to an address without code succeeds:
  the approval takes effect, nothing is deposited, nothing is lost (`ReserveAccounted` still holds),
  and a later build deposits it.
* `packages_failed_listed`: `package.py:19-20` says a refresh that fails leaves none of its targets
  listed. When the write that lists them raises, the copy in memory already names them, and
  `fail_closed` writes that copy.

Observations met while modelling, in the code as it is:

* An error after the rename of the quarantine's record is handled as if the record had not been
  written: the journal is removed and `--recover` has nothing to work from (`quarantine.py:143`).
  `RecoverCanFinish` therefore excludes that error.
* `apply-routes` replaces its outputs before its last checks, and its summary binds the stage policy
  as it is on disk at the end; `materialize-initial-stage` does not bind the shares it reads to the
  routing. Both routing properties are stated for a plan made from what the routing read (`Bound`).
* A killed write leaves a `.partial` file that stops its program until somebody removes it; the
  programs of the pipeline too, and `filter-claims-by-one.py` and `format-all-claims.py` leave one
  when they refuse a row. Those that look for it only when they come to write
  (`normalize-exchange-wallets.py:173`) have by then replaced their earlier files.
* With nothing of the wrapped coin left in reserve `build-wone-routes.py:123` writes no retained
  route, while the verifier asks for exactly one and refuses. The ledgers of the run keep a reserve.
* `verify_cutoff_amounts.py` takes deductions from the wallet part only, so a wallet from which more is
  withheld fails it by design. `PlanPaysWhatWasOwned` applies it to the others.
* `approve_claims.py:547` counts all of the Safe's coin as funds, and the batch wraps no more than the
  native rows pay: rows of the wrapped coin beside them can be left short. With `--no-wrap` ("the Safe
  already holds the wrapped coin", line 113) it wraps nothing and the check is the same, so a Safe
  that holds only coin passes it. `FundingIsSound` says what a prepared package does guarantee: with
  the coin there is enough, and where the batch wraps, no more than the native rows' amount is short.
* After part of a list was claimed and the approval revoked, preparing it again asks for the full
  total once more.
* A resumed scan keeps the rows of blocks the node has abandoned, beside those of the new chain; a
  row appended to a torn line is glued to it (`archive_lib.py:499-502`). `ScanIsComplete` and
  `OneChain` say what remains true.
* `docs/tx-archive.md:52` calls the first three stages resumable; `attribute-receipts.py` has no
  `--resume`.
* A credit that was withdrawn in full counts as not funded for a later build (`vault_batch.py:793`).
* The rehearsal prints what the reserve paid and does not compare it (`Simulate.s.sol:94`).
* `verify` of the packages takes no lock (`package.py:376`).

## Not modelled

* Trie walks and index scans over a node's database (`toolkit/cmd`, `toolkit/internal`): their rows
  are inputs of `NativeClaims` and `Activity`; the database is out of reach.
* Address recovery: searches in which every candidate is accepted by a hash equality.
* Token-holder replays and cross-shard receipts: one pass over logs or a database with retries; the
  results are inputs of `WoneOverlay` and `NativeClaims`.
* Merging of archive runs, receipts, calldata, imports: single passes over finished files.
* Bridge allocations, reviewed inventories, contract review: arithmetic and classification over
  reviewed data, which enter as inputs of `ClaimRun` and `RoutingInputs`.
* Forensic exports, embargo and packaging scripts, cutoff census, historical snapshots and programs
  no later program reads: records without control.

`PROJECT.json` lists each of them with its sources.
