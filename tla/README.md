# A verification development of SieveWorks

SieveWorks distributes deterministic searches and training runs over untrusted workers and pays
them, chunk by chunk, for work it has verified. This directory holds TLA+ modules of the parts of
the system that decide who may work on what, what counts as done, who loses a bond and who is
paid, the TLC configurations that check them, and TLAPS proofs of the results that do not depend
on the size of an instance. Every definition names in `PROJECT.json` (`map`) the source lines it
was read from.

## 1. The system

| Component | State | Operations |
|---|---|---|
| Coordinator: chunk lifecycle (`routes.ts`, `verification.ts`, `sweeper.ts`, `leases.ts`) | `jobs`, `chunks`, `results`, `challenges`, `chunk_outputs`, `result_rejections` | lease, submit, verify, challenge, judge, deliver outputs, accept or reject, sweep (expire challenges, deliveries and leases), complete the job |
| Coordinator: settlement (`routes.ts`, `chain.ts`) | `earnings`, the signed vouchers | report a funded escrow, credit, voucher, co-sign a claim, write the books, close-funding |
| Anchor program: escrow (`programs/sieveworks/src/lib.rs`) | `JobEscrow`, `Earnings` accounts | `initialize_job`, `claim`, `close_job` |
| Anchor program: lineages | `TrainingLineage`, `ChunkAssertion` accounts | `init_lineage`, `assert_chunk`, `confirm_chunk`, `reject_chunk` |
| Coordinator: training confirmation (`verification.ts`, behind `TRAINING_FRAUD_PROOF`) | `lineages`, chunks `awaiting_confirm`, delivered states | deliver a state, assert, park, replay, confirm or reject, finalize, slow-lane re-audit |
| Stakes (`lib.rs`, `routes.ts`, `chain.ts`) | `WorkerStake` accounts | stake, unstake, slash, the gates on lease, submit and unstake |
| Prize jobs (`candidates.ts`) | `candidates`, the job's winner | submit, evaluate, finalize at the deadline |
| Finds (`lib.rs`, `chain.ts`) | `FindRecord` accounts, records | attest a find after acceptance |
| Sign-in (`auth.ts`) | nonces, sessions | issue, complete |
| Verification threads (`bucketPool.ts`, `verifyThread.ts`) | queued requests of worker threads | dispatch, timeout, restart |
| Job creation (`jobs.ts`) | job and chunk rows | plan chunks, insert honeypots, open |
| Worker clients (`apps/web/lib/worker`, `apps/cli`, `apps/desktop`) | the chunk at hand | lease, compute, submit, respond, deliver |
| Pure packages (`packages/merkle`, `protocol`, `chain`, `wasm-runtime`, `worker-core`) | none | commitments, encodings, instruction building, the deterministic modules |
| Requester's pages (`apps/web/app/bounties`), session (`web/lib/auth.tsx`) | the post or funding at hand, the stored session | create, fund, report, reclaim, sign in and out |
| Module registry and conformance gate (`conformance.ts`, `conformanceThread.ts`, `moduleRegistry.ts`, `wasm-runtime`) | the modules' rows, two caches | upload, gate, load, call |
| Other pages, events, notifications, payment rail | no protocol state of their own | presentation and configuration |

**How they interact.** A worker calls the coordinator over HTTP. A handler is a sequence of SQL
statements, each a transaction of its own except the lease; between two statements other handlers,
and the sweeper's tick, run. Nothing ties the statements of a handler together, so it may also end
between any two of them: an exception, a verification thread that times out, a restart. Money and
training lineages live on chain: the coordinator co-signs transactions that land later, fail, or
are never included, and reads accounts back.

**What is hard.** Interleaved handlers and ticks over the same row; duplicate and late requests;
a failure between two statements; the time between a check and the update that relies on it;
on-chain calls whose outcome the coordinator learns late or not at all; queues of one; and
liveness that rests on a sweep selecting the right rows. `PROJECT.json` (`hazards`) lists each at
the line where it bites.

**What makes each component correct.**

- *Chunk lifecycle*: one holder at a time; done is done; nothing is paid twice, unverified or
  undelivered; only work shown to be unsound, or an unanswered challenge the worker knew of, costs
  a bond; every chunk handed out comes back or is done.
- *Settlement and escrow*: payments never exceed credits or the budget; a replayed voucher pays
  nothing; an open escrow covers what is credited; lamports are conserved; a reclaim strands nobody.
- *Lineage chain*: the head grows by whole, contiguous chunks from the origin, each over an
  assertion made on that head whose window has passed.
- *Training confirmation*: what is confirmed is what the module computes; payment follows the
  confirmation; database and chain agree; our own failure slashes nobody; what is parked gets a verdict.
- *Stakes*: a bond cannot leave while work it backs can still be judged, but by the ways the gate
  leaves open; work is paid once, as long as one wallet claims it.
- *Prizes*: the best verified entry made in time wins, its prize stays in the escrow until claimed,
  and a funded bounty is decided. *Threads*: each request gets its own answer or an error, and the
  count behind the cap of the queue survives every way an evaluation can end.
- *Worker clients*: what is signed for a chunk is that chunk's work; an honest client loses no bond
  and leaves no chunk behind. *Commitments*: every client folds a chunk as the coordinator
  recomputes it, and a proof opens to the committed leaf only.
- *Posting*: a wallet pays what the coordinator will ask for; a funded job opens; a job closes after
  its whole space and stays closed. *Sign-in*: the page's session is the connected wallet's.
  *Chain client*: each instruction is the one the program takes. *Protocol*: a signature binds every
  field the coordinator relies on, and what one side writes the other reads as it was meant.
  *Modules*: what the conformance gate admits can serve every bounty it may be posted for and answers
  a second chunk like the first, as far as one draw of probes can tell; verification runs the
  artifact the job pins.

## 2. Modules

| Module | What it is |
|---|---|
| `ChunkLifecycle` | The coordinator over the chunks of one job. A `Handlers` process is an HTTP request in progress, `Sweeper` the tick. Each action is one statement, or a run of code up to the next `await` that touches the database. |
| `ChunkBoard` | What a requester is promised: open, held, done or dropped chunks, each paid at most once, and a job that closes only when nothing is left. |
| `JobEscrow` | The escrow program of one job: atomic transactions, u64 amounts up to `MaxU64`. |
| `Settlement` | Extends `JobEscrow` with the coordinator's ledger, the claim requests (`Requests`), co-signed transactions on their way, and close-funding. |
| `LineageAnchor` | The lineage part of the program over a moving `slot`. |
| `TrainingConfirm` | Extends `LineageAnchor` with one lineage's chunks, results, deliveries and the confirm-or-reject sweep. |
| `WorkerClient` | Seven honest clients (the page with its threads for each kind of job, the desktop, three command-line loops) and the coordinator as they see it. |
| `Commitment` | The folds of a chunk by the page and the native core, and the Merkle tree with its proofs: pure operators over all small inputs. |
| `BucketPool` | The main thread's side of a verification thread: numbers, timers, termination and replacement. |
| `Prize` | Extends `BucketPool` with the submissions of one prize bounty, the sweep that decides it, the claim and the reclaim. |
| `WorkerBond` | The stake account, the three gates that read it, the slash, and the payout wallet that ties keys to bonds and claims. |
| `SignIn` | A page's `signIn()` calls and the coordinator's nonces. |
| `JobPlan` | The arithmetic of a bounty on both sides: the form's and `createJob`'s. |
| `Posting` | Extends `SignIn` and `JobPlan`: a bounty from the form to its last chunk. |
| `WireLayout` | Accounts, arguments, rights, byte offsets and address seeds of every instruction, as the program has them and as the client builds them. |
| `ConformanceGate` | What a worker module must show to be registered, what the guards of job creation ask, and what verification later calls. |
| `ModuleRegistry` | The registry's two caches over the rows of modules: seeding, restarts, rewritten rows, and what a call does with a module's memory. |
| `BountyModules` | Extends `Posting`, `ConformanceGate` and `ModuleRegistry`: what bounties may rely on of the modules they are posted for. |
| `Protocol` | Canonical JSON, decimal texts, what is signed and verified, the schemas' rules, a digest in a leaf's two fields. |
| `Sums` | Lemmas about sums over finite sets, which the proofs of payments share, and about loops and folds over numbers. |
| `MC...` | Symmetry, forms and finite sets of states for TLC; they also join the pure modules to a system of the same run. |
| `...Proofs` | Theorems of the module named. |

`MCWorkerClient` extends `WorkerClient` and `Commitment`, `MCPosting` extends `BountyModules`,
`WireLayout` and `Protocol`. `ChunkLifecycle` instantiates `ChunkBoard`
(`Board`), `TrainingConfirm` extends `LineageAnchor` and `Settlement` extends `JobEscrow`, so that
the smaller specification can be compared with the larger one. The pure modules have no state, so
what they claim over their bounded inputs is an invariant evaluated in the initial states
(`FoldsAgree`, `TreeBinds`, `WiresAgree`, `GateSound`).

### Correspondence with the code

`ChunkLifecycle`: `chunk`, `result`, `challenge`, `rejection`, `delivered`, `credits`, `job` are the
tables. `pc`, `rid`, `who`, `todo` are the control state of the requests and of the sweeper's loops
(`rid` is the row a handler read and keeps using after other handlers ran). `elapsed` says which
rows are older than their window: clocks advance by `LeaseExpires` and `WindowElapses` and never
run back. `told`, `late`, `everPassed`, `slashSent`, `superseded` (results from before the latest
lease of their chunk) and `overlapped` are history: two activities overlap when one takes up a chunk
(a delivery or response that passes its check, a row a sweep selects, a reclaim) that another process
is still busy with. The lease is one transaction with
`for update skip locked`, hence one action (`LeaseTx`). A submission is `StartSubmit`,
`InsertResult`, `MarkSubmitted`, then by the checks either rejection (`FailResult`,
`RecordRejection`, `RepoolAndSlash`), a challenge (`IssueChallenge`, `MarkChallenged`,
`MarkVerifying`), or acceptance (`PassResult`, `AwaitOutputs` or `AcceptChunk`, `CreditEarnings`,
`CountRemaining`, `CloseJob`). A sweep is `Select...` followed by a turn for each selected row. The
data a verdict is computed from is one bit, `good`: an honest result can fail only when the checks
themselves fail (`ChecksMayFail`), an unsound one may pass sampling. The mapping to `ChunkBoard`
reads the tables: `StatusOf` a chunk from its state, what was paid for it from the prices credited
for its results (`Payments`), the job from its status.

`Settlement`: `books` are the earnings rows. A claim is "signed" (voucher given out), "sent"
(co-signed, the request waits), "adrift" (the request is gone, the transaction is not), "settled"
(confirmed, books to write). `Land`, `LandFailed`, `Drop` and `GiveUp` are what can become of it.
A chunk may also be quarantined (`DropChunk`), which is terminal too: the job closes when what is
not accepted is dropped (`CompleteJob`). `Init` is a created job without an escrow; the funder opens
one with any budget (`Fund`), and may do so again after a reclaim.

`LineageAnchor`: `lineage`, `assertion` (by first generation, as the account address is), `slot`.
Accounts closed by a confirm or a reject are gone, so an address can be used again.

`TrainingConfirm`: a state of the lineage is a sequence of bits, one for each chunk computed
properly or not, so a replay is a comparison with `AdvanceState`. `AssertTx` includes the
fall-through to finalization when the call fails. `FetchAssertion` to `Repool` are the sweep.

`WorkerClient`: a loop is a call of `start()` or a process; `pc` says at which `await` it is, and
the tables `WebNext`, `DesktopNext`, `CliNext`, `RenderNext`, `TrainNext` where each client goes on
after each answer. What the web engine shares between loops is state of its own: `running`,
`status`, the `workers` array with holes (`Present`, `Length`), and each thread's queue and single
`onmessage` handler, which `FanOut` overwrites and `ThreadAnswers` runs with whatever task comes
back. `leaves` is what the handlers have gathered, `commit` what was under the root when it was
signed. A call fails either before or after the coordinator acted on it (`Verdict`).

`Commitment`: seeds are `W` bits wide; hashes are terms, so distinct terms are distinct hashes. The
native core's loop ends by the comparison it is written with, wrap-around included (`NativeEnd`).

`BucketPool`, `Prize`: `pending` is the map from numbers to promises, `thread` each spawned thread.
A restart awaits the end of the thread and then settles everything pending, also what was posted
since; all continuations that await one thread run back to back (`Respawn`). `Prize.sub` is the
control state of each POST, `sweep` that of `finalizePrizes`, `reports` the funding calls between
what they read and their update (`CheckFunding`, `Funded`), which opens the job by its id alone;
`Restart` ends them all and keeps the rows.

`WorkerBond`: a worker key is a wallet too. Its request stores the payout wallet it brings, or none,
reads a bond, and acts, in three steps (`LeaseUser`, `LeaseGate`, `LeaseGrant`; `SubmitRead`,
`SubmitGate`, `SubmitInsert`): a lease reads the bond of the wallet it brings or else of the key, a
submission that of the stored wallet or else of the key (`Staker`). Results are rows of their own, so
`SubmitInsert` writes one and marks the chunk by id whatever has become of the lease. Withdrawals and
claims are for the rows a wallet speaks for: its own, and those that name it (`Owns`). A withdrawal
is counted (`CountWork`) before its transaction lands or not (`Unstake`). Bonds are in units of the
required stake, earnings in units of the price.

`SignIn`, `Posting`: `attempt` is where each `signIn()` awaits; `post` is the page's `post()` or
`fund()` with the session, wallet and amounts it captured at the click. The coordinator writes the
job's row (`CreateJob`) and then its chunks batch by batch (`InsertRows`), and `CreateFails` ends
that at any point. `calls` are reports of a funding between their two awaits.

`ConformanceGate`: `out[p][i]` is a module's answer to call `i` after call `p` (0: a fresh
instance), which is as much memory between calls as the suites could notice. `draw` is the one draw
of probes that an upload makes, with replacement; only the first probe meets a fresh instance.
`ModuleRegistry`: an artifact is named by its hash, and its histories are up to three events (a
lookup, a restart, an overwritten row). `Protocol`: JSON values over a few scalars, texts of
`BITS`-bit numbers, signatures as terms.

### The plan

Done: `ChunkLifecycle`, `ChunkBoard`; `JobEscrow`, `Settlement`; `LineageAnchor`, `TrainingConfirm`;
`WorkerClient`, `Commitment`; `BucketPool`, `Prize`; `WorkerBond`; `SignIn`, `JobPlan`, `Posting`;
`WireLayout`; `ConformanceGate`, `ModuleRegistry`, `Protocol`; and proofs of every safety property
that the runs check, but for `WiresAgree` (section 4). Left:

1. `RecordBook`: finds attested after acceptance and the records derived from them.
2. The transition check of `verifyTraining` as a pure operator beside `TrainingConfirm`.

## 3. Runs

All runs start from the initial states of the modules and use `CHECK_DEADLOCK FALSE`, because the
modelled systems do stop: a job closes, results or slots run out.

| Run | Bounds | Shows |
|---|---|---|
| `ChunkRaces` | 1 chunk, 2 workers, 2 results, 1 handler and the sweeper, overlapping, 1 failure, `witness_extremum` | `PaidWasVerified`: a credit rests on a result that passed; `MandatoryAudit`: an unchallenged credit goes only to a worker with earlier passes, though the count is read long before the credit; `SlashHasTranscript`: a rejection is on file for each slash even when the process dies half-way; `HonestNeverSlashed` until a failure |
| `ChunkDelivery` | 1 chunk, 2 workers, 1 result, 2 handlers and the sweeper, overlapping, 1 failure, `output_hash` | `CreditAfterDelivery` under duplicate deliveries; `AcceptedIsPaid`: accepted work is credited, until a failure; `LeaseRespected`: a running lease is ended by its holder's submission, or, once two activities have overlapped, by a process busy with a result of an earlier lease |
| `ChunkBoard` | 2 chunks, 2 workers, 2 results, 1 handler and the sweeper, 1 failure, up to the first overlap on a chunk | `KeepsPromise`: every step is a step of `ChunkBoard` or none |
| `ChunkProgress` | 2 chunks, 1 worker, no overlap on a chunk, fair | `Resolves`: what was handed out is accepted, dropped or pooled again |
| `Settlement` | 2 workers, 2 overlapping claims, 2 chunks, accepted or quarantined, budgets 0..2, two lives of the escrow | `Solvent`, `NeverOverpaid`, `VoucherCovered` |
| `StrandedEarnings` | the same with one claim and budgets up to 3 | expects a violation: section 5 |
| `TrainingConfirm` | 2 chunks, 4 results, up to 3 rejections, slots to 5, one activity on a chunk at a time, no failure, fair | `PaidAfterWindow`, `RecordsAgree`, `PaidOnce`; `Anchored` and `WindowGated` of the chain under the coordinator's own calls; `ParkedResolves` |
| `TrainingSweep` | 2 chunks, 3 results, slots to 3, the sweep at any moment of a delivery and 1 failure | `SoundNeverSlashed` always; `ChainSound`, `ClosedIsDone` until the failure |
| `WorkerClient` | 7 clients, 2 loops, 2 threads, 2 chunks, 1 failure; folds over 3-bit seeds with buckets and fan-outs up to 3; trees of up to 5 leaves | `OwnWork`, `KeepsBond`, `AbandonsNothing`, `ThreadsEnd`; `FoldsAgree`: page and native core commit to what the coordinator recomputes, or the native loop is at the end of the seed space; `TreeBinds`: proofs are accepted and no other leaf has one |
| `Prize` | 2 submissions of 2 workers that end or hang, cap 1, a thread that dies once, 1 restart, 2 reports of the funding at a time, fair | `CountExact`, `Matched`, `BestWins`, `PrizeKept`; `Settles` |
| `WorkerBond` | 1 key with its own wallet and one it names, 2 chunks, 1 result in verification at a time, cooldown 1 | `LockHolds`: a bond leaves under a result in verification only by the gaps it names; `PaidForWork`: work is paid once while one wallet claims it |
| `Posting` | 1 job, 2 wallets, 6 forms, batches of 2, 2 overlapping reports, fair; 4-bit numbers, 2 artifacts, histories of up to 3 events | `FundingFits`, `ClosedIsCovered`, `StaysClosed`, `FundedOpens`; `WiresAgree`: instructions, accounts, messages, signatures and schemas read alike on both sides; `GateSound`: what the gate admits serves, what its one draw can tell of a module, the registry runs what the job pins, a call leaves the memory as it was |

**Bounds, and why they are enough.** Two results of one chunk are what a stale read needs: the row
a process holds and the row that took its place. Two workers tell the holder from the other; two
handlers and the sweeper give every pair of overlapping activities, a duplicate and its original
included, and a third activity on the same row would repeat the role of one of them. Two chunks
are needed where a job closes or a tick selects several rows. `TrustAfter = 1` and
`QuarantineAt = 1` stand for 3 and 5: the first result is below and the second at the threshold, so
both sides of each comparison occur. `RejectCap = 3` in training is the code's `REJECT_CAP`: two
rejections re-pool a chunk and the third quarantines it, and three or four results are what it takes
to redo a chunk that often or to go on to the next. One failure suffices for each "dies half-way"
case. The escrow's `MaxU64` is just above what a budget and the rent need, so that both limits of
the arithmetic are met. Two threads
give a client an answer that comes too early and one that comes too late, two loops an old session
under a new one. Two submissions under a cap of one are one evaluation and one that overtakes it,
and two timeouts of one thread. The forms of `Posting` have chunks that fit one insert and chunks
that need two, a last chunk cut short, a price under the floor, two lineages, and a prize. Two
wallets are needed for a switch. A key that is one of them and names the other meets every case of
`Staker` and `Owns`; a second key would add work of its own and share with the first only the payout
wallet. Two chunks give its one result in verification a lease beside it, and a result whose lease
has gone while the chunk is at another lease. Two reports of a funding are one in time and one that
comes too late. Trees of up to five leaves
have odd levels at the bottom and above it. What the theorems cover is independent of all of these.

**Symmetry** is used for workers, wallets, chunks, handlers and requests in safety runs only.

**Fairness.** `FairSpec` of `ChunkLifecycle` asks that a handler that was started runs on (an event
loop runs what is ready), that the sweeper's timer keeps firing and its `Select` statements are
reached again and again (strong fairness: the overlap guard of `sweeper.ts` skips a tick, it never
stops the timer), and that clocks advance. `TrainingConfirm` is alike, with slots for clocks.
`Prize` asks that the deadline passes, that the queries of a submission return, that the 8 s timers
fire and that the sweep comes round; no thread has to answer or to end. `Posting` asks that a page
that has funded goes on to report it and that the coordinator answers the report. No run assumes
that a worker or a requester does anything.

**`MayOverlap`.** A bound of `ChunkLifecycle` and `TrainingConfirm`. Where it is FALSE a run stops
short of the steps that would take up a chunk another process is still busy with, which the code does
not prevent; `ChunkRaces`, `ChunkDelivery` and `TrainingSweep` have them. The theorems know nothing
of it: they hold with either value, and where they end at an overlap they say so by `overlapped`.

**Conditions in properties.** Some properties stop where the code gives the guarantee up; the
condition names that place, and section 5 describes what happens beyond it. `failures = 0`: until
something fails. `~overlapped` (`KeepsPromise`, and the theorems on training): until two activities
overlap on a chunk. `~crossed` (`TrainingConfirm`): until the sweep has taken up another result than
the one that was asserted. `OneSession`, `~erred` (`WorkerClient`): until the engine is started
again, until a thread's task throws. `restarts = 0`, `~reopened` (`Prize`): until the sweep is cut
between credit and close, until a late report opens a decided job again. `~moved`, `excused`,
`overtaken` (`WorkerBond`): while a key with work under way keeps its payout wallet; a challenge
already open when work was counted, or a lease granted while the withdrawal was under way; a
submission that came after its lease had gone. `claimants`: while the earnings of a key are claimed
by one wallet. `raced`, `lost`, `partial`, `doubled` (`Posting`): a wallet switched during a
sign-in, a page closed while posting, a creation cut short or funded too early, a funding reported
twice at once.

**More to ask.** The modules state some properties that no run lists; each can be added to a
configuration of its module. `TypeOK` of every module that has one, `Conserved` (`JobEscrow`) and
`TokenScoped` (`SignIn`) hold, and are proved. These do not
hold, and the counterexample is a behaviour section 5 describes: `TimedOutUnpaid` and `JobCloses`
(`ChunkLifecycle`), `SoundNeverRejected` (`TrainingConfirm`), `LostOnlyByCheating` (`WorkerClient`),
`AwardOnce` (`Prize`), `BondStays` (`WorkerBond`).

## 4. Proofs

TLAPS checks, for every number of workers, keys, wallets, chunks, results, submissions, requests,
loops, threads and failures, and for every budget, price, window and u64 limit:

| Module | Theorem | Statement |
|---|---|---|
| `SettlementProofs` | `EscrowTypeCorrect`, `EscrowSolvent`, `ReplaysPayNothing` | the escrow keeps its u64 range (`EscrowTypeOK`), holds the rent and what is left of the budget (`Solvent`), and a worker has had exactly the largest total it claimed |
| | `LamportsConserved` | `Conserved`: what was put in is in the escrow, with a worker, or back with the funder |
| | `TypeCorrect`, `PaidWithinCredit` | `TypeOK`, `NeverOverpaid` of the composed settlement |
| | `VouchersAreCovered` | `VoucherCovered` |
| | `DrivesTheEscrow`, `SettlementBalances` | the settlement implements `EscrowSpec`; hence `Conserved`, `Solvent` and the replays of all of it |
| `ChunkLifecycleProofs` | `TypeCorrect` | `TypeOK` of the lifecycle |
| | `DeliveryGatesPayment`, `VerificationGatesPayment` | `CreditAfterDelivery`; `PaidWasVerified` (in `witness_extremum` jobs) |
| | `SlashesAreOnFile`, `SoundWorkIsSafe` | `SlashHasTranscript`, `HonestNeverSlashed` |
| | `AcceptedWorkIsPaid`, `TrustIsEarned` | `AcceptedIsPaid`, `MandatoryAudit` |
| | `PromiseIsKept` | `KeepsPromise`: up to the first overlap on a chunk the lifecycle implements `ChunkBoard` |
| | `LeasesAreRespected` | `LeaseRespected`, of every behaviour, overlaps and failures included |
| `TrainingConfirmProofs` | `LineageTypeCorrect`, `AssertionsAreAnchored`, `ChainIsWindowGated` | `LineageTypeOK`, `Anchored`, `WindowGated` of the program by itself |
| | `TrainingTypeCorrect` | `TypeOK` of the confirmation |
| | `ImplementsAnchor`, `LineageIsAnchored` | coordinator and sweep implement `AnchorSpec`; hence `Anchored` and `WindowGated` of the whole, whatever overlaps and fails |
| | `TrainingPaidOnce`, `TrainingSoundNeverSlashed`, `TrainingClosedIsDone` | until two activities overlap on a chunk: `PaidOnce` and `SoundNeverSlashed` until a call fails, `ClosedIsDone` |
| | `TrainingChainSound`, `TrainingRecordsAgree`, `TrainingPaidAfterWindow` | until two activities overlap on a chunk: `ChainSound`, `RecordsAgree`, `PaidAfterWindow` |
| `PrizeProofs` | `TypeCorrect`, `AnswersMatched`, `CountIsExact` | the types; `Matched`, `CountExact` |
| | `AwardIsFair`, `PrizeIsKept` | `BestWins`, `PrizeKept` |
| `WorkerBondProofs` | `TypeCorrect`, `UnstakeLock`, `NothingPaidTwice` | the types, `LockHolds`, `PaidForWork` |
| `PostingProofs` | `TypeCorrect`, `SessionIsTheWallets` | the types; a session belongs to the wallet that signed for it |
| | `FundsAreAsked`, `ClosedMeansCovered`, `ClosedIsFinal` | `FundingFits`, `ClosedIsCovered`, `StaysClosed` |
| | `GateIsSound` | `GateSound`, for any number of probed buckets, answers, artifacts and wallets |
| `WorkerClientProofs` | `ClientTyped` | `TypeOK` of each of the seven clients |
| | `WorkIsOwn`, `ThreadsAreEnded` | `OwnWork`, `ThreadsEnd` |
| | `BondIsKept`, `NothingAbandoned` | `KeepsBond`, `AbandonsNothing` |
| | `RootBinds`, `LeavesAreBound` | under the root of a tree of any size an index opens to one leaf, with one proof; `TreeBinds` |
| | `OneCommitment` | `FoldsAgree`: the page, the native core and the coordinator agree on leaves and witness |

The assumptions are the named `ASSUME`s of the modules (bounds are natural numbers, absent values
are not members, a budget and the rent together fit in u64, the sets of workers, keys, wallets and
requests that are summed or counted over are finite, a key is an address that may sign in as a
wallet, the page has at least one thread), which TLC evaluates in the runs. No theorem restricts how
activities overlap. Some promise something only up to the first overlap on a chunk (`overlapped`), of
every behaviour: past it TLC refutes them in the ways section 5 describes. `TrainingSweep` shows for
`SoundNeverSlashed`, `ChainSound` and `ClosedIsDone` that an overlap with the sweep alone does no
harm, which the theorems, whose premise ends there, do not say.

**The arguments.**

*Sums.* Earnings, payments and dues are sums over finite sets, which the community modules define by
a recursive function on subsets. That a sum is defined, and does not depend on the order, is proved
in `Sums` from the least set for which it would fail; `SumChanges` then says that changing one
summand changes the sum by as much.

*Escrow.* That a claim leaves a natural number of lamports follows from `Solvent` of the state it
found, so types, solvency and replays are proved together (`EscrowInv`). `BalanceInv` ties the sum
of the workers' balances to what left the escrows, over all lives of the account.

*Settlement.* `NeverOverpaid` is not inductive, since a co-signed claim pays whatever it says,
perhaps long after its request is gone. `Covered` adds that a claim on its way says no more than was
credited when it was signed, `Budgeted` that no worker is credited more chunks than the job has,
which keeps the totals in u64; credits never shrink, and the program pays a difference. For
`VouchersAreCovered`, `FundInv` compares the budget of the first escrow with the sum of what was
credited (`Due`) and of the chunks still to do: the price was chosen so that all chunks fit.
Every step of the coordinator is a step of the program or leaves its accounts alone, which gives the
refinement.

*Lifecycle.* `TypeInv` adds to `TypeOK` that a process between two statements of a result holds a
result row. `PaymentInv` follows a result from its mark or its stored outputs to the credit, for
each position of a process in between; `TranscriptInv` puts the rejection before the slash. A bond
is burnt at the end of `rejectResult`, which a handler reaches with unsound work only and the
sweeper with rows its first loop selected; `HonestInv` follows such a row backwards: to the list of
the loop (`LoopInv`), to the closing of its window unanswered (`SilentInv`), and to the request that
wrote the challenge going on to its answer (`AskedInv`), the step a failure would break.
`FiledInv` says that rows are inserted once and keep their chunk, so the process that accepted a
chunk is still the one that pays for it. `AuditInv` counts the worker's other passed results at the
moment of the count; that set only grows, so a late credit rests on it too.

*The board.* Until two activities overlap on a chunk (`ApartInv` says who is where), each chunk is
in order by itself (`Tidy`): its state is the one the process at it expects, or the resting one of
its last result; at most one result of it stands as passed, and at most one is credited; an open
challenge belongs to a waiting result; the sweeper's list holds rows that nobody else touches.
`OverInv` says that the process about to close a job has seen nothing left. With this `OrderlyInv`
each statement of `verifySubmission`, `judgeChallengeResponse`, `deliverOutputs`, `acceptResult`,
`rejectResult` and the sweeper is a step of the board or invisible to it. What ends a lease is shown
of all behaviours: a result filed for the present lease is its holder's, unjudged, on no list and
known to the one process that submits it (`LatestInv`, `SoleInv`), so whatever else reaches a leased
chunk works on a superseded result; and such a process there is only after an overlap (`OldInv`).

*Lineage.* An assertion standing on the head has the head's generation, and an advance consumes it.

*Training.* Three layers. `TypeInv` holds of everything, and gives the refinement to the program:
its theorems hold of the coordinator's chain without a premise. `RowInv` (`Orderly`) is the database
by itself while calls succeed and nothing overlaps: chunks are reached in order, the one activity at
a chunk knows in which state it is, a paid result is settled, a rejected one is fabricated or built
on a fabrication (`Condemned`). `ChainInv` (`Aligned`) compares the two sides: each step of a
delivery and of the sweep knows what the account says (`OnChain`, `Own`), what the chain has
confirmed was judged (`Shown`), and between two activities the tables say the same as the chain
(`Told`). The database argument breaks at the first failed call or overlap, the chain's also when a
redo was rejected twice (`crossed`); section 5 shows all three.

*Prize.* A number of a request is not used again while a thread lives that knows it (`Numbered`) and
the current thread has the one listener (`Listening`): hence answers are matched (`PoolInv`). The
count is the number of handlers between its increment and its decrement (`Counted`). `Decided` keeps
that the row the sweep selected is still the best of those told in time, since after the deadline no
candidate is told so; `Booked` relates credit and closing, and says where a late report may cut in.

*Bonds.* A key's submissions and results stand on the bond of its staker, unless that was changed
under them (`Named`); a chunk that no submission came to too late has the one result its state says,
under the key it is leased to (`Tracked`), so that counting chunks counts results; while a withdrawal
is between its count and the chain, work on the bond was leased since the count or is excused or
overtaken (`Counted`); a submission past its gate is covered like a result (`Passed`). A wallet was
paid no more than the keys it has claimed for earned (`PaidInv`); with one claimant for each key
those sets are disjoint, and their sums together stay within what all keys earned.

*Posting.* Amounts are followed from the click to the escrow (`Offered`, `Unfunded`), overlapping
reports are counted (`Reported`), and the chunks of a job are those its form lays out, worked only
when all are there (`Laid`, `Timely`, `Completed`). That the chunks cover the seed range or the
generations follows from the least seed that would be left out.

*Modules.* A probe asks a bucket after the one drawn before it, the first in a fresh instance. A
module that keeps nothing gives the same answers everywhere, so no draw refuses it (`PurePasses`).
One admitted has run its buckets twice, hence answers a second chunk like the first (`SecondChunk`),
and has answered each probe as in order (`ProbesAgree`), which for a module that errs alone, or in
every order but one, pins the draw down. The registry's two caches hold under a name that name's
artifact or none (`Registers`); every event keeps that (`ThenKeeps`), hence every history
(`HistoriesKeep`, of any length).

*Worker clients.* Every answer of the coordinator moves a loop by one of `Turns`, so a handler is
followed by where it left the loop. Of all behaviours: what was not started has no thread
(`Unspawned`), and no two loops have the same chunk (`OneLoopEach`). Of one session: its array holds
all its threads, or none once it is stopped (`ArrayInv`); until a thread's task throws, a queue is
empty or holds the one task of the chunk under evaluation that its handler waits for, and an answer
is counted once (`Tidy`), so what is whole at the submission is the chunk's own. Until a call fails,
where a loop is and its chunk's book go together (`BondInv`), and a session that runs has its loop
at work (`RunningInv`). The session is a premise of each because the page keeps its threads and its
counter of tasks in one object for all sessions.

*Commitments.* The loops of the tree are functions of the turn; that such a function is what its
recursion says is proved once for each (`LevelsUnfold`, `WalkUnfolds`, `AscentUnfolds`), by going
through the turns in order (`EveryTurn`, from the least turn that would fail). Levels narrow to the
root (`Narrowing`), and `merkleProof` and `verifyProof`, the one from the levels and the other from
index and count, find a sibling on the same ones (`WalkIsPath`, `AscentClimbs`). From the root down,
a proof that is accepted has at each level the node and the sibling that are there (`OpensOne`):
hashes are terms, so a node tells what it was made of. A fold from the left is a recursive function on
sets of indices, defined for the same reason (`FoldExists` in `Sums`); what it finds is the first of
the best (`FoldFinds`), of a bucket and then of the leaves (`BestIsLowest`, `WitnessIsLowest`). No
bucket is cut or lost by the slices of the page's threads (`WebLeaf`), nor by a native loop that
does not wrap (`NativeLeaf`), which is the premise `FoldsAgree` names.

**Only model-checked.** Liveness (`Resolves`, `ParkedResolves`, `Settles`, `FundedOpens`) is out of
the prover's reach. `WiresAgree` is evaluated over tables that are written out and bounded sets of
messages and forms; canonical JSON is a `RECURSIVE` operator on terms of any depth, which excludes
it from every module with theorems. `SoundNeverSlashed` holds in the run also after a failure; the
theorem stops at the failure. Of the theorems, those about types, `LamportsConserved`,
`ReplaysPayNothing` and `SessionIsTheWallets` state invariants no run lists.

## 5. What was found

One run expects a violation and quotes what the repository says (`findings`).

- `StrandedEarnings`: the claim report marks everything credited so far as claimed, not the amount
  that was claimed, so a later reclaim passes its gate and strands the difference.

The following show when a bound of a listed configuration is changed as said, or when a property's
condition (section 3) is dropped.

*Chunks and training*

- *Late outputs* (`TimedOutUnpaid`): outputs delivered after their window are accepted,
  and paid, when the chunk happens to await the outputs of the next attempt.
- *Quarantined last* (`JobCloses`): the sweeper quarantines without calling `maybeCompleteJob`
  (`sweeper.ts:35`), so a job whose last chunk it was stays open.
- *Honest redo* (`SoundNeverRejected`): a rejected training result stays `passed`, and the sweep may
  judge the honest redo by it and reject that too.
- *Failure after marking submitted* (`ChunkProgress`, `MaxFailures = 1`): the chunk stays
  `submitted`; the sweeper reclaims `leased` chunks only (`sweeper.ts:33-41`).
- *Failure between a challenge and its answer* (`ChunkRaces`): the challenge expires and a worker
  that was never told of it is slashed (`verification.ts:976-1008`). A failure between accepting
  and crediting leaves the work unpaid.
- *A judge slower than the 30 s stall window* (`ChunkBoard`, `MayOverlap = TRUE`, `KeepsPromise`
  without `~overlapped'`): `acceptResult`'s
  updates name no state they require (`verification.ts:1041-1042`), so the judge accepts a chunk
  the stall heal has already given to another worker; a chunk can be done twice and paid twice.
- *A submission slower than its lease* (`LeaseRespected` without its last disjunct): the chunk is
  marked `submitted` by id (`routes.ts:847`) under the worker it was granted to in the meantime.
- *A failed assert* (`TrainingConfirm`, `MaxFailures = 1`): the delivery falls through to
  finalization (`verification.ts:583-587`), so the chunk is paid unconfirmed, and the lineage is
  initialized later, at whatever state it has come to (`692-693`) rather than at its seed's.
- *A failure after the confirm landed* (`TrainingConfirm`, `MaxFailures = 1`): the account is closed
  (`lib.rs:576-581`), the reconcile branch (`verification.ts:775-776`) never sees it, and the chunk
  stays parked, at the head of a queue of one.
- *A redo rejected twice* (`ChainSound`, `RecordsAgree`, `PaidAfterWindow` without `~crossed`): the
  query of the sweep (`verification.ts:750-768`) names the chunk and `passed`, not the result that was
  asserted, so after two rejections it may take up an earlier, honest one. Its replay matches, and
  `confirm_chunk` confirms the fabricated state that was asserted, while the row takes the honest one.
  Database and chain disagree without any failure, later asserts of the lineage fail
  (`OriginMismatch`), and later chunks are paid unconfirmed, where the comment at
  `verification.ts:736-737` says that a fabricated chunk is caught before its state can become the
  next chunk's origin.
- *A late delivery of a timed-out training attempt*: it parks the chunk with a result that is no
  longer `passed`, which the sweep does not select (`verification.ts:552`, `761-766`); this is why
  `ParkedResolves` speaks of attempts that still count.
- *Two overlapping deliveries of a training chunk* (`TrainingSweep`, two handlers): the second
  assert fails and finalizes the chunk, the first parks it again, the replay starts from the end
  state, and sound work is slashed; chunks are paid twice.

*Worker clients*

- *Stop, then start* (`LostOnlyByCheating`): the old loop is still at its `await` and goes on in the
  new session's threads; its chunk gets the other's parts, or its challenge is never answered. An
  honest worker loses its bond, which `contribute/page.tsx:100` says cheating alone can do.
- *A task that throws while a sibling computes*: the loop leases the next chunk, overwrites the
  handlers, and the sibling's late answer is taken for the new chunk: the task's number is the same.
- *A lost answer to a submission that was challenged* ends in a slash: no client asks again.
- *A failed start* leaves the page at "starting" and a desktop fetch that throws leaves the desktop
  at "working"; a lease that arrives after Stop is computed by nobody.
- *At the end of the seed space* the native loop (`cli_main.c:60`) wraps around and does not end.

*Prizes and threads*

- *Restart between the credit (116) and the close (121)* (`AwardOnce`): the sweep
  picks again, and a candidate verified since wins too, though `candidates.ts:97` calls the award
  one-shot.
- *Two reports of a funding at a time*: the one that is slower than the deadline opens the decided
  job again, by its id alone (`routes.ts:167`), and the sweep makes a second award.
- A candidate whose evaluation ends after the deadline wins or loses by the moment of the sweep; the
  cap is compared two awaits before the count is raised; two timeouts while a thread ends spawn two
  threads, one of them idle; a module that hangs makes the honest candidates beside it "rejected".

*Bonds*

- *The unstake gate* says "no chunk still in verification (which includes an open challenge)"
  (`routes.ts:281-283`) and counts `leased` and `submitted` (`routes.ts:300`), not `verifying` nor
  `awaiting_confirm`: a bond leaves under an open challenge or a parked training result
  (`BondStays`), under a lease granted while the withdrawal is sent, and under a submission that comes
  after its lease has gone: its result enters verification and its chunk is marked by id alone
  (`routes.ts:839-847`), in the name of nobody or of the next worker.
- *One row, two claimants* (`PaidForWork` without its condition): an earnings row answers to the
  key's own wallet and to the payout wallet it names (`routes.ts:203`, `241`), and the program keeps a
  total for each wallet, so both can claim the same work in full. The comment at `routes.ts:209-211`
  holds for one wallet: "The program's cumulative arithmetic makes any replay pay zero".
- *A changed payout wallet*: it is stored before the bond is looked at; the slash names the wallet
  of the moment (`verification.ts:1154`), not the one that was checked. A lease that brings no payout
  wallet is gated on the key's bond and its submission on the stored wallet's.
- `stake` after a slash makes the bond active again, by what is added.

*Posting, sign-in, chain client and modules*

- *Wallet switched during `signIn()`*: the page keeps the other wallet's session, where
  `auth.tsx:11` says it is scoped; a completion deletes whatever nonce the wallet has by then, and
  two completions of one nonce both get a session.
- *A funding whose report is lost* is never reported again: the pages offer nothing for a draft
  with an escrow. A prize draft has no funding banner at all (`bounties/[id]/page.tsx:78,82`). A
  creation that throws leaves the form at "creating" (`bounties/new/page.tsx:124`).
- *Two overlapping reports of a funding*: the later opens a job that has closed (`routes.ts:167`).
- *A creation cut short, or funded before its last insert*, leaves a job that closes partly covered;
  a free job with more chunks than an insert holds can close between two inserts.
- `confirm_chunk` and `reject_chunk` are built without a written coordinator (`index.ts:404`, `430`)
  where the program demands one (`lib.rs:564`, `588`): they work because the coordinator pays the fee.
- *Two uploads of one module* between the read and the upsert: the later is its publisher.
- *The conformance gate* draws four of sixteen buckets, once and with replacement, and asks them of one
  instance, so only the first probe is isolated, and bucket 0, asked first by the worker too, agrees
  whatever the module keeps (`conformanceThread.ts:130-139`). The header's "A module that branches on
  call order or hidden state fails here" holds of what is drawn; an upload that was refused may be
  repeated for another draw. An extremum module is asked for its buckets in sequence only, so one
  that depends on the order passes.

*Comments only*: `lib.rs:572-575` says rejected assertions are not closed, and the account
constraint closes them; `SPEC.md` section 7 says `attempts > 5` and the sweeper `attempts >= 5`.

## 6. Not modelled, and why

- Find records (`attestFind`, `recordFind`, the records page): they follow an acceptance and feed
  nothing back; only their instruction's wire format is here. Section 2's plan has them.
- The submission-time checks of training jobs (`verifyTraining`): `TrainingConfirm` starts a chunk's
  story at a passed result, sound or not.
- The scores of the evaluation modules and the hash function: deterministic computation, taken as
  given. `vendor/cubiomes` is third-party code.
- The drawing of honeypots, and the round-robin over pool slots (each slot is a `BucketPool` of its
  own).
- The formats of identifiers and sizes of strings in the schemas, start-up and environment: read-only
  while the system runs.
- User rows, tiers, events, notifications, the dormant payment rail, Redis' copy of the lease
  (Postgres is the source of truth, and the sweeper reads it), rate limits, formatting, and the
  presentation of the web pages.
- Adversarial behaviour beyond unsound results, duplicates, silence and lateness: the modules state
  the protocol's correctness, not its resistance to forged messages.
