# Apollo Video: specifications of the durable operations and their neighbours

Apollo Video is an automated video editor: an HTTP API and a user interface
accept work, and worker processes carry it out. What makes it hard is not the
pixels but the bookkeeping around them. Every long piece of work is a row in
PostgreSQL that several workers, several API requests and time itself act on,
while files are written, providers are paid and webhooks are sent outside every
transaction. This directory holds TLA+ models of that bookkeeping, the TLC
configurations that check them, and proofs about them. Paths below are relative
to the repository's `src/v2/` unless they begin with `docs/`, `tests/`,
`specs/` or `scripts/`.

## 1. Inventory

| Component | State | Operations | Interacts with |
|---|---|---|---|
| Public operations (`domain/public-operation.ts`, `infrastructure/prisma/public-operation-repository.ts`) | one row per operation: status, phase, attempt and budget, instants, lease | create or replay, claim, heartbeat, advance, wait, resume, succeed, fail or retry, cancel, retry | every worker; the API; the outbox, in the same transaction |
| Render worker (`application/run-public-operation-worker.ts`, `render-authorized-input.ts`, `infrastructure/remotion-render-input-renderer.ts`, `artifact-render-checkpoint-repository.ts`) | its claim, a timer, a flag that the lease is lost; a partial and a final file; the output checkpoint | run next, heartbeat, two gates, recover, stage, commit, checkpoint | the row, the file system, the shutdown signal |
| Worker lifecycle (`application/worker-lifecycle.ts`) | a stop signal, an admission gate, a deadline | admit, stop, link signals, terminate a child | all workers |
| Event outbox and feed (`public-event-outbox.ts`, `public-event-feed-repository.ts`, `read-public-event-feed.ts`) | events with the start time of their transaction; the reader's cursor | persist, read the watermark, list below it | every transaction that changes a status |
| Webhook deliveries (`webhook-delivery-repository.ts`, `run-webhook-delivery-worker.ts`, `webhook-event-replay-repository.ts`) | deliveries and attempts with leases, idempotency records | materialize, claim, send, heartbeat, settle, replay | the outbox; HTTP endpoints |
| Webhook shards (`webhook-worker-shard-repository.ts`) | one leased row per shard of a pool | claim, heartbeat, release | the delivery workers |
| Webhook signing secrets (`webhook-signing-secret-rotation-repository.ts`, `webhook-signing-secret-provider.ts`) | secrets with an overlap, staged rotations, the endpoint | stage, activate, cancel, suspend, revoke, hygiene | administrators; the delivery workers |
| Provider jobs (`provider-jobs.ts`, `transformation-jobs.ts`, `provider-job-repository.ts`) | job row, lease token, transport state, evidence | claim, submit, poll, callback, retrieve, evaluate, cancel, resume | paid external providers |
| Director budgets (`director-budget-repository.ts`, `execute-director-tools.ts`) | limits, reservations, candidates, events by key, a revision | reserve, settle, cancel, conclude | clients; batches of tools |
| Governance admission (`governance-admission-repository.ts`, `admit-governed-capability.ts`) | the log of admissions, policies | admit | every API request; the operations it counts |
| Synthetic render worker | as the render worker, and an attestation to wait for | wait, resume | the row |
| Production batches, long-form index | items and steps, stage checkpoints, a cost ledger | run a step, retry part, complete | operations |
| Media upload, download, ingest | upload sessions, grants, artifacts | sign, complete, ingest | operations, projects |
| Projects, versions, edits | the current version, one status per project | commit an edit, render a proxy, export | operations |
| Rights, localization, multicam, colour, subtitles, search | documents | validate, project | their callers |
| Authentication, API routes, MCP, UI, infrastructure, Remotion compositions | none that concerns us | — | — |

**How they interact.** The API process and the worker processes share nothing
but the database and the output storage. A request or a worker stamps an
instant with its own clock, opens a transaction, reads a row, computes the next
one with a pure function of the domain, and updates under a WHERE clause; the
number of rows updated tells it whether it was in time. Status events are
written in the same transaction. A worker's heartbeats are statements of their
own, beside whatever its main thread awaits. The operations run under READ
COMMITTED, where other transactions commit between the read and the update;
secrets and budgets run serializable, and governance under an advisory lock.

**What is hard.** A lease may run out while its holder is alive and busy. Files
are renamed, providers asked and receivers called outside every transaction. A
commit's answer can be lost. A worker may die, or be told to stop, anywhere.
Clocks of two machines differ. Requests are repeated with the same key. Rows
are asserted when read, so a row written wrongly blocks the readers and not the
writer. Each of these is a hazard in `PROJECT.json`, at its line.

**What makes each component correct**

- *Public operations*: one holder per attempt, a new number per attempt,
  attempts within the budget, terminal rows that stay, rows that can be read
  back, events that agree with the rows, an end for every operation.
- *Render worker*: success only with a checkpoint, a checkpoint only with an
  output and only by the holder, an output that is never lost to a crash.
- *Event feed*: nothing is skipped or served twice behind a cursor, whatever
  transactions are still open, and everything is served in the end.
- *Webhook deliveries*: attempts and rows agree, an outcome is the receiver's,
  leases are honoured, a replay reopens once, every delivery ends.
- *Webhook shards*: a lease is honoured, its loser stops, every shard is served.
- *Signing secrets*: one secret to sign with, one open candidate, key material
  only where it is needed, and a captured secret that opens through its overlap.
- *Provider jobs*: one paid submission, no invented result, an end that stays,
  a cancellation that is not lost, an end by the deadline.
- *Director budgets*: admitted work has room, effects are counted once, the
  best candidate wins in any order, what is closed stays closed.
- *Governance*: no window of any scope passes a limit, in any order of clocks
  and requests; a policy binds at once; the counts of one decision agree.
- *Synthetic render, batches, long-form index, media, projects* (not modelled):
  resuming keeps the attempt's fence; a step is done once and a partial retry
  touches only its targets; an expired upload is not completed; two edits of one
  base version do not both win; a project's status follows its live renders.

## 2. What is modelled

| Module | Models |
|---|---|
| `OperationRow` | `domain/public-operation.ts` for the type `artifact-render`: a row is a record, each transition `X` a pure operator with a guard `CanX` that is false exactly when the source throws, and `Hydratable` is `assertPublicOperation` |
| `RenderOperations` | the operations as a system: rows, newest status events, checkpoints, outputs, heartbeats in flight, workers and requests; extends `OperationRow` |
| `OperationLifecycle` | the abstract promise of one operation: open, held or over, with attempts and a budget and without clocks or leases; `RenderOperations` implements it for each operation (`Lifecycle(o)`) |
| `WebhookDeliveries` | the deliveries of one event with their attempt rows, the workers, the replay requests and their records, the receiver |
| `WebhookShards` | the shard leases of one pool and the processes that serve them |
| `SecretRotation` | the secrets and rotations of one endpoint, administrators, hygiene, and the workers that capture a secret |
| `EventFeed` | writers' transactions, the outbox, one lineage of cursors |
| `ProviderJobs` | one provider job: row, lease, transport schedule, evidence, provider, workers, callers |
| `DirectorBudget` | the budget of one Director run, its clients and its batches of tools |
| `GovernanceAdmission` | the admission log of one workspace, its policies, requests and jobs |
| `MC...` | values of constants and symmetry sets for TLC |
| `..._proofs` | the theorems of the module they extend |

### 2.1 Operations

Identities, targets, costs and messages are left out; an error is its class.
The running phase is the row's progress, since the source insists that they
agree.

| In the model | In the code |
|---|---|
| `Begin...` then one of the outcomes | the read of a transaction, then its update and commit; any step may come in between |
| `read[a]`, `stamp[a]` | the rows the open transaction read, and the `now` its caller passed |
| `BeginClaim`, `ClaimWins`, `ClaimThrows`, `ClaimFindsNothing` | `claimNext`: the scan, exhausted rows it closes on the way, the first compare-and-set that succeeds, a candidate that throws |
| `Begin...`, `...Commits`, `...Throws`, `...Refused` of Advance, Settle | `transitionRunning` under `advancePhase` and `succeed`, and what the worker does with the answer |
| `BeginRecording`, `FailureCommits`, `FailureNotRecorded`, `GiveUp` | the catch block and `failOrRetry` |
| `TimerSendsBeat`, `SendBeat`, `BeatRenews`, `BeatSkips`, `BeatRefused`, `BeatErrors` | `scheduleHeartbeat`, `heartbeat` of the worker and of the repository, with `SKIP LOCKED` |
| `Recovers`, `FindsNoOutput`, `Stages`, `Revalidated`, `GateOpens` | `recover`, `stage`, `revalidate`, `beforeVerification`, `beforeCommit` |
| `LooksAtKey`, `Promote` | `commit`: `exists`, then `rename`, two steps |
| `RecordCheckpoint` | `record`, whose fence is its first write, so the rest of it is under the row's lock and it is one step |
| `CancelCommits`, `CancelThrows`, `CancelFindsTerminal`, `RetryCommits`, `RetryDoesNothing` | `cancel` and `retry` |
| `AnswerLost`, `Shutdown`, `Crash`, `Tick` | the environment; the first three only for workers in `Faulty` |

Assumptions. An update of a single row is atomic, and its WHERE clause is
evaluated on the committed row: this is what PostgreSQL does under READ
COMMITTED, where an update that waited for a lock looks at the row again. A
claim that closes exhausted rows on its way takes their locks one by one; here
the closing updates and the claim are evaluated together, at the commit. Stamps
are never ahead of the newest clock and at most `Lag` behind it. An output at
its key is taken to be the right one: the checkpoint's comparison with the
manifest is one of the causes of a fatal failure.

### 2.2 Webhooks

`WebhookDeliveries` keeps an instant as its distance from the present, so time
has no horizon: `Tick` shortens the distances down to `Past`, the oldest that
still matters. A command's `now` is up to `Lag` behind.

| In the model | In the code |
|---|---|
| `Materialize` | the row the fan-out inserts for a subscription |
| `Claim` | `claimNext`: due or expired rows, takeover with the previous attempt closed as expired, burial of one without attempts left |
| `Resolve`, `Send` | the dispatch: the target that may be gone, the request, the receiver's answer |
| `Settle`, `Beat` | the three settlements and `heartbeat`, fenced by owner, count, status and lease |
| `ReadForReplay`, `CommitReplay`, `LoseRace` | the replay in its two halves, with the record of its key |
| `SetTarget`, `Crash`, `Tick` | the environment |

Taken together or left out: the order of the query and its limit of 32 (any
candidate may be claimed); `updatedAt` in a compare-and-set, which status,
count and lease subsume; the check of `heartbeatAt` against the clock; the
`admits` gate; the pages of the discovery of workspaces; the 24 h life of an
idempotency record; the chronology of an attempt's instants when a clock is set
back. The replay of an event to one subscription has the form of `CommitReplay`
for that subscription's delivery.

`WebhookShards` models `claim` as its two statements, `ClaimRead` (which locks
the rows it will delete) and `ClaimCreate`, then `Beat`, `BeatRefused`,
`RunEnds`, `Release` and the loop around them; pools may be deployed with
different shard counts at once (`Counts`).

`SecretRotation`'s transactions are serializable, so each is one step; what a
stage request looked at before is a step of its own (`Look`). `Activate`,
`Cancel`, `SetStatus` and `Hygiene` are the four ways a candidate's envelope is
dropped. The cascade of a revocation to subscriptions and the life of a record
are left out. Hygiene is run on demand, so nothing is claimed of when it runs.

Nothing under the source tree calls `createWebhookFanoutMaterializer`: the
fan-out is not modelled beyond the row it inserts.

### 2.3 Event feed

`Begin`, `Seen`, `Commit` and `Rollback` are a writer's transaction: its rows
carry the start of the transaction and appear at its commit, and it is visible
as open within `Delay` of its start. `ReadWatermark` and `List` are the two
reads of a page, in that order; `Join` enters at the beginning or at the end.
One lineage of cursors is followed: an answer that is lost leaves the client
with its old cursor, which is no step. Content and signature of a cursor are
left out.

### 2.4 Provider jobs

A worker claims the row (`ClaimNext`), does what its status asks for (`Branch`:
`Expire`, `CancelAtProvider`, `Estimate`, `BeginSubmission`, `Submit`,
`RecordSubmission`, `IngestSubmission`, `Reconcile`, `Collect`, `Park`, `Poll`,
`Retrieve`, `StoreResult`, `CreateReceipt`, `Evaluate`), and commits the next
row under its fence (`Advance`, `AdvanceRefused`). The paid effect, its
evidence, the ingested result and the receipt are separate commits, so a worker
may stop between any two. Callers cancel, resume or deliver a callback in two
steps, a read and a save. Left out: creation with its replay, the sessions of
an MCP transport, the choice of a fallback provider (`authority` is one
BOOLEAN), the verification of signatures, the observed cost, what a critic
says, and the status `superseded`, which nothing sets.

### 2.5 Budgets and admission

`DirectorBudget` is one run's budget, whose creation is `Init`. A reservation is
named by the key of its command. Its commands are `Reserve`, `Settle`,
`CancelRun` and `Conclude`, serializable and hence one step each, and a batch of
tools is `Preflight`, `BatchReserves`/`BatchReplays`/`BatchRefused`,
`ToolsEnd`, `BatchSettles`/`BatchNotSettled`, any number of executions at once.
The settlement carries the revision its own reservation left, so any command in
between strands the reservation: the model shows it keeps its share. The six
dimensions of a usage are a constant set (two in the run); a refused or replayed
client command is no step; the actor's hash is constant.

`GovernanceAdmission` stamps a request when it arrives (`Arrive`), takes it
through a transaction that holds the lock (`transaction`), and creates its job
later (`Enqueue`). The lock guards the log and the policies, so all that is read
of them is read in `Begin`. It does not guard the operations, which workers and
clients change under no lock (`Work`): each of the six statements that count
them is a step (`Count`), in the order of `Statements`. The transaction decides
and commits (`Admit`), throws because its counts disagree (`Throw`), or is lost
before its commit and perhaps tried again with the request's first stamp
(`Lose`). Policies are set under the same lock (`SetPolicy`). `running` stands
for the three active states; the error rate's threshold is a half; alerts,
hashes, how often a transaction is tried again and the idempotency of the policy
commands are left out. Operations are reduced to what is counted.

### 2.6 What is not modelled, and why

- `wait` and `resumeWaiting` with the synthetic render worker, and the
  idempotent `createOrReplay`; the other ten operation types' contexts, rules
  and costs; the project's one status against its sibling renders; ingest. They
  build on `OperationRow` and are what the plan has left.
- Production batches, the long-form index, uploads, and the compare-and-set of
  project versions: components of their own, in the plan.
- The admission gate and the grace deadline of the lifecycle (a claim that does
  not happen, and a process that exits: a crash), partial files (private to an
  attempt), progress events (a refetch signal no property is about), the audit
  tuple of a command.
- Rights, localization, multicam, colour, subtitles and search are pure
  functions of documents, large and without state; authentication, routes, MCP,
  pages and compositions are plumbing. The generated schema and capability
  registries are data.

## 3. The runs

| Run | Question | Instance |
|---|---|---|
| `RenderLeases` | do fences, leases and the order of output, checkpoint and success hold when workers die, stop, or lose answers? | 2 workers, one faulty; 1 operation, 2 attempts, lease 2, clock to 2 |
| `RenderCommands` | and when clients cancel and retry meanwhile, until a retry is stale? do the events tell the status, are budgets bounded, is every step a step of the lifecycle? | 1 worker, 4 requests (`FewRequests`); 1 attempt, lease 1, stamps that lag by 1, clock to 1 |
| `RenderStaleRetry` | does a retry always leave an attempt to make? | as `RenderCommands`; violated |
| `OperationLifecycle` | does every operation end, if attempts are counted and budgets finite? | 5 workers, budgets from 4 to 11 |
| `RenderOutputConflict` | is an output that is already there ever a conflict? | 2 workers; violated |
| `WebhookDeliveries` | does what is recorded match what was sent, does a replay reopen once, does a delivery end? | 1 delivery, 2 workers that may crash, 2 replay requests with 2 keys; 2 attempts, 3 with a replay; lease 1 |
| `WebhookShards` | are leases honoured, losers stopped, shards served? | 3 workers, 2 shards, lease 3, lag 1, 2 faults |
| `SecretRotation` | is there one secret, one candidate, and does a captured secret open? | 1 worker, 2 requests, 2 keys, 3 versions, overlap 2, lag 1, clock to 2 |
| `EventFeed` | is anything skipped, repeated or never served? | 2 writers, 3 events (one hidden), pages of 1, clock to 5 |
| `ProviderJobs` | is it paid once, proven, never lost, and does it end? | 3 adapters, 2 workers, 1 caller, 1 fault, lease and window 1 |
| `DirectorBudget` | do the sums, limits and results agree with the commands? | 2 dimensions, 3 client keys, 1 batch with 2 executions, 3 candidates |
| `GovernanceAdmission` | does any window pass a limit or a policy? | 2 clients, 3 requests for an analysis or a render (`FewRequests`), one policy, skew 1, clock to 1 |

Each property is stated in words where it is defined. For each there is a
mutant in `PROJECT.json`, a slip in the code that it catches.

**Why the bounds are enough.** *Operations*: one operation suffices for the
properties of a row; rows interact only in a claim's scan, which `Scan` treats
for any number and the proofs cover. Two workers are an owner and its successor.
Two attempts are a first and a last one. A lease of 2 with a clock to 2 leaves
instants before, at and after a renewal and lets the first lease expire once. In
`RenderCommands` a lease of 1 lets one worker be its own successor. Two requests
cover cancel and retry in both orders and twice the same, and they meet the
attempt wherever it is. They are not enough for a retry that is stale and yet
passes its comparison: that takes two cancels and two retries around an attempt.
The constraint `FewRequests` lets a third and a fourth request be sent only
before anything was rendered, to an attempt at its first phase or failing, two
of them open at once: requests do not look at how far an attempt has come. That
the stale retry is within this bound is what `RenderStaleRetry` shows, which has
the same instance. `RenderLeases` has no requests: what becomes of dead letters
when clients retry is a theorem (`RetriesGrantUnlessSetBack`).
*Webhooks*: deliveries share nothing but the record of a replay of them all;
two workers are owner and successor, two requests share a key or have one each,
and three attempts are a first, a last and a granted one. Three processes for
two shards leave one waiting, and two faults take both servers. Three versions
are a secret, its successor and the successor's, with an overlap that outlives
one cut-over. *Feed*: two overlapping transactions commit against the order of
their starts; a page of one event makes every position a cursor. *Provider*: a
row has one submission, so two workers, one lost in the middle, meet each pair
of commits in either order. *Budget*: a free, a small and a full estimate,
usages that fit and overrun, candidates that tie. *Shards*: the run has one
shard count; that a lease is honoured with several at once is a theorem
(`ShardLeasesHonoured`), that every shard is then served is claimed by neither.
*Governance*: rate, quota and concurrency can each be the first to bind for three
requests. The constraint `FewRequests` has two of them wait for the lock at once,
which is enough to overtake, and lets operations exist where two jobs and no
policies do: policies only lower limits, and operations count for jobs and
anomalies alone. `MaxClock`, `MaxTime`, `MaxFaults`,
`MaxVersion`, `LastStart`, `OpCount`, `Budgets` and the sets of actors are
bounds of the model; everything else is a parameter of the code. What the
instances leave open the theorems cover: they hold for all values.

**Deadlock** is not checked where the system may stop: a bounded clock stands
still, every request is made once, a dead worker stays dead, a delivery or a
budget that is over needs no step. It is checked in the runs of
`WebhookShards` and `ProviderJobs`, where it never may.

**Fairness**, and why the code justifies it.

- `OperationLifecycle`: workers keep taking what can be taken (they poll for as
  long as the service runs, `scripts/run-v2-render-worker.mjs`), and a last
  attempt ends: its worker ends it, as the renderer has a timeout, or its lease
  runs out and a claim closes it. `RenderOperations` itself has a bounded
  clock, so liveness under it would be an artefact of the bound: it is checked
  for safety, and that its steps are steps of the lifecycle.
- `WebhookDeliveries`: time passes and workers keep polling and finish what
  they began, unless they crash; each crash costs an attempt.
- `WebhookShards`: the loop claims again after each run and each wait, every
  transaction ends, a serving process repeats its heartbeat. Faults are bounded
  by `MaxFaults`: with infinitely many of them nothing is served.
- `EventFeed`: transactions end, the client goes on polling, time passes.
- `ProviderJobs`: time passes and the workers' loop goes on; nothing is assumed
  of providers, callbacks or callers. A job without a schedule (a synchronous
  provider) has no deadline, and none is claimed for it.
- `SecretRotation`, `DirectorBudget`, `GovernanceAdmission`: no liveness. Their
  commands are sent by people and clients, who need not send any.

### Findings

Two runs are of promises the documents make and the code does not keep; each is
explained under `findings` in `PROJECT.json`.

1. A worker whose lease runs out after its last gate still promotes its file;
   if the next attempt has already looked, it meets a conflict that is not
   retryable, and the operation fails with its output complete (ADR-015).
2. A retry compares status and `updatedAt` and no attempt, and a cancel computed
   from an older row may set `updatedAt` back. A retry that read the row as first
   canceled, at attempt 1 of 1, finds it canceled at the same instant at attempt
   2 of 2 and writes `retrying` with no attempt left, which every claim passes
   over for good (ADR-018).

Other places where a text and the code differ were met while modelling. The
models follow the code, and no run is spent on them:

- a claim between a cancel's read and its update may make the canceled row
  complete before it started: the row's assertion throws and the cancel is
  rolled back (`CancelThrows`; `public-operation-repository.ts:1295`), where
  ADR-017:24 has the cancel win. When the clocks do not roll it back, the
  cancel's command and event name a previous status the operation had already
  left (`public-operation-repository.ts:1261`);
- an admission counts the operations that ended and those that failed in two
  statements, and one that fails in between makes the failed more than the
  ended: a well-formed request is refused as an invalid argument and leaves no
  row in the log (`Throw`; `governance-admission-repository.ts:491-524`,
  `domain/governance-anomaly.ts:98`; ADR-092:16-17 has the measures taken under
  the admission's lock, which the operations are not under);
- a webhook job that its callback woke is parked again until its deadline,
  because waking clears the very field that parking looks at
  (`provider-jobs.ts:593`; `domain/provider-job-transport.ts:267` says it is
  woken "for the worker to advance it"); a polled job is polled again at once
  rather than after a delay (`provider-jobs.ts:600`); and a job found at
  `submitting` is canceled without asking the provider that has it
  (`provider-jobs.ts:489`; `transformation-jobs.ts:597-598`);
- cancelling a rotation that a hygiene run expired is refused, where
  ADR-045:18 lets it converge
  (`webhook-signing-secret-rotation-repository.ts:407`);
- two shard counts can be live at once, as a claim looks for other topologies
  in one statement and inserts in a later one
  (`webhook-worker-shard-repository.ts:71`; ADR-035:29);
- a batch of tools that is sent again runs them again, although its reservation
  was settled or its run cancelled since (`execute-director-tools.ts:170`;
  `TODO.md:1074`);
- a job that stays queued for longer than the reservation window is in neither
  of the two counts of concurrency
  (`governance-admission-repository.ts:531`; ADR-089:7).

## 4. What is proved

With TLAPS, for every value of the constants that the named assumptions allow:
any number of workers, requests and operations, any bounds, and clocks without
one. `PROJECT.json` lists the theorems; each is stated in words where it stands.

| Module | Theorems (property) |
|---|---|
| `RenderOperations_proofs` | `TypeCorrect` (`TypeOK`), `RowsHydratable` (`HydratableRows`), `TerminalStays` (`TerminalStable`), `LeasesHonoured` (`LeaseHonoured`), `AttemptsGoForward` (`AttemptGoesForward`), `CheckpointsByHolder` (`CheckpointByHolder`), `SuccessProven` (`SuccessIsProven`), `FeedTellsTheStatus` (`FeedMatchesRow`), `AttemptsAreFresh` (`FreshAttemptPerOwner`), `FailuresAreDeserved`, `LifecycleImplemented` (`ImplementsLifecycle`), `BudgetsAreBounded` (`LifecycleHolds`), `OnlyCancelsGoBack`, `RetriesSeeTheirRow`, `RetriesGrantUnlessSetBack` (`DeadLetterDeserved`) |
| `WebhookDeliveries_proofs` | `Accounts` (`AttemptsAccounted`), `Deserves` (`OutcomeDeserved`), `Honours` (`LeaseHonoured`), `ReopensOnce` (`OneReopeningPerKey`) |
| `WebhookShards_proofs` | `ShardLeasesHonoured` (`LeaseHonoured`) |
| `SecretRotation_proofs` | `Sound` (`RotationsSound`), `SignsWithOne` (`OneActiveSecret`), `StagesOnce` (`OneStagePerKey`), `StaysOpenable` (`CaptureStaysOpenable`) |
| `EventFeed_proofs` | `CursorIsSound` (`CursorSound`), `InOrder` (`ServedInOrder`) |
| `ProviderJobs_proofs` | `PaidOnce` (`OnePaidSubmission`), `Soundness` (`JobSound`), `EndsOnce` (`TerminalIsFinal`), `IntentKept` (`CancelIntentKept`) |
| `DirectorBudget_proofs` | `StaysWithinLimits` (`ActiveWithinLimits`), `BestStays` (`BestIsBestValid`), `StaysClosed` (`ClosedForGood`), `EffectsAreCounted`, `BooksBalance` (`RowAccounts`), `EstimatesAreHeld` |
| `GovernanceAdmission_proofs` | `WindowsStayWithinLimits` (`WindowsHold`), `PoliciesHold` (`PolicyHolds`) |

Each module proves one inductive invariant `IInv` (`Initially`, one lemma per
kind of step, `Invariance`) and draws the theorems from it.

**Operations**, in five layers.

1. *`IInv == TypeOK /\ Consistent`.* The type invariant is not inductive: a
   transition is typed only if its worker has an operation and its transaction
   has read that row. `Consistent` says so for each place of the program, and
   that stamps are not ahead of the clock.
2. *`RowsInv`.* What any step can do to a row is classified once (`NextRows`,
   `RowsStep`, `StepKinds`): it is taken, closed as expired, carried on,
   ended or reopened, each under its fence. By these kinds every row stays
   hydratable, and its lease lies within the window that its heartbeat opened
   (`LeaseWindow`). The action properties follow from the kinds. Where the code
   reads a row back after its update, the proof uses that read; where it does
   not, it needs the fence.
3. *`ProofInv`.* A worker between its promotion and its success has its output
   at the key, whoever holds the row now (`HasOutput`); outputs never go away
   (`OutputStays`). So the checkpoint that success requires has an output,
   and its attempt is not above the row's.

4. *`BudgetInv`.* Workers and claims judge a failure by the attempts of the
   row they read. What they read is never ahead of the row in attempts, and
   while the row runs with the attempt that was read it has the budget that was
   read, since attempt numbers are fresh. So the judgement is the row's
   (`Judgement`), and each kind of step maps to a step of the lifecycle
   (`LifecycleSteps`). A retry is the exception, as it compares only status and
   instant: what it read may be of an earlier attempt. The lifecycle therefore
   lets a reopening count any number of attempts up to those made, and
   `SeenInv` shows that a retry does no worse: no read is ahead of its row in
   attempts, and every budget is the first one or at most one above the attempts
   made. So the refinement (`LifecycleImplemented`) and the bound on budgets
   (`BudgetsAreBounded`) need no assumption about retries.

5. *`TimeInv` and `PastInv`.* Why comparing `updatedAt` is nearly enough. A row
   is taken up again strictly later than it was put back, since
   `nextAttemptAt` is later than `updatedAt` in every row that is read, and no
   row is closed before its lease is over, which is later than `updatedAt`. So
   `updatedAt` never goes back except by a cancel (`OnlyCancelsGoBack`), and if
   no cancel sets it back, a row that was taken since a retry read it shows a
   later instant and the retry is refused (`RetriesSeeTheirRow`: `Spec` and
   `CancelsGoForward` imply `[]RetrySeesTheRow`). This places finding 2: unless
   a cancel that was computed from an older row sets the instant back, a retry
   keeps the attempts and leaves one to make, adding one only if none is left, no row
   waits without an attempt, and dead letters are deserved
   (`RetriesGrantUnlessSetBack`).

`FeedTellsTheStatus` rests on the fences too: a write announces the change from
the status that was read, and says nothing if that is the status it leaves; then
the fence had compared it with the row's.

**Webhook deliveries.** `RowOK` is what is true of a row and its attempts
together, with a lemma for each way the program changes the two; a worker that
sends knows which attempt is its own, a request knows what it saw, and `Ledger`
counts the records against the attempts granted.

**Webhook shards.** A claim decides in one statement what it deletes in
another. `DoomedOK` carries it over the gap: what a claim is about to delete is
over, stays so because its row is locked, and no two claims hold the same row.

**Signing secrets.** `SecretsKept` (what has become of a secret is what its
status says) and `Captures` (a captured secret that was replaced is usable until
the overlap after the capture, less the lag) make the four properties inductive.
A candidate's version is above all others, so nothing is opened behind it; a
cut-over is stamped at most `Lag` behind, which is all the overlap can lose.

**Event feed.** `Safe`: a position the reader may be at lies behind the start of
every open transaction by the margin less the delay. So nothing is committed
behind a cursor and no cursor is too far ahead of a later watermark.

**Provider jobs.** Three rows matter: the one in the table, the one a worker
read and the one it means to commit. `RowOK` is true of each, `IterationOK` of a
worker between claim and commit, `SeenOK` of a schedule that was read and will
be written back, and `EffectOK` ties the provider's count to the evidence.

**Director budgets**, in two layers. `RowsOK` adds to the types that every
reservation was opened under its key (`Keyed`), that an open one has no
candidate (`Unjudged`), and that the best candidate is one of the judged ones
and none ranks before it (`BestJudged`); the revision counts the keys that were
used. On top of it `Books` says that the row reserves the sum of the open
estimates and has spent the sum of the settled usage. It is not inductive
without `Pending`: an open reservation has no usage yet, so its settlement adds
all of it, and it has an estimate, so a run that is concluded with nothing
reserved has nothing open. `EstimatesAreHeld` follows: the code subtracts an
estimate with a bound at zero, and the bound is never met, so that no error of
the books hides behind it.

**Governance admission.** `IInv` is the type invariant, the three windows, that
finitely many operations exist, and `ReadingFits`: if the open transaction
reached no limit when it read the log, the request still fits. This is where the
lock is needed: while it is held nobody else adds a row or sets a policy, so what
was read stays true through the statements that follow (`FitsUnchanged`). The
rest is `WindowAfter`: a window of any width that sees the row of a request that
was admitted is, but for that row, among what the transaction counted under the
lock, later stamps included. So each limit it compared bounds each window that
the row falls into, and the others are as they were. The counts of operations,
which no lock keeps, play no part in it: they can only refuse. A policy only lowers the limits
(`EffectiveIs`), which gives `PoliciesHold` from the same lemma. That
`Requests` is finite is not assumed.

**Sums.** The community modules define a sum by recursion over a finite set, and
an induction theorem with an operator as its parameter cannot be used here. The
lemmas go around it: induction over the finite subsets of a set in the form of a
set (`SubsetInduction`: a minimal counterexample of the well-founded strict
subset order), then that the functions the recursion defines agree where both
are defined (`SumIsUnique`) and exist (`SumExists`), which unfolds a sum once
(`SumFacts`), takes any one element out of it (`SumSplit`) and bounds it by that
of a larger set (`SumMonotonic`). They stand in each of the two modules that
need them.

**Assumptions.** Only the named ones beside the constants: sets of actors that
are disjoint or do not contain the null value, bounds that are natural numbers,
and, for the feed, that transactions are seen open within the margin and the
slack. TLC evaluates them in the runs. Two theorems have a hypothesis about the
behaviour, stated with them: `RetriesSeeTheirRow` and
`RetriesGrantUnlessSetBack` assume `CancelsGoForward`, that no cancel sets an
`updatedAt` back, without which `RenderStaleRetry` refutes what they say.

**Only model-checked.** Liveness (`Ends`, `EveryDeliverySettles`, `LoserStops`,
`EveryShardServed`, `EverythingServed`, `EveryJobEnds`): the prover has no rule
for fairness that it can use, as it cannot reason about ENABLED. Every other
property of a passing run is stated by a theorem.

## 5. Plan

*Done*: the modules of section 2 with their runs, and the theorems of section 4.

*Left*, in this order:

1. `WaitingOperations`: `wait` and `resumeWaiting` with the synthetic render
   worker and its last attempt; one owner at a time in place of a fresh attempt
   per owner; creation with replay.
2. `ProxyProject` (one status, sibling renders) and `ProjectVersions` (the
   compare-and-set of edits); ingest, which fails its project after its
   operation.
3. Production batches, the long-form index, uploads.

Modules are written to be proved about: constants with named assumptions, one
action per operation, recursion only as functions.
