# Verification of the pipeline backend

TLA+ models of the backend in `src/app`, their TLC runs and their TLAPS proofs.
The backend takes requests to build a repository, lets execution engines poll
for them, receives the engines' callbacks, stores jobs, steps, logs and results
in PostgreSQL, streams logs to browsers, and runs the approval of jobs that a
security verdict blocks.

- [1. Inventory](#1-inventory): the parts, their state, what is hard about them
- [2. Plan](#2-plan): modules, runs and theorems, done and to do
- [3. The modules](#3-the-modules): how each corresponds to the code
- [4. The runs](#4-the-runs): instances, bounds, what each shows
- [5. The proofs](#5-the-proofs): inductive invariants and theorems
- [6. Where code and text disagree](#6-where-code-and-text-disagree)
- [7. What is not covered](#7-what-is-not-covered)

To repeat a check: `tlc -workers 2 -config Hub.cfg MCEventHub`, or
`tlapm EventHubProofs.tla`. `PROJECT.json` names the module of each
configuration, the source lines of each definition, a mutant for each checked
property, and the hazards the properties are aimed at.

## 1. Inventory

One FastAPI process (`uvicorn app.main:app`) on one event loop serves everyone.
A handler runs without interruption between two `await`s, and every database
call is an `await`; each handler opens a session (a transaction at READ
COMMITTED) and often several, one after the other. Engines, browsers and users
are concurrent clients of this process; the reaper is a background task in it.

### Components

| Component | Code | State | Operations |
|---|---|---|---|
| Job lifecycle | `app/main.py` 141-460, 565-600, 807-855, 1700-1755, 1985-2130 | rows of `pipeline_jobs`, state of rows of `pipeline_steps` | start, create, claim, three kinds of callback, fail, cancel, delete, the reaper |
| Live stream | `app/realtime.py`, `pipeline_log_websocket` | connections and backlog per job, one `asyncio.Lock` | subscribe, unsubscribe, publish, clear |
| Approval workflow | `app/main.py` 1419-1606 | `approval_records`, `security_summary.verdict`, follow-up jobs | request, approve, reject |
| Schema migrations | `scripts/apply_migrations.py` | `schema_migrations`, a session lock | apply each file once, in order, before serving |
| Step and log store | `_append_stream_log_batch`, `_save_step_to_db`, `_upsert_step_log`, `_save_log_lines` | `pipeline_steps`, `step_logs`, step counters of the job | append a batch, upsert a step, upsert a log |
| Result parsing | `_save_parsed_data_to_db` and its helpers | `security_findings`, `security_summary`, `build_artifacts`, `deployments` | store the parts of a final callback |
| Reference engine | `ubuntu/ubuntu_runner.py` | the steps of one run | clone, install, test, three checks, build, send the result |
| In-memory caches | `job_state`, `job_steps` | dictionaries | fallbacks of reads |
| Result files and SSH | `app/service.py` | JSON files | save, load, delete, kill an engine's process |
| Read endpoints | `app/main.py` | none | queries, the monitor page |
| Authentication | `app/auth` | users, tokens | OAuth, JWT |
| GitHub proxy | `app/api` | none | HTTP calls |
| Clients and scripts | `run_pipeline_prompt.py`, `select_repo.py`, `scripts/*.sh`, `cd.yml` | none in the backend | prompts, deployment |

### Interactions

- An engine polls `get_pending_jobs`, takes a job with `claim_job`, and reports
  with `log_batch`, `step_complete` and `pipeline_complete` callbacks to
  `receive_result`, or gives up with `fail_job`. It retries callbacks.
- `receive_result` writes the job and step rows, then calls the hub: `publish`
  for every callback and `clear` for the final one. The final callback also
  stores the parsed result, whose verdict the approval workflow reads.
- `approve_job` inserts a follow-up job, which enters the lifecycle as queued.
- The reaper reads job rows and counts of step rows, and calls the same
  `_fail_job_in_db` as `fail_job`.
- Users start, cancel and delete jobs at any time; deletion cascades to steps,
  logs, results and approval records.
- Every replica runs the migrations before it serves.

### What is hard here

Status checks and the writes they guard are different statements, mostly in
different sessions, so *stale reads* and *lost updates* are everywhere in the
lifecycle and in approvals; rows are deleted under handlers that hold their id;
row locks and advisory locks are taken in different orders by batches, saves,
deletes and failures; the reaper decides
from rows it read earlier; the hub holds its lock over a send to a browser that
may be dead, and writes the backlog outside that lock; engines retry; processes
die between two commits. `PROJECT.json` lists these under `hazards`, each at
its line, with the properties aimed at it or a note saying why there is none.

### What makes each component correct

| Component | Properties |
|---|---|
| Job lifecycle | a queued job belongs to nobody; a claim is final; nothing returns to the queue; a success keeps its result; a failure settles the steps; a delete leaves nothing behind; the reaper spares the queue, and ends what is silent; every request returns |
| Live stream | a browser's first message is its snapshot; no event falls between it and the stream; publishers are not blocked for ever; dead browsers leave |
| Approval workflow | no critical weakness is ever accepted; records exist only with their job; a follow-up exists only through an approval |
| Schema migrations | recorded exactly when applied, once, in order, before serving; nobody waits for ever |
| Step and log store | one log row per step; lines are stored once and in order; the whole log of a reported step stays whole; only the cut final log drops a user's line, of a step whose end was never recorded, and never for a smaller log; counts never run ahead |
| Result parsing | a retried final callback stores nothing twice; the summary counts no finding without a row; what got past the terminal check is recorded |
| Reference engine | a success is earned by the steps; the run is left behind in the end |

## 2. Plan

Done, in this order:

1. `JobLifecycle`: the core. Everything else refers to a job and its status.
   `JobLedger` is its abstract specification: what a reader of a job is
   promised. `JobLifecycle` implements it (`ImplementsLedger`, a refinement
   that TLC checks and `LedgerImplemented` proves).
2. `EventHub`: the only in-memory concurrency.
3. `Approval`: the workflow with the strictest promise (critical weaknesses).
4. `Migrations`: replicas, a lock, crashes.
5. `LogStore`: the rows of `step_logs` under retried and overlapping callbacks.
6. `Runner` (the reference engine), `ResultStore` (the final callback) and
   `Delivery`, which composes them with the retries of `send_result`.

`MC...` modules hold the instances for TLC, `...Proofs` modules the proofs; no
module declares a RECURSIVE operator.

| Module | Instances or extends | Instance for TLC | Proofs |
|---|---|---|---|
| `JobLifecycle` | `JobLedger` (refinement) | `MCJobLifecycle` | `JobLifecycleProofs`, `JobStepsProofs` |
| `EventHub` | | `MCEventHub` | `EventHubProofs` |
| `Approval` | | `MCApproval` | `ApprovalProofs` |
| `Migrations` | | `MCMigrations` | `MigrationsProofs` |
| `LogStore` | | `MCLogStore` | `LogStoreProofs`, `LogOrderProofs` |
| `Delivery` | `Runner`, `ResultStore` | `MCDelivery` | `DeliveryProofs` |

To do:

7. `LogStream`: `LogStore` and `EventHub` composed, for what a browser sees of a
   job that has ended. A batch published after `clear` leaves a backlog that
   hides the database's lines (a hazard no property covers yet).
8. The two duplicate-insert windows of section 6 as runs of their own.

## 3. The modules

Common conventions. A handler is a process with a program counter whose steps
end at an `await` on which something can change: a read, a write, a commit. An
action is all the code between two such points. A definition marked "Mutant" is
a plausible bug in the definition below it and is used by no action.

### `JobLifecycle`

| Model | Code |
|---|---|
| `job[j]` | status, overall_result, claimed_by, claimed_at, last_event_at of the row; `Absent` when there is none |
| `steps[j][s]` | the status of the row of `pipeline_steps`; `finished` stands for success, failed and skipped |
| `heard[j]` | what the reaper's `callback_count` looks at: a callback or a log line of some step |
| `issued` | ids that have had a row: uuid4 never gives one twice |
| `granted[j]` | the engines that were answered 200 by `claim_job` |
| `task[p]` | the handlers in flight (and the reaper), with what each remembers over an `await` |
| `scan`, `stuck` | the rows `_find_stuck_jobs` still has to count, and its verdicts |
| `silent` | no engine calls any more |

Actions, by handler:

| Handler | Actions |
|---|---|
| `start_pipeline`, `approve_job` | `StartPipeline`, `EnqueueFollowUp` (one INSERT each) |
| `create_pipeline` | `CreateCheck`, `CreateInsert`: two sessions |
| `claim_job` | `ClaimRead`, `ClaimWrite`: the row count of the UPDATE is not looked at |
| `receive_result` | `Callback`, `EnsureInsert`, `TerminalCheck`, then |
| ... `log_batch` | `LogStep`, `LogJob`, `LogCommit` (or `LogNothing`) |
| ... `step_complete` | `SaveStep`, `SaveCommit`, `Snapshot` (or `NoStep`) |
| ... `pipeline_complete` | `Finalize`, then `SaveStep`/`SaveCommit` for each step, `SaveParsed`, `Snapshot` |
| `fail_job`, the reaper | `FailRead` or `ReaperFail`, then `FailSelect`, `FailCommit` |
| `_stuck_job_reaper` | `ReaperScan`, `ReaperCount`, `ReaperFail`, `ReaperSleep`, `ReaperError` |
| `cancel_pipeline`, `delete_pipeline` | `CancelRead`, `CancelWrite`; `DeleteRead`, `DeleteStep` for each step, `DeleteWrite` |
| PostgreSQL, the process, the clock | `DbError`, `DeadlockVictim`, `Restart`, `EventAges`, `ClaimAges`, `EnginesDie` |

Locks are not variables: they are held by transactions, so they follow from
where the handlers stand. `StepLockFree` is the advisory lock of a step;
`HoldsStepRow` are the rows of `pipeline_steps` a transaction has written (a batch
that appends, from its flush at `session.get`; a save, from its count; a delete,
step by step); `RowFree` is the row of the job, which only a failure keeps locked
over an await; `References` are the foreign keys a delete of the job waits for.
`WaitsFor` joins them, and `DeadlockVictim` aborts any handler of a cycle of waits.
A restart whose first connection fails leaves the reaper `off`, as `lifespan`
does: the process then serves and nothing ends a silent job until the next restart.
`Reported`, `Finals` and `Ends` are what engines may report: step states, final
statuses, the age of `ended_at`.

A timestamp is `null`, `fresh` or `old`, which is all the
reaper's cutoffs tell apart. An UPDATE of the ORM writes only the columns whose
value differs from what was loaded; `LoggedRow` and `FailedRow` depend on it.

### `EventHub`

`connections` and `backlog` are the hub's dictionaries; `holder` and `waiting`
are the `asyncio.Lock` with its FIFO of waiters; `socket[s]` is the WebSocket
handler of one connection, `callback[p]` a callback that publishes. `stored`
is what the database would answer to `_load_pipeline_log_lines`. `inbox`,
`published` and `excused` are history: what a browser has received, what was
appended since the process started, and what the bounded backlog had dropped
before a browser's snapshot.

`Accept`, `Publish`, `Copy`, `SendTo`, `Drop`, `Return` and `Clear` are
`publish` and `clear` cut at their awaits: the append to the backlog comes
before the wait for the lock and the sends after it. `Load`, `Subscribe`,
`SendSnapshot`, `Notice` and `Unsubscribe` are the WebSocket handler.
`Disconnect` and `Restart` are the environment. Holding the lock over an await
happens only in `subscribe`, so `holder` is a socket or nobody.

### `Approval`

`job[j]` keeps what approvals need of a job: whether its row exists, the record
it follows up, the weaknesses accepted. `summary[j]` is the verdict with its
`block_reasons`; `record[r]` the approval records, numbered by `created_at`.
`handler[h]` is a request. `RequestCheck`/`RequestInsert`,
`ApproveCheck`/`ApprovePick`/`ApproveWrite` and `RejectPick`/`RejectWrite` are
the statements of the three endpoints, `StoreVerdict` the upsert of a final
callback, `Delete` the deletion with its cascade.

A weakness is a CWE; `block_reasons` is the set of weaknesses that stand in the
way. `Reports` is an assumption about the engine, taken from
`ENGINE_INTEGRATION_GUIDE.md` (the verdict table of section 9, and "Critical has
no approval path"): the verdict is `block` exactly when a critical
weakness was found. Without it `block_reasons` of a `block_pending_approval`
could name a critical one, and accepting all would accept it.

### `Migrations`

`schema` is the list of migrations committed, `rows` the table
`schema_migrations`, `lock` the advisory lock, `replica[r]` a starting process
with the migrations of its image (`Images` stands for a rolling deployment or a
rollback). The migration and its row are one transaction: `Execute` commits
nothing, `Record` commits both. `Fail` is any failure: it closes the
connection, and with it the transaction and the lock.

### `JobLedger`, the abstract job

`record[j]` is what a reader sees of a job, `issued` the ids that have been used.
`Queue`, `Adopt`, `Claim`, `Report`, `Complete`, `Fail`, `Cancel` and `Remove` are
whole operations at one instant. The refinement mapping of `JobLifecycle` is
`Seen(j)`: status, `overall_result` and `claimed_by` of the row. Three things
follow from the implementation that no single handler shows: a claim takes
only a queued job and never changes its owner, a success and its result appear
together, and no interleaving of half-done handlers makes up a change (a partly
written row, an owner without a claim, a row that returns to the queue). The
ledger does not promise that an ended job stays ended, for the code does not
(section 6).

### `LogStore`

One job and its callbacks. The engine side is `streamed`, `ended` and `sent`: a
message stays in `sent`, so it may be received again, late, and while its first
delivery is still handled. The backend side is `logs[s]` (the rows of
`step_logs`; a list, since no unique index keeps it to one), `cursor[s]`
(`log_sequence_end` in the step's metadata), `finished` and `reported` (the
statuses and `callback_received_at`), `completed` (`completed_steps`), `terminal`.
`req[r]` is a handler: the advisory locks it holds, the uncommitted writes, and
what it read for its count.

| Code | Actions |
|---|---|
| `_append_stream_log_batch` | `AppendGroup` for each step (lock, then row and log), `AppendCommit`, `AppendFails` (swallowed), `DeadlockVictim` |
| `_save_step_to_db`, `_upsert_step_log` | `SaveLock`, `SaveRead`, `SaveCommit`, `SaveFails` |
| `_finalize_job_in_db` | `Finalize`, then the saves of the listed steps; `FinalizeFails` skips them |
| `_save_log_lines` | `ParseStep` for each step, `ParseCommit`, `ParseFails` |
| the engine | `SendBatch`, `SendStepComplete`, `SendPipelineComplete` |

A line is its sequence number, and `Bytes` its length: the code compares logs by
their bytes (`Size`), so a cut log of fewer, longer lines may replace a longer one,
and `Replaces` lets it. `Meta` are the lines of internal state that
`_normalise_step_log_lines` drops. What a loop keeps that passes over some
elements is `Pick(seq, positions)`, which says position by position what
`SelectSeq` computes by recursion, so that it can be reasoned about;
`MCLogStore` compares the two (`PickSelects`). `exposed` is history: the steps whose log the
last transaction of a final callback wrote although the step had not been saved
as finished. That transaction takes the step-log lock and not the lock a batch
takes, so it may insert a second row or write over a batch; the properties exclude
those steps and the hazard is listed without a property. `ListedKept` (section 5)
says which steps these are.

### `Runner`, `ResultStore` and `Delivery`

`Runner` is one run of `ubuntu_runner.py`: a repository is its branches and the
files the runner looks for, a command an exit code. `pos` and `ran` say which
command of which step runs, `status`, `overall`, `cloned` and `metadata` what came of
it. `CloneBranch`/`CloneFails` try the branch, then `main` and `master`;
`RunCommand` ends a step with the status its exit code stands for in that
step (`Outcomes`), `PassOver` is a step without a command, `Raise` the
`package.json` that is not JSON, `SaveResult` the file on disk.

`ResultStore` is `receive_result` for a final callback. `req[a]` is how far the
handler of an attempt is; `rows`, `findings`, `artifacts`, `deployments` and `summary`
are the tables. `Ignore`, `Admit`, `AdmitBlind` and `Refuse` are the checks and
the file (`Refuse` is its failing write, after a check that answered or one that
failed); `Finalize`, `Save` and `Parse` the transactions, each with its error
(`FinalizeFails`, `SaveFails`, `ParseFails`), all of which the code swallows.
`Crash` is a restart. `faulted` and `overlapped` are history, read by properties
alone: a fault hit a handler that passed the check, or two handlers passed it.

`Delivery` joins them: `Payload` is `_build_result`, and `Send`, `Answered` and
`Retry` are `send_result`, whose wait may end while the handler is still at work.
Engines speak three dialects of the callback: the `runner` of this repository
lists its scanners' findings in the metadata of its steps; an engine that follows
`ENGINE_INTEGRATION_GUIDE.md` (`guide`) sends findings and a verdict; an older
one (`text`) prints them in the log. The last two are external to `src/` as
programs and are modelled by what the backend reads of them.

## 4. The runs

Distinct states are for two workers on a small machine.

| Run | Instance | Distinct states | What it shows |
|---|---|---|---|
| `JobSafety` | 1 job, 2 engines, 2 requests, 1 step, the reaper, every fault but engine death | 2.3 M, 3 min | `TypeOK`, `QueuedIsUnclaimed`, `SuccessIsWhole`, `DeleteIsComplete`, `ClaimIsFinal`, `NeverRequeued`, `ReaperSparesQueued`, `ImplementsLedger` |
| `JobReaper` | 2 jobs of one target, 1 engine, 1 request, the reaper | 2.7 M, 45 s | `ReaperSparesQueued` when the reaper's scan spans two rows and follow-ups are queued without `last_event_at` |
| `JobLiveness` | 1 job, 1 engine, 1 request, 2 steps, the reaper, time, engine death | 0.28 M, 1 min | `SilentJobEnds`; and `FailSettlesSteps`, through the row and advisory locks and the deadlock of a saved step with a failing job |
| `JobLocks` | 1 job, 2 requests, 1 step, the reaper, no fault | 0.25 M, 2.5 min | `RequestsReturn`: batches, saves, deletes and failures that wait for each other's advisory and row locks |
| `JobDoubleGrant` | 1 job, 2 engines, 2 requests | violation | `OneGrantPerJob` |
| `JobTerminal` | 1 job, 1 engine, 2 requests | violation | `TerminalIsFinal` |
| `Hub` | 2 jobs, 1 browser, 2 callbacks, backlog of 1, 2 events, outage and restarts | 0.12 M, 25 s | `TypeOK`, `SnapshotFirst`, `NothingMissed`, `PublishReturns`, `DeadSocketsLeave` |
| `Approval` | 3 jobs (1 original), 2 weaknesses (1 critical), 2 handlers, 2 records, 2 results | 0.44 M, 10 s | `TypeOK`, `AcceptsNoCritical`, `RecordsHaveJobs`, `FollowUpIsApproved` |
| `ApprovalDecisions` | the same with 1 result | violation | `DecidesOnlyPending` |
| `Migrations` | 3 replicas, 3 migrations, 3 images | 8.6 k, 2 s | `TypeOK`, `RecordedOnce`, `NeverCollides`, `ServesMigrated`, `InOrder`, `NobodyWaitsForever` |
| `LogStore` | 2 steps of 2 and 3 lines, 2 requests, 3 deliveries, an error of every kind | 0.96 M, 3.5 min | `TypeOK`, `OneLogPerStep`, `StoredInOrder`, `ReportedIsWhole`, `CountNeverOvercounts`, `OnlyCutDropsLines`, `CallbacksReturn` |
| `Delivery` | 4 repositories, 3 dialects, 2 attempts, every fault | 0.44 M, 2.5-3.5 min | `TypeOK`, `SuccessIsEarned`, `StoredOnce`, `SummaryIsBacked`, `ResultRecorded`, `RunEnds` |

Bounds.

- *Two requests and the reaper*: every race of the lifecycle is between two
  handlers, or one and the reaper, on one row; a third adds none, since each
  handler decides from at most one earlier read. The three conflicts that need
  two jobs (a target's conflict check, the reaper's scan, a follow-up) have
  their own instance. `Jobs` is also the number of ids, so a deleted job's row
  can come back only through a callback that names its id, as in the code.
- *`VIEW Visible`* in the lifecycle's passing safety runs leaves `granted` out of
  the fingerprint: no action reads it and no property of these runs speaks of it
  beyond its type.
- *Two step names*: the step claims create and one more. `Reported` leaves out
  `pending`, which no handler of the lifecycle treats differently.
- *Hub*: one event more than the backlog holds, so that it overflows; two
  callbacks, so that one publishes while the other waits behind a snapshot. That
  the safety properties hold for more browsers is proved.
- *Approval*: two records and two results let a verdict change between any two
  steps of a decision; a third job lets two follow-ups appear.
- *Migrations*: images in which the later one is not a prefix extension of the
  earlier; no counter bounds restarts, the state space is finite without.

- *JobLocks*: two requests and the reaper make every cycle of two kinds of
  handler and put a third one behind it. It has no engine that claims: a claim
  waits at one point and keeps nothing locked from one await to the next. One final
  status and one age of `ended_at` are enough, since no wait depends on them.
- *LogStore*: three deliveries are a message, its repetition and another
  message between or after them; with two handlers two of them overlap. Two lines
  of each step are two batches that may list the steps in opposite orders. Of the
  lines the final callback keeps the last (`Kept`): that of `s1` is smaller than the line before
  it, that of `s2` as large in bytes as both, so that a cut log may have as
  many lines and be turned down, or fewer and replace what was streamed. `Meta`
  makes one step's whole log longer than its user's lines. Two steps are needed for
  opposite lock orders and for two counts that miss each other.
- *Delivery*: `MaxAttempts` is 2 where the code makes 5: two attempts overlap, or
  one follows the other, and that nothing depends on the number is proved.
  The four repositories differ in which steps have a command; exit codes are
  zero and non-zero; `Worst` is a severity that has to be normalised, and gitleaks
  reports a critical one; `Fragile` limits failing saves to one step.

`CHECK_DEADLOCK FALSE` is set where the system really stops: in the lifecycle runs
when the job is deleted and no id is left, in the hub run when every connection of
the instance has gone, in `LogStore` when `MaxDeliveries` requests have been
handled, in `Delivery` when the run is over.

Fairness.

- `JobLifecycle!Fairness`: strong fairness for the next step of a request and of a
  failure, the reaper's included, since PostgreSQL hands a released lock to its
  waiter; weak fairness would let a failure wait for ever while one delete
  after another takes the row and is aborted. Weak fairness for deadlock detection,
  the reaper's own loop and the passing of time. No request ever has to arrive:
  engines owe the backend nothing. Nor does a restart: while the reaper is `off`
  nothing ends a silent job, and the run of `SilentJobEnds` has no such start.
  `SilentJobEnds` excludes running jobs without `last_event_at`; section 7 says why.
- `EventHub!Fairness`: weak fairness per coroutine. A send to a dead or stalled
  browser ends because the WebSocket server pings it and closes the connection;
  the FIFO of `asyncio.Lock` is in the model and needs no strong fairness.
- `Migrations!Fairness`: strong fairness for the lock, because PostgreSQL queues
  its waiters, weak fairness for the script's own steps. Nothing says that a
  replica does not fail: `NobodyWaitsForever` says it gets on or goes down.
- `LogStore!FairSpec`: weak fairness of each handler. `CallbacksReturn` needs
  no more: a cycle of waits stays until `DeadlockVictim` breaks it (it is one of
  batches, `DeadlocksAreOfBatches`), and every handler that is not in a cycle is
  behind one that ends. No message has to be
  sent or received.
- `Delivery!FairSpec`: weak fairness of the run (its commands have time limits), of
  the sender (its wait has a limit) and of each handler. Faults are never fair.

## 5. The proofs

Every theorem is for all values of the constants, under the named assumptions
of the module, which only say that identifiers of different kinds differ (in
`Delivery`, that `None` is neither a branch nor a status, in `LogStore` that it is
not a write), that bounds are natural
numbers, that exit codes are those of a process, and that sets of names are what
they are declared to be (`Critical` are weaknesses, `Listed` are steps).

| Module | Theorems | Inductive invariant |
|---|---|---|
| `JobLifecycleProofs` | `TypeCorrect`, `QueuedUnclaimed`, `SuccessWhole`, `ClaimFinal`, `NeverBack`, `LedgerImplemented` | `JobInv == TypeInv /\ RowInv /\ HolderInv` |
| `JobStepsProofs` | `Deleted`, `QueueSpared`, `StepsSettled` | the above with `DeleteIsComplete`, `ReaperInv`, `SettleInv` |
| `EventHubProofs` | `TypeCorrect`, `SnapshotIsFirst`, `NoGap` | `TypeInv`, `LockInv`, `ConnectedInv`, `ReceivedInv`, `GapInv` |
| `ApprovalProofs` | `TypeCorrect`, `NoCriticalAccepted`, `RecordsKeepJobs`, `FollowUpApproved` | `TypeInv`, `CriticalInv`, `RecordsHaveJobs` |
| `MigrationsProofs` | `TypeCorrect`, `HistoryRecorded`, `NoCollision`, `ServingMigrated`, `AppliedInOrder` | `MigrationInv` |
| `LogStoreProofs` | `OneRow`, `CountHolds` | `LogInv`, `CountInv` |
| `LogOrderProofs` | `TypeCorrect`, `InOrder`, `ReportedWhole`, `LinesKept`, `OnlyGrows`, `ListedKept`, `DeadlocksAreOfBatches` | `TypeInv`, `ContentInv`, `ExtendInv`, `FinalInv`, `QueueInv` |
| `DeliveryProofs` | `TypeCorrect`, `Earned`, `Once`, `Backed` | `TypeInv`, `EarnedInv`, `OnceInv`, `BackedInv` |

Why the invariants are stronger than the properties:

- *Lifecycle.* `TypeInv` adds that a handler that will write a row, a step or a
  claim knows which. That a success keeps its `overall_result`, and that a
  queued row is unclaimed, are not inductive: a handler with uncommitted rows
  that point to a job writes that job next, and were the row gone by then the
  write would bring back part of it. `HolderInv` says that the row of such a job
  is still there (its references keep a delete waiting). `RowInv` couples
  the columns: queued with no claimant and no claim time, success with an overall
  success, absence with an empty row, and presence with an issued id, so that a
  new job never takes the place of an old one.
- *The ledger.* A step of a handler changes the row of one job
  (`RowStep`); `RowImplements` shows each kind of change to be an operation of the
  ledger, with `JobInv` for what the row must have been before.
- *Steps.* `ReaperInv` follows a job from the reaper's scan to its failure: it is
  a used id that has left the queue, and by `NeverBack` it stays out.
  `SettleInv` says that a handler about to commit a failure has locked the job's
  row with every running step in hand; a callback that starts another step also
  writes that row, and so waits.
- *Logs.* `LogInv` says who may write a row: a handler that has an
  uncommitted write holds the step's lock, the log's lock or both, and no other
  handler holds the same one (`Guarded`, `Apart`); a batch and a final callback,
  which hold different ones, are kept apart by the step being over; an insert was
  decided on what is still stored (`Fits`). `CountInv` says that what a
  handler counted is finished, or is the step it is about to finish.
- *What the logs hold.* `TypeInv` adds to the types what a callback of each type
  carries: one line, the whole log, the last lines. `ContentInv` says of a
  stored row what its source allows (`Faithful`: rising lines of the step, none
  beyond `log_sequence_end` when batches wrote it, the whole log when
  `step_complete` did, its last lines when `pipeline_complete` did), and of an uncommitted write that it still may be made
  (`Ready`): `LogInv` gives that no one else has a write of that log
  (`SoleWriter`), so what it was computed from is still stored, and it keeps every
  line a user could read there (`Retains`) or is a cut log that is no smaller
  (`Keeps`). A whole log is never turned down, since no log whose lines are among
  its own is larger in bytes (`SizeWithin`: the octets of the one map into those of the
  other, and onto them only if the logs are equal); for the same reason no cut log
  replaces it. `LinesKept` is the step from one `ContentInv` to the next: the write
  that is applied drops no line but as `Keeps` says. It is not true that a log never
  gets shorter: `content_bytes >= existing_bytes` lets one long line replace two
  short ones that were streamed, if the step's own `step_complete` never came.
  The lemmas on `Nth` and `Pick` (positions rise, nothing is lost or added) take
  the place of an induction over the length of a log: a rank function from the
  kept positions onto `1..n` is a bijection, by the library's facts on
  cardinalities.
- *While a step runs.* `ExtendInv` says that an uncommitted batch has the stored
  log as its beginning. `OnlyGrows` follows for all steps that are not over.
- *The steps that are left out.* `FinalInv` follows the list of a final callback:
  what is not saved yet is still on the list, so every listed step is finished
  before `_save_log_lines` begins. Hence `ListedKept`, which has no `exposed` in
  it: if the saves of the final callback do not fail (`"final"` is not in
  `Faults`), the steps it lists keep one log, in order, and whole once reported.
- *Who waits for whom.* `QueueInv` says that a handler between transactions
  holds no lock, and that the last transaction of a final callback has locked
  logs of steps that come before the one it asks for. Of the final callbacks in
  a cycle the furthest one would wait for none of the others
  (`FurthestParses`), so there is none in it, nor a save that waits for one:
  `DeadlocksAreOfBatches`. It covers the locks of the steps and of the logs,
  where `WaitsFor` needs only the first because of it. That the dict of
  `_save_log_lines` gives every step once is its hypothesis; the instance of the
  run satisfies it.
- *Delivery.* `EarnedInv` relates three places: the verdict the runner
  accumulates, the payload, and the rows. `OnceInv` says that, without a fault or
  an overlap, at most one handler is busy, and that the tables are empty until
  it has parsed. `BackedInv` needs that findings of different scanners stay
  different when their severities are normalised (`CountedIsStored`).
- *Hub.* That no event is missed by a streaming browser is not inductive at the
  moment its snapshot is sent: `GapInv` says that every event the snapshot
  lacks, and the backlog still had, has a publisher that waits for the lock,
  which `LockInv` shows the subscriber to hold. `ConnectedInv` then makes the
  publisher's later copy include the browser.
- *Approval.* `CriticalInv` follows a critical weakness along its only possible
  way: `block_reasons` of a verdict that asks for approval, the record, what a
  handler carries, the job.
- *Migrations.* Whoever has read the table under the lock has read what is in
  it (`LockInv`, `SeenInv`); the migration in the open transaction is the next
  of its image (`NextInv`).

Every safety property that a passing run checks is stated by a theorem. TLC alone
covers, on the instances of section 4:

- the liveness properties, which need fairness: `SilentJobEnds`,
  `RequestsReturn`, `PublishReturns`, `DeadSocketsLeave`, `NobodyWaitsForever`,
  `CallbacksReturn`, `ResultRecorded`, `RunEnds`;
- the violations;
- that `Pick` is `SelectSeq`: the latter is recursive, and what it returns for
  every sequence would take an induction over the length.

## 6. Where code and text disagree

- **Two engines may both be given one job** (`JobDoubleGrant`). `claim_job`
  reads the row, then runs `UPDATE ... WHERE status = 'queued'` and does not
  look at its row count. The second engine's UPDATE changes nothing and it is
  still answered 200, where `ENGINE_INTEGRATION_GUIDE.md` promises 409. The row
  itself stays right: `ClaimIsFinal` is proved.
- **A job that has ended may get another status** (`JobTerminal`). TLC shows a
  cancel over a success; a failure over a success or a cancel, a log batch that
  makes an ended job running, and a final callback over a cancel have the same
  window, between the look at the status and the write by job id.
- **A decided approval record may be decided again** (`ApprovalDecisions`).
  `approve_job` and `reject_job` write the record they loaded by primary key.
  TLC shows a rejection over an approval whose follow-up job is queued; two
  approvals queue two follow-ups.
- **The reference engine's findings are stored nowhere** (seen in the code;
  `Payload` brings none of them to the backend, and no run is spent on it).
  `ubuntu_runner.py` lists what gitleaks and semgrep find in the metadata of its
  steps. `_save_parsed_data_to_db` takes findings from `security.findings` or from
  the text of the pipeline's log, and never from there, although its docstring
  names `steps[].metadata.findings`. The summary of such a job says `passed`.

Two more windows of the same kind are reachable in the models and are listed
under the hazards: two requests of `create_pipeline` that both pass the conflict
check, and two of `request_approval` that both find no pending record.

## 7. What is not covered

- *Corners the lifecycle properties leave out.* A running job whose
  `last_event_at` and `claimed_at` are null and that has a step is not matched by
  any of the reaper's conditions: it can be reached by a callback that
  re-creates a deleted row, with a step written before another event. Jobs that
  are queued and never polled for stay queued; no code ends them. A claim whose
  UPDATE matched no row can insert a running clone step on a job that has
  failed, which is why `FailSettlesSteps` excludes that step.
- *Corners the log properties leave out.* A batch and the last transaction
  of a final callback that overlap on a step that has not been saved (`exposed`):
  by `ListedKept` a step that the callback does not list, or could not save.
  `completed_steps` may stay too low: two saves count without each other.
- *Corners the delivery properties leave out.* Attempts that overlap store
  findings, artifacts and deployments twice (`overlapped`), and after an error or
  a restart between the job's terminal status and the saves the retry is
  ignored as late and the rows are missing for ever (`faulted`).
- *Result contents*: snippets and AI suggestions of findings, file paths, artifact
  names; and the fallback that reads steps over SFTP when a callback has none
  (`result_fetcher`).
- *In-memory caches, result files, SSH, read endpoints*: pure I/O or fallbacks
  of reads; none of it decides a transition. The time a kill over SSH takes is
  in the model as the step between `CancelRead` and `CancelWrite`; the failing
  write of a result file is `ResultStore!Refuse`.
- *`TriggerService`* in `app/service.py`: nothing calls its `trigger`.
- *Authentication, GitHub proxy, clients*: stateless calls and
  library code around one upsert of a user; interactive prompts.
- *Deployment scripts*: shell around Docker, nginx and pm2, run by one
  operator or one CI job at a time.
- *Migrations*: the SQL of the files, and databases migrated by hand before
  `schema_migrations` existed.
- *Isolation*: READ COMMITTED and row locks are modelled from their use here.
  `JobLifecycle` has the locks of steps and of jobs; a batch there is of one step,
  and a step's log is locked and deleted with the step; claims, cancels and final
  updates wait at one point and are one step each, as is the claim's UPDATE with
  the row of its clone step. `LogStore` has batches of several steps and the advisory
  locks only: a cycle there through a lock and a row of `pipeline_steps` is what it
  comes to, an error of one transaction. It also leaves out the row of the clone
  step that a claim inserts and the end of a step that `_fail_job_in_db` writes.
  The last transaction of a final callback sets line counts of steps
  (`SaveParsed`) without a wait of its own. Connection pools,
  statement timeouts and failover are one event, an error.
