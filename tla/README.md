# Verification of Azure Support Agent

Azure Support Agent is a FastAPI application (`src/backend/app`) with a React
front end. It runs in one or more replicas over one SQL database (PostgreSQL in
production, SQLite on one machine). Most of it collects Azure data and shows
it; what is hard to get right is the machinery that lets long work outlive the
request that asked for it, on several replicas at once, through crashes,
cancellations and failed database calls. That machinery is what these modules
model: TLA+ specifications, TLC configurations that check them on small
instances, and TLAPS proofs of nearly all of their safety properties for every
instance.

Paths below are relative to `src/backend/app` unless they begin with `src/`.

## 1. Inventory

### Components in the models

| component | state | operations | talks to |
|---|---|---|---|
| **Durable job store** `core/durable_jobs.py` `DurableJobStore` | three tables: one slot row per scope (tenant, feature, key) with the current job and a lease; job rows (status, fencing token, lease, cancel flag, attempt, event counter, result, expiry); numbered event rows | `claim`, `append_events`, `heartbeat`, `lease_state`, `request_cancel`, `interrupt_expired` (and the readers that call it), `finalize`, `dismiss`, `cleanup`, `events_after`, `load_current` | SQL; called by every executor in every replica |
| **Durable job executor** `DurableJobExecutor`, `DurableJobContext`, `DurableJobJanitor` | per replica: a map scope -> task, a map scope -> heartbeat task; locals of `_run` and `monitor_lease` | `start`, `_run`, `monitor_lease`, `emit`, `checkpoint`, `cancel`, `stop`, the janitor's pass | the store; the feature's runner it calls |
| **Chat turn runner** `agent/turn_runner.py` | per turn: an in-process queue, the writer task, the worker task; the durable job of the chat | `start`, `emit`, `_write_events`, `close_durable`, `cancel`, `subscribe` | the store; the agent orchestrator (the worker); SSE clients |
| **Work-batch control plane** `core/work_batches.py` | batch rows and item rows with status, attempt, back-off, owner, token, lease; per replica four worker loops | `create_batch`, `cancel_batch`, `delete_batch`, `retry_batch`, `_claim_next`, `_heartbeat`, `_finish_item`, `_fail_or_retry`, `recover_interrupted`, `start`, `stop`, the coordinating executor of inventory cost | SQL; the features' item executors |
| **Scheduler** `automations/scheduler.py`, `automations/runner.py`, `api/automations.py` | task rows with status, next occurrence, the claimed occurrence and its lease, completed runs; per replica the set of running tasks, a semaphore, the tasks in flight | `_claim_due`, `_dispatch`, `_heartbeat`, `_release_claim`, `start`, `stop`; `run_task`, `run_target_task`, manual runs; upsert, toggle, delete, restore, purge | SQL; the targets (agent, assessment, workbook, playbook) |
| **Alerts Manager changes** `api/alerts_manager.py` | rows of proposed changes with status and prerequisites; the resources in Azure | `decide_change`, `bulk_decide_changes`, `apply_change`, `bulk_apply_changes`, `rollback_change` | SQL; Azure Resource Manager, one call after another inside a request |
| **Backup Manager changes** `api/backup_manager.py`, `backup_manager/changes.py`, `backup_manager/lro.py` | rows of proposed changes with status, first decider, poll time and deadline; per replica the poller | `decide_change`, `bulk_decision`, `bulk_apply`, `rollback_change`, `OperationPoller.tick` | SQL; Azure's long-running operations |
| **Mission admission** `missions/orchestrator.py` | in one process: pending missions, active missions and their lanes | `acquire`, `release`, `_run`, `cancel` | the executor, which cancels the mission's task |

How they interact: a route handler calls an executor's `start`, which claims the
scope in the store; whoever acquires the claim runs the feature's code beside a
lease monitor; everybody else attaches to the job and polls its event rows.
Chat turns do the same with a queue between the worker and the rows. Work
batches have their own tables and claim under one advisory lock, so that
admission limits hold over all replicas. The scheduler claims task rows the same
way and runs targets beside a heartbeat; a user may run the same task by hand
meanwhile. The two change ledgers know no lease at all: a request reads rows,
talks to Azure and commits at its end, beside other requests and, for backups,
the poller. A mission runs in the durable executor and queues for its lane there.

What is hard here, and what makes each part correct:

- *Store.* Two rows per scope must change together under claims, renewals and
  recoveries of several replicas; any call may arrive arbitrarily late. Correct
  means: one runner at a time, nothing written by a runner that has been
  replaced, a history without holes, a terminal job that never changes.
- *Executor.* The monitor, the runner, `cancel`, `stop`, the `_forget` callback
  and a re-claim by the same replica interleave at every `await`; cancellation
  is delivered where a task waits. Correct means: a runner that has lost its job
  stops within a known time, a healthy one never loses it, an orphaned job ends,
  a cancellation reaches its runner wherever it is.
- *Turns.* A worker emits into a queue, a writer batches into rows, clients page
  through the rows and decide when the turn is over. Correct means: a finished
  turn can be replayed, nothing is lost between the last page and the end, and
  streams end.
- *Work batches.* Leases, retries, cancellation, recovery at start and stop, and
  aggregation of the batch's status from its items. Correct means: bounded
  admission, no item run twice while heartbeats work, results that stand, a
  batch that is over exactly with its items, and every batch reaching an end.
- *Scheduler.* A claim advances the schedule, a run that fails or loses its lease
  gives the occurrence back, and stops, crashes, edits and manual runs come in
  between. Correct means: no occurrence completed twice or skipped, one scheduled
  run of a task at a time while heartbeats work, every occurrence settled.
- *Change ledgers.* Nothing locks a row between its reading and the commit, many
  Azure calls later. Correct means: nothing is created before what it requires,
  nothing dual is submitted on one person's approval, what was rejected is not
  applied, and no change is "applying" for ever.
- *Mission admission.* A mission may be cancelled at every `await`. Correct means:
  the caps hold, and slots are neither kept by missions that are over nor left
  idle while somebody waits.

### Components left out

`PROJECT.json` lists all of them with the reason. In short:

- *sequential or one transaction per operation*: the network policy's
  commit-confirm (`core/netaccess.py`, `api/firewall.py`), `core/genjob.py` (a
  smaller executor over the modelled store), login lockout, the Resource Graph
  throttle, Change Explorer admission, SIEM export, JSON registries. A race in the
  first: a confirmation that comes after the window has lapsed, but before the
  scheduler's revert is written, clears the timer (`api/firewall.py:262` looks at
  the mode only), so enforcement is permanent although it had lapsed.
- *not worth or out of a model's reach*: the feature registries on the executor
  (they add nothing to what a runner may do in the executor's model), the
  profiler's fleet worker (the ancestor of the work batches), collectors and
  scorers (pure functions of Azure data), the agent loop (its decisions are a
  language model's), authentication and HTTP handlers (one transaction each,
  library protocols), command execution, the front end, deployment and migrations.

The hazards of these parts, modelled or not, are in `PROJECT.json` with their
lines. Lesser ones found on the way, for later: two failed logins that read the
same count (`auth/ip_lockout.py:111`); requests that pass the cost limit together
(`core/cost_controls.py:74`); the throttle's local fallback, which does not see
the shared window (`azure/arg_throttle.py:204`); leases of analyses deleted while
the analyses run (`changeexplorer/admission.py:70`); readers of JSON files that
see a cached value, or the default for a file that cannot be read for a moment
(`core/jsonstore.py:258`); a claim that raises when the winner's job is dismissed
at once (`core/durable_jobs.py:204`); the monitor of a generation job, which cancels
whatever task has its key by then (`core/genjob.py:116`).

## 2. Plan

Done, in this order, each step using the ones before:

1. `DurableJobStore`, the transactions; `JobContract`, what callers may rely on;
   `DurableJobStoreProofs`, the proofs.
2. `DurableJobTx`, the same transactions as SQL statements: it shows that
   treating them as atomic is right.
3. `DurableJobExecutor`, the replicas on top (EXTENDS the store, uses its
   actions).
4. `TurnStream`, queue, writer and subscribers on top of what the store shows.
5. `WorkBatches`.
6. `Scheduler` with its runner and the endpoints that change a task.
7. `AlertChanges`, `BackupChanges`, `MissionAdmission`: services that share
   nothing, put side by side by `Services` and checked in one run.

Each module has its proofs beside it (section 5): `DurableJobStoreProofs`,
`DurableJobTxProofs`, `DurableJobExecutorProofs`, `TurnStreamProofs`,
`WorkBatchesProofs`, `SchedulerProofs`, `ChangeLedgerProofs` for both ledgers, and
`ServicesProofs` for the missions and the three services side by side. Every
invariant and action property that a passing run checks is proved.

Candidates for more modules: `JobRegistry` as an instance of the executor with
fewer checks, `NetAccess` with its commit-confirm, `AnalysisAdmission`.

## 3. Modules and the code

`PROJECT.json` maps every definition to its lines. The correspondence of state:

### DurableJobStore (and JobContract)

`slot`, `job`, `events` are the rows of `DurableJobSlot`, `DurableJob` and
`DurableJobEvent` of one scope; no transaction relates two scopes. `claims` are
all claims ever returned: *any of them may be used for any fenced call at any
later time*, which is how paused, superseded, crashed and duplicated runners are
covered. Tokens are numbers in order of issue instead of uuid4 values; payloads
of events and results are reduced to the token that wrote them; `clock` is true
time and every call's `utcnow()` is off by up to `MaxSkew`. One action per
committed transaction: `ClaimNew` and `ClaimRecover` are the two outcomes of
`claim` (a claim that finds the slot held changes nothing), `AppendEvents`,
`Heartbeat`, `RequestCancel`, `InterruptExpired`, `Finalize`, `Dismiss`,
`Cleanup`.

`JobContract` is the promise without slots, leases and clocks: a scope works on
one job at a time, turns are granted in order, the history only grows while the
job is open and is sealed with its verdict. `ImplementsContract` maps the tables
to it.

### DurableJobTx

`tx` is where each database session stands, `slotLock` and `jobLock` the row
locks. `ClaimSlot`, `ClaimRead`, `ClaimWriteOld`, ... are the statements in the
order of the code; a commit is merged with the last statement. `Attach` is the
reader's side of a claim that lost, `"raised"` its RuntimeError
(`core/durable_jobs.py:204`). `Drop` aborts a session anywhere;
`BreakDeadlock` is PostgreSQL's detector.

### DurableJobExecutor

`run[k]` is the runner task and the monitor of the claim with token `k`: its
phase names the `await` it is at (see the comment at `Phases`), `cancelled` is a
`task.cancel()` not yet delivered, `mon`, `due`, `renew`, `confirmed`, `reply`
are `monitor_lease`'s locals. `start` awaits its claim without a timeout, so where
`Failures` is TRUE the answer may come up to `ClaimWait` later (a bound of the
model), whatever has become of the claim by then; `began` and `displaced` are what
it found. `tasks` is the map of the replica, `calling` a
`cancel` call between its commit and its look at the map, `up` the replica's
life. The feature's runner (`working`) may emit, checkpoint, return, raise or do
nothing for ever. Event loops are prompt: what is due happens before time moves.

### TurnStream

`turn[t]` holds the status of the job row, the phase of `_runner`, how many
events were emitted, taken from the queue and stored, and the writer's state;
`current` is the slot's job; `client[c]` a subscriber: the statement it is at and
the last sequence number sent. `behind` is an observer (how much was unsent when
the turn was seen over). Numbering, fencing and trimming of the rows are taken
from the store, where they are proved. `TurnsKeepContract` maps the turns to
`JobContract`, one job per turn, each executed once: what was left out of the
store here does not let a turn break the store's promise.

### WorkBatches

`batch`, `item` are the rows, `worker[w]` one loop with its executor and
heartbeat, `faults` counts what went wrong (a bound), `missed` records that a
heartbeat failed. `FinishRead` and `FinishWrite` are the two halves of
`_finish_item` and `_fail_or_retry` between which a cancellation may commit;
`ReadExternal` and `WriteExternal` are those of `_complete_external_item`, between
which anything may happen to the item (`closing` names the ones a worker is at,
`overwritten` records that the write ended an item under another worker's lease);
everything else is one transaction under the advisory lock or row locks. With
`ClaimMates` these are the inventory-cost executor. Times are kept as what is left
of them, so the model has no horizon. Results: `"partial"` behaves as `"failed"`
where it matters and is left to the type.

### Scheduler

`task` are the rows of `ScheduledTask`: `next` is `next_run_at`, `pending`
`lease_occurrence_at`, `left` what is left of the lease; occurrences are numbered
as the schedule has them up to its end date, so `compute_next_run` is the next
number, or none. `due` is the wall clock, per task. `replica[r].runs` are the
tasks in flight with their heartbeats, `running` the set `_running_ids`. `manual`
is a manual run between its `db.get` and its commit, which writes only the columns
it changed; occurrences may come and be claimed meanwhile, and `rewound` counts
how often its write put each of them back. `Begin` and `Reload` are the unlocked
`_load_task` calls, `Complete` the locked one at the end; `Raise`, `ReleaseFails`,
`BeatFails`, `Stop` and `Crash` are the faults, `MaxFaults` of them, at the
replicas in `Faulty`. `Edit` is every endpoint that changes a task, in one step;
none touches an unfinished occurrence or its lease.

### AlertChanges

`status` is the ledger, `exists` the resources in Azure, `request[a]` the request
an administrator has under way: what it read (`todo`, `approved`, `applied`), the
branches it saw fail, and what its commit will write. `Decide`, `BulkDecide`,
`Apply`, `BulkApply` read, `Skip` and `Execute` take one row after the other in
topological order, `Commit` writes, `Lose` is a request that dies. `Create` and
`Remove` give the outcomes of the check of the live state and the write that
follows; a call that failed may have taken effect. A clone that was read as failed
and fails again leaves the column as it is in the table (`again`, `ResultOf`).
`Rank` is a topological order the code could choose.

### BackupChanges

`row` is the ledger (`overdue` folds deadline and attempts together), `by`
`decided_by`, `line` the applying rows in the order of `poll_after`, `session[s]` a
request as above, `tick[p]` a poller between its query and its commit. `Submit`
takes the rows of a bulk apply in any order, since they are submitted
concurrently; `TickReads` finds any non-empty prefix of `line` due.

### MissionAdmission

`pending` and `active` are the queue's lists, `mission[m].at` the `await` a
mission is in, `hit` a cancellation not yet delivered. Between two awaits
everything is one action, `_dispatch_locked` included. `leaked` records missions
that ended without giving back their slot (section 6).

### Services

EXTENDS the three modules above; `part`, chosen at the start, says which of them
moves. They share no variable and no row, so no behaviour is lost.

## 4. Runs

| run | what it asks | distinct states |
|---|---|---|
| `durable_store` | types, the four safety invariants, two action properties and the contract, with 2 jobs, 3 tokens, batches of 1 and 2 events, a window of 2, clocks off by one | 568,334 |
| `durable_tx` | the statements of two sessions implement the atomic transactions; what was read still holds when acted on; every call ends, although lock orders cross | 465,596 |
| `executor_overlap` | two replicas with failing and late database calls, late claims: how long a superseded runner goes on; the task map | 828,885 |
| `executor_live` | two replicas with crashes, restarts, stops and cancellations: renewals are in time, orphans end, cancellations arrive | 395,368 |
| `turn_stream` | two turns of a chat, a failing writer, a client: replay, no lost tail, arrival, end, one job per turn | 437,857 |
| `turn_stream_page` | **violated**: a replay is complete however long the history | |
| `work_batches` | two workers, two batches, retries, external completions in two steps, one fault: admission, double work, results, aggregation | 1,696,143 |
| `work_batches_live` | four items, a claim that looks at two: every batch nobody cancels ends; lanes do not wait for each other, short of what a claim looks at | 180,380 |
| `work_batches_cancel` | **violated**: a cancelled batch reaches its end | |
| `scheduler` | two replicas, two tasks, manual runs, edits, one fault: completions, overlap, skipped and stuck occurrences | 540,568 |
| `services` | the change ledgers with overlapping and dying requests, the poller, mission admission with a cancellation anywhere | 758,909 |
| `alerts_cancelled` | **violated**: a rejected change is not created | |

### What the properties mean

- `SlotGuardsRun`: a running job is the slot's, under the same token and expiry,
  and a leased slot has a running job. Mutual exclusion and "an expired lease
  frees the scope" in one.
- `LastClaimDecides`, `FencedHistory`: a result and every event come from the
  right runner whatever was delayed. `ReplayWindow`: the stored events are
  exactly the newest `EventLimit` numbers handed out. `TerminalIsFinal`,
  `NoEarlyTakeover`: what a step may never do to a terminal, a removed (nothing is
  left of it and nothing comes back) or a leased job.
- `ReadsStillHold`, `AtomicTransactions`, `EveryCallEnds` (Tx): the plain SELECT
  of a claim is as good as a lock, because the slot's lock was taken first; the
  ownership a heartbeat or finalize found cannot be lost before its second
  statement; crossing lock orders cost an abort, never a hang.
- `OverlapBounded`: a superseded runner that is still in its replica's map leaves
  the feature's code at most `2 * OpTimeout + Control + MaxSkew` after the end of
  the lease it last wrote; one whose claim was answered late, at most `OpTimeout +
  Control` after a lease counted from its own beginning, which is where
  `confirmed_until` starts. `HealthyKeepsLease`: without failures a monitored
  runner is never superseded. `LatestRegistered`: the run that owns the job can be
  reached by `cancel` and `stop`, unless an older claim of its replica was
  answered after it and took its place in the map. `OrphansEnd`,
  `CancelReachesOwner`: liveness of the above.
- `DoneIsReplayable`: a turn that ended "done" has stored every event, unless its
  writer failed. `StreamedToTheEnd`: a stream that ended had sent every stored
  event, if it was less than a page behind. `TurnsKeepContract`: one turn runs at a
  time, rows are added only while it does, and it ends once, by its own finalize or
  by nobody's. `EventsArrive`, `StreamsEnd`: liveness.
- `BatchOverWithItems`: a batch is over exactly when its items are.
  `AdmissionBounded`, `NoDoubleWork`: lane and feature limits, and one executor
  per item, over all workers, while heartbeats get through (and, for the limits,
  until a completion has overwritten another worker's lease). `ResultsStand`: an
  item that has ended stays so, and only its holder or a recovery ends it, with the
  second step of `_complete_external_item` as the one exception. `WorkSettles`:
  liveness. `LanesIndependent`: an item among the candidates a claim looks at does
  not wait for those of other lanes; one behind them does (section 6).
- `CompletedOnce`, `NothingSkipped`: an occurrence is completed at most once, and
  once more for each time a manual run's end put it back (section 6); and it is owed
  until it is completed, cut off by the run limit, or dropped by an edit
  or a manual run, which reset the schedule. `OneRunAtATime`: no two scheduled
  runs of a task are at work, over all replicas, until a heartbeat fails.
  `OccurrencesSettle`: no occurrence is owed for ever.
- `PrerequisitesFirst`: no resource of a plan was created before those it
  requires. `CancelledNotApplied`: section 6. `TwoApprovers`: a dual change that
  reached Azure was approved by two. `ChangesConverge`: none is applying for ever.
  `LanesKept`: caps, ownership of slots and no idle slot while a mission waits.

Each of these has a mutant: a small plausible change of one definition (a dropped
guard, an off-by-one, a missing reset) under which TLC finds the property
violated with the same bounds.

### Bounds, and why they are enough

- Store: two job ids are a predecessor and a successor of a scope (ids are never
  reused, so a third adds only another predecessor); three tokens give two
  recoveries, or a recovery and a new execution; `MaxTime = 5` holds two leases
  of 2 and the skew; three numbers against a window of 2 with batches of up to 2
  make the trim cut inside a batch and across a recovery. The proofs remove all
  of these bounds.
- Tx: two sessions, because the longest wait cycle these lock orders allow has
  two (slot and one job). Leases, batches and windows of one: each transaction's
  statements do not depend on them. `MaxSkew = 0`: a session keeps the `now` it
  began with while time goes on, which already gives sessions different clocks.
- Executor: two replicas, two tokens: an owner and its successor on the same or
  the other replica. The overlap run needs database failures and no cancellations;
  the live run the reverse. `ClaimWait = 2` in the overlap run is a whole lease,
  so that a claim may be answered after its job was recovered; the live run has no
  late claims. The replicas of the overlap run are symmetric. `LeaseLen = 2` with
  all intervals 1 is the tightest setting in which the window still closes late;
  `LeaseLen = 3` is the smallest in which renewal is in time (in the code the
  ratios are 1/3 for renewal and 1/6 for the control interval, more comfortable).
  Time ends at `MaxTime`; a renewal becomes due early when the end is near, so
  that the horizon itself cannot expire a lease (`TimeIsUp`).
- Turns: a turn of 3 events with batches of 2, a window of 2 and pages of 1 makes
  batches, trims and pages cross; the second turn of the chat has none and is
  there to take over the slot. The page run has one turn of 6 with pages of 2.
- Work batches: two items of one lane and feature and one of another, two
  workers, two attempts, one fault (stop, crash, failed heartbeat, failed write).
  In `work_batches` the first batch is either of a feature with limit 2, so that
  only the lane keeps its two items apart, or coordinated, with limit 1 and the
  second batch of the same feature on another lane, so that only the feature
  does. One item can be live in a lane, so a third there repeats the second, except
  for the scan: `work_batches_live` has three items in one lane, a fourth in
  another and a `Scan` of two, so that a claim does cut candidates off. Workers are
  symmetric in the run without liveness.
- Scheduler: an agent task that occurs once and a target's task that occurs twice.
  The first one's `max_runs` is its one occurrence; the second one's is one more
  than its two, so that with a manual run the limit or the end date can end it,
  and an occurrence that was put back can be completed again; one slot per replica
  makes the semaphore and the capacity bite; one fault, one manual run and one
  edit meet each other and a takeover in any order. The fault is at one of the two
  replicas, which are alike, so it might as well be the other. A lease of two
  heartbeats is the smallest one that a missed beat loses.
- Services: the wizard's deepest plan, a resource group, an action group in it
  and a rule that routes to it, with a rollback of the rule, selected alone or as
  a whole by two administrators. Two subjects over a dual change, an ordinary one
  and its rollback; one poller with batches of one, so that a row can be behind
  another (every replica has a poller; they only repeat each other's polls). Four
  missions in three lanes under a cap of two and one per lane, so that a mission
  may overtake another; one cancelled.
- `CHECK_DEADLOCK FALSE` in every configuration: a scope whose tokens and time
  are used up, a chat whose turns are over, batches that have all been deleted
  are at rest. That nothing is stuck before is what the liveness properties say.

### How the liveness properties are stated

Each of them says `P ~> Q`, and all but `CancelSettles` are written `[]<>(P => Q)`.
In general that is weaker; here it is the same, since only `Q` ends `P`: either
`Q` is `~P` (a row is applying ~> it is not; `ChangesConverge`, `OccurrencesSettle`,
`LanesIndependent`), or `~P` implies `Q` (`EveryCallEnds`, `WorkSettles`), or what `P`
says stays true until `Q` (`EventsArrive`: what is emitted stays so; `StreamsEnd`: a
turn that is over stays so; `OrphansEnd`: a run that is gone does not come back;
`CancelReachesOwner`: a request stands while its job is owned). TLC needs no tableau
for this form and checks it in a fraction of the time.

### Fairness, and why the code justifies it

- Tx: strong fairness of a session's next statement (PostgreSQL queues waiters of
  a row lock in order), weak fairness of the deadlock detector.
- Executor: weak fairness of time, of every ready task step (asyncio runs what is
  ready) and of restarts (the container platform), strong fairness of the
  janitor, which makes a pass on start and every minute while replicas may crash
  in between. None for the feature's code: it need not return, emit or check.
- Turns: weak fairness of writer, closing steps and clients; a cancelled worker
  ends; a turn whose runner is over without finalizing is interrupted when its
  lease runs out. A worker need not end.
- Work batches: weak fairness of time, of the loops (they poll every 30 seconds
  and are woken), of heartbeats, of transactions, of restarts. Executors return
  only where a property assumes it (`ExecutorsReturn` in `WorkSettles` and
  `CancelSettles`); `LanesIndependent` does without.
- Scheduler: weak fairness of time, of each replica's claims (a tick every 30
  seconds), of its heartbeats, of the steps of its runs (targets return or raise),
  and of restarts. Faults are finitely many.
- Backup changes: weak fairness of the poller's ticks and of time; strong fairness
  of a tick's commit, since the loop goes on whatever a tick raises and the
  database does not fail every commit for ever. Azure need never answer. The other
  two services have safety properties only and no fairness.

## 5. Proofs

Every theorem is for all values of the constants that the module's assumption
allows: any number of jobs, replicas, workers, tasks, changes, missions, any
limits, intervals and clock differences. The bounds of the model (`MaxTime`,
`MaxToken`, `MaxFaults`, ...) are arbitrary numbers in them.

| theorem | states | module |
|---|---|---|
| `TypeCorrect` | `Spec => []TypeOK` | `DurableJobStoreProofs` |
| `OneRunner` | `Spec => []SlotGuardsRun` | |
| `FencedOutcome` | `Spec => []LastClaimDecides` | |
| `FencedEvents` | `Spec => []FencedHistory` | |
| `ReplayHasNoHole` | `Spec => []ReplayWindow` | |
| `TerminalFinality` | `Spec => TerminalIsFinal` | |
| `LeaseProtects` | `Spec => NoEarlyTakeover` | |
| `StoreImplementsContract` | `Spec => ImplementsContract` | |
| `RemovalIsComplete` | `CascadeDeletes` assumed: `Spec => []NoOrphanEvents` (nothing is left of a removed job, which `TerminalIsFinal` amounts to) | |
| `NoStaleRead` | `TxSpec => []ReadsStillHold` | `DurableJobTxProofs` |
| `TransactionsAreAtomic` | `TxSpec => AtomicTransactions` (that is, `Spec`) | |
| `StatementsImplementContract` | `TxSpec => ImplementsContract` | |
| `ExecutorUsesStore` | `ExSpec => Spec` | `DurableJobExecutorProofs` |
| `ExecutorImplementsContract` | `ExSpec => ImplementsContract` | |
| `ExecutorTypes` | `ExSpec => []ExTypeOK` | |
| `OwnersAreRegistered` | `ExSpec => []LatestRegistered` | |
| `SupersededRunsStop` | `ExSpec => []OverlapBounded` | |
| `HealthyRunsKeepTheirLease` | intervals with room (below): `ExSpec => []HealthyKeepsLease` | |
| `StreamTypes` | `StreamSpec => []StreamTypeOK` | `TurnStreamProofs` |
| `DoneTurnsAreComplete` | `StreamSpec => []DoneIsReplayable` | |
| `StreamsReachTheEnd` | `StreamSpec => []StreamedToTheEnd` | |
| `LongPagesReplayAll` | `Page >= Limit` assumed: `StreamSpec => []WholeReplay` | |
| `TurnsImplementContract` | `StreamSpec => TurnsKeepContract` | |
| `BatchTypes` | `BatchSpec => []BatchTypeOK` | `WorkBatchesProofs` |
| `BatchesAreOverWithTheirItems` | `BatchSpec => []BatchOverWithItems` | |
| `AdmissionIsBounded` | `BatchSpec => []AdmissionBounded` | |
| `ItemsRunOnce` | `BatchSpec => []NoDoubleWork` | |
| `ResultsAreKept` | `BatchSpec => ResultsStand` | |
| `SchedTypes` | `SchedSpec => []SchedTypeOK` | `SchedulerProofs` |
| `CompletedAtMostOnce` | `SchedSpec => []CompletedOnce` | |
| `NoOverlappingRuns` | `SchedSpec => []OneRunAtATime` | |
| `NoOccurrenceSkipped` | `SchedSpec => NothingSkipped` | |
| `PrerequisitesComeFirst` | `AlertSpec => []PrerequisitesFirst` | `ChangeLedgerProofs` |
| `OverlapAlone` | one administrator assumed: `AlertSpec => CancelledNotApplied` | |
| `TwoApproversNeeded` | `BackupSpec => []TwoApprovers` | |
| `NothingLeftBehind` | `BackupSpec => []BackupTypeOK` | |
| `LanesAreKept` | `MissionSpec => []LanesKept` | `ServicesProofs` |
| `ServicesTypes` | `ServicesSpec => []ServicesTypeOK` | |

Each of these modules also has the theorem that its inductive invariant holds
(`StoreInvariant`, `TxInvariant`, `ExecutorInvariant`, ...), which TLC had found
to hold, on the runs' configurations, before it was proved. A proof has one
preservation lemma per action and one step per conjunct the action disturbs; what
many actions share (a row that is released, a run that is over, a session another
one does not disturb) is a lemma of its own.

### The inductive invariants

*Store*, `IInv`: type correctness, `SlotGuardsRun`, `LastClaimDecides`
and `FencedHistory` together with three facts none of them implies.
`RunnerToken`: the running row carries the last token issued; without it a later
claim could not be told from the runner's. `OpenRowHasNoResult`: a row that is not
terminal has no result, and an unborn one has numbered nothing.
`EventsBelowCounter`: the numbers in use are below the counter and, while the job
runs, written by runners no later than the present one, so that what the next
append adds comes after everything there in both orders. `FencedHistory` is not
inductive alone (the next append could repeat a number or carry an older token),
nor is `LastClaimDecides` (a finalize stores its own token: that no claim of the
job has a higher one is `RunnerToken`), and the two row updates of a heartbeat or
finalize match together only because of `SlotGuardsRun`. `ReplayWindow` is
inductive beside `EventsBelowCounter` and needs an argument about ranks: in a
window that is an interval, dropping the rows outranked by `EventLimit` others
leaves the top of the interval (lemmas on cardinalities of integer intervals).
The two action properties and the refinement's step simulation (every action is
a step of the contract or a stutter) are proved from `IInv` before the step.

*Statements*, `TxInv`: a rely-guarantee argument. `Sees(s)` is what session `s`
relies on between two of its statements (under the slot's lock, the lease it read;
under the job's, that its token is still the row's; with no lock at all, only that
a job it saw terminal stays so or is removed). `Careful(s)` is what a statement of
`s` guarantees to the others: rows are written under their lock, the row of a
running job's slot under both, and clocks move as far as every open transaction
allows. A careful step preserves what the others rely on, every statement is
careful, and each is a transaction of the store or touches no table. So the
interleaving of any number of sessions, each droppable anywhere, is a behaviour
of `Spec`: the step that counts is the last statement of each transaction.

*Executor*, `ExInv`: `IInv` and one record per run. Each step on the database is a
transaction of the store, so `IInv` is kept without being looked into again, and
the store's theorems hold of executors (`ExecutorUsesStore`). By `IInv` a run owns
the job exactly while the slot is leased and its token is the last (`OwnedIs`);
it loses it only when the lease it wrote has lapsed by somebody's clock (`Lapse`).
`RunOK` then says of each run where its task is registered (`Known`), that a claim
whose answer is still awaited has its lease (`JustGranted`), how late the next
step of its monitor can be, measured from that lease (`Late`, `OnTime`), and, when
calls do not fail, that each step comes before the lease ends (`Kept`, `InForce`).
The tightest facts are about a call whose answer is not there yet: a "renewed"
extends `confirmed_until` from the time of the answer, not of the call, which is
where one `OpTimeout` of `Window` comes from; and about a claim answered after its
lease was lost, whose run has a window of its own, and whose task may stand where
the owner's did (`Overtaken`).

*Turns*, `StreamInv`: `Sound` relates the counters of a turn (stored, taken from
the queue, emitted) to what its writer and its closing are at; what a turn has
reached it keeps (`Steady`), whatever the others do; only the turn the slot points
to can run (`SlotRuns`); and a client that has seen a turn over relies on nothing
but that its rows are fixed until they are removed (`Follows`). `behind` counts
what was unsent at that look, so one page covers it or it is an exception. For the
refinement, `ContractInv` adds that turns are issued in order and only the last one
issued can run; each step of a turn is then nothing, rows, its end or its removal
(`TurnEffects`), each of which is one step of the contract.

*Work batches*, `BatchInv`: the two tables (`TablesOK`), the leases (`LeasesOK`:
a token is an item and an attempt it has made, so no other worker has it and the
next attempt has another), the heartbeats (`HeartsOK`: while none is missed they
come before the lease ends) and `AdmissionBounded`. Each part has one lemma naming
what a step must respect. The limits hold for a claim because it finds no
unexpired lease in its lane and counts those of its feature; they *stay* so because
a lease that runs out is not renewed, which is what `HeartsOK` gives.

*Scheduler*, `SchedInv`: the tables' half counts how often an occurrence was
completed, is claimed, or is still ahead of the schedule: once in all, and once
more for each time a manual run's end put it back (`DoneBehind`); the runs' half
says that a run holding the lease runs the occurrence the lease is for, that its
lease outlasts its heartbeat, and that it is alone at work. `CompletedOnce` needs
both: a completion is made under the row's lock by the run the lease names.

*Ledgers*: nothing locks a row, so the invariants say what an old reading is worth:
what was created stays recorded in `made` and an approval that was given stays in
`approvers`; hence what a request took for applied was created, and the
prerequisites of what it may still create are before it in its order, have failed
in it, or exist. Two lemmas say what this needs of the order of a bulk apply: the
least set that contains a selection and its prerequisites (`Closure`) is closed
under them, and the next change (`First`, the least `Rank`) requires nothing that
comes after it. The pollers' line (`LineOK`) holds each applying change once and
nothing else: a commit puts what it schedules behind what stays (`Scheduled`; a
set put in order stands there once each, a lemma on cardinalities), and no other
step makes a row applying or stops it from being so. Its hard cases are a tick
that commits over rows a request has committed anew since the tick read them, and
the reverse.

Two theorems name the cause of a finding of section 6. `LongPagesReplayAll`: no
client is further behind than the rows a turn keeps (`Near`), so a page as long as
the replay window would cut no replay. `OverlapAlone`: where requests do not
overlap, what an apply has read as approved still is when it gets there (`Fresh`),
so a rejected change is created only where they do. That the hypotheses matter is
what the violation runs show.

*Missions*, `MissionInv`: the model dispatches at most one mission per step. That
this is exact is itself part of the invariant: nobody who could go on waits
(`NoneWaits`), so a mission that arrives is the only one that may go on, and a slot
that is given back makes room for one.

### What the proofs assume

- `DurableJobTx`: the database enforces ON DELETE CASCADE (`CascadeDeletes`), as
  PostgreSQL does. Without it a dismissed job's events survive it, and a removal
  that runs concurrently no longer has the effect of one transaction. Row locks
  are PostgreSQL's too. A new job's id must be left (`fresh # {}`), a bound of the
  model: uuid4 values do not run out.
- `DurableJobExecutor`: `Renew + OpTimeout + 2 * MaxSkew <= LeaseLen` and at least
  one replica. The code has a third of the lease for the renewal and at most a
  third for a call (`core/durable_jobs.py:571`), so with the lease of 60 s clocks
  may differ by 17 s. `HealthyRunsKeepTheirLease` has
  `Renew + Control + 2 * OpTimeout + 2 * MaxSkew <= LeaseLen` as a hypothesis of
  its own: 20 s, 1 s and twice 5 s leave 14 s of clock difference. The
  live run (`LeaseLen = 3`, the intervals 1) is outside of it by one unit and the
  property holds there because `Control >= Renew` makes every look a renewal; for
  the theorem, looks and renewals are independent.
- `WorkBatches`: the heartbeat is shorter than the lease (20 s, 60 s), items are
  finitely many, no batch is empty (`create_batch` refuses one), and a coordinated
  batch has one lane, as inventory cost creates it (one connection).
- `Scheduler`: the heartbeat is shorter than the lease and there are finitely many
  replicas. `AlertChanges`: `Rank` orders every change after what it requires, as
  a topological order does (the wizard's plans have no cycle). `BackupChanges`,
  `MissionAdmission`, `TurnStream`: sizes and limits are positive; a table has
  finitely many rows.
- `LongPagesReplayAll` and `OverlapAlone` have their hypothesis in the theorem: the
  code meets neither (`Page` is 500 and `Limit` 3000; administrators are many).

### Only model-checked

- Every liveness property (`EveryCallEnds`, `OrphansEnd`, `CancelReachesOwner`,
  `EventsArrive`, `StreamsEnd`, `WorkSettles`, `LanesIndependent`,
  `OccurrencesSettle`, `ChangesConverge`): fairness and ENABLED are beyond this
  prover.
- The three properties the code violates (section 6).

## 6. What disagrees with the documentation

Each of these has a run whose counterexample shows it.

1. *A long replay is cut* (`turn_stream_page`, `agent/turn_runner.py:202`). After
   seeing the turn over, a subscriber reads one more page of 500 rows; 3000 are
   kept. The module's docstring promises "a replay of everything emitted so far".
2. *A cancelled batch may never end* (`work_batches_cancel`,
   `core/work_batches.py:1390`). A retry that read the cancel flag before
   `cancel_batch` committed puts its item back into a cancelled batch, which no
   claim looks at. The documentation says to cancel, let the active item finish,
   and delete.
3. *A rejected change is applied* (`alerts_cancelled`,
   `api/alerts_manager.py:3082`). An apply decides on the status it read at its
   start; a rejection that commits before the Azure call is not seen, the resource
   is created, and the commit writes "applied" over "rejected". A bulk apply holds
   its rows over many Azure calls. The documentation: "Pending and
   approved-but-unapplied selections become rejected without an Azure call"
   (`src/docs/how-to/coverage/alerts-manager.md:305`).

More follow from the models. None has a run of its own; where a property names one
as its exception, TLC finds the property without the exception violated.

In the executor:

- *A replaced runner is abandoned* (`core/durable_jobs.py:580`). `monitor_lease`
  returns `(True, False)` when `should_stop` is true, and it is true once another
  task is in the map. When the same replica re-claims a scope whose lease ran out
  while a monitor call of the old run was failing, the old runner is neither
  cancelled nor watched any longer, although the monitor "prevents a failed
  heartbeat task from silently abandoning an unfenced runner". `OverlapBounded`
  speaks of runs that are still in the map.
- *A late claim starts an unfenced runner* (`core/durable_jobs.py:1070`). `start`
  awaits its claim without a timeout and `monitor_lease` counts the confirmed lease
  from its own start (`:578`), not from the claim's. If the answer comes late and
  the monitor's calls then fail, the runner goes on for a whole lease beside its
  successor, although failures are "tolerated only until the last confirmed lease
  would expire" (`:567`). `OverlapBounded` gives it that second window.
- *A late claim takes the owner's place* (`core/durable_jobs.py:1163`). When the
  same replica has claimed the scope again before the first claim is answered, the
  late task replaces the owner's in the map: `cancel` and `stop` do not reach the
  owner there, and its monitor ends. `LatestRegistered` names this.
- *A second cancellation loses the terminal state* (`core/durable_jobs.py:1124`).
  `cancel` cancels the task, `stop` cancels it again while the handler awaits
  `lease_state`: no finalize, though `main.py:387` says that rows reach a terminal
  state. The janitor ends such a job after its lease (`OrphansEnd`).

In the work batches:

- *A completion overwrites what it no longer holds* (`core/work_batches.py:1071`,
  `:1081`). `_complete_external_item` checks the lease in a SELECT without a lock
  and updates the item by primary key later. On PostgreSQL an item that was
  recovered, claimed by another worker, ended by it or cancelled in between is
  overwritten, although "items that already reached a terminal state keep it"
  (`src/docs/admin/durable-batches.md:79`). `ResultsStand` has `EndedBlindly` as its
  one exception. When the write ends the item of a worker that is about to claim
  the item's siblings, a second worker may be let into the lane beside them, against
  `src/docs/technical/specification.md:68`; hence `overwritten` in the premise of
  `AdmissionBounded`. (It takes a batch of four in one lane to see this last part.)
- *A full scan hides the other lanes* (`core/work_batches.py:1228`). A claim looks
  at the oldest 100 candidates only. A request may carry 500 workloads
  (`api/work_batches.py:37`); a hundred of one connection, waiting for the one that
  runs, keep every younger item of another connection from being seen, although
  "independent connections can progress concurrently"
  (`src/docs/technical/specification.md:69`). `LanesIndependent` has the premise
  `Near`.

In the scheduler:

- *A manual run winds the schedule back* (`automations/runner.py:76`). Its end loads
  the task without a lock (`:247`), computes the next occurrence from that time and
  commits later (`:315`; in `run_target_task` `:413` and `:438`). An occurrence that
  came, was claimed and completed in between is put back into `next_run_at`, claimed
  again and completed a second time. `CompletedOnce` allows one more completion for
  each time this happened (`rewound`).

Observations that contradict no document, most of them recorded as hazards:

- A manual run reads `completed_runs` without a lock and writes it at its end: a
  scheduled completion in between is lost from the count, so a task may run once
  more than its limit (`automations/runner.py:61`; the user guide has manual runs
  "count toward its run limit").
- A task that is toggled, edited or run by hand while an occurrence is unfinished
  keeps that occurrence: it is run again once the task is on.
- Rejecting a rule alone leaves its resource group when an action group that is
  rejected with it also requires the group: "shared" is computed against rows
  outside the selection, not outside what is rejected (`api/alerts_manager.py:2998`).
- A rollback leaves the original "applied", so a rule may still be applied after
  the action group it requires has been removed again; hence `PrerequisitesFirst`
  speaks of what was ever created.
- A crash between Azure's answer and the commit leaves a created resource with an
  approved row; the retry finds the resource, becomes stale, and what requires it
  stays blocked.
- Two bulk applies that overlap submit the same backup change twice
  (`api/backup_manager.py:2217`). Nothing sets `depends_on`, so a bulk apply
  submits everything concurrently, whatever `order_changes` says of vaults before
  policies (`backup_manager/changes.py:583`).
- A mission cancelled a second time while its last row is saved never gives back
  its slot (`missions/orchestrator.py:742`): the lane is closed until the replica
  restarts. `LanesKept` counts such missions and shows that there is no other way.
- SQLite connections never switch foreign keys on (`core/db.py:87`), so `dismiss`
  leaves a job's events behind there; `CascadeDeletes` is TRUE in the runs, as on
  PostgreSQL.
- A claim that lost and then finds the winner's job dismissed raises
  (`core/durable_jobs.py:204`); the transaction model has it as `"raised"`.
- A writer that fails once is not restarted for the rest of its turn, silently
  (`agent/turn_runner.py:161`); `DoneIsReplayable` and `EventsArrive` name it.
- A stream looks at the chat's current job, so the next turn keeps it open
  (`agent/turn_runner.py:195`); `StreamsEnd` names it.
- In work batches: a heartbeat that finds its lease lost does not stop the
  executor; a heartbeat renews a lease that has run out and whose lane was given
  away (hence `missed`); a coordinating executor's siblings are not renewed (hence
  `NoDoubleWork` leaves them out); interruptions are retried without limit; a
  worker crash in a cancelled batch leaves it active until a start after the
  lease, or a stop.

## 7. What is not modelled of the modelled parts

- Store: sizes of payloads, metadata, projection of rows (`_job_dict`), the
  choice among scopes of `list_current`; `wait_for_terminal` only polls.
- Executor: the order in which asyncio runs ready tasks is left open, a superset
  of the real one; pauses of a whole replica are covered by the store's model
  only.
- Turns: the in-memory fallback without a store; keep-alive pings; the
  persistence of chat messages by the worker; recovery of a turn's job in place
  by another claim (the chat's `start` interrupts or attaches).
- Work batches: progress messages, idempotency keys (a batch is created once),
  several loops per worker (they are workers of their own), the database's refusal
  to give a connection (a loop waits and polls again). `refresh_batch` locks the
  batch, counts the items and writes in one step of the model, so what its
  `FOR UPDATE` is for is not seen. The subscriptions of a coordinated run that go on
  after one of them has raised are cut off with the executor; and the row versions
  of SQLite, which refuses a write after a stale read where PostgreSQL overwrites,
  are not modelled.
- Scheduler: `TaskRun` rows and messages (a lost lease, a crash or an exception
  leaves a run "running" for ever; the user guide says so), notifications, the
  creation of tasks (they exist from the start), the import of old schedules, the
  other services the loop calls, and its calls at startup, which are outside of
  its try (`automations/scheduler.py:82`): an exception there ends the loop until
  the process restarts; the time between the reading of a task by an edit and its
  commit, in which the schedule may be wound back as by a manual run; daylight
  saving and cron expressions.
- Alert changes: planning, changes that update a resource, diagnostic settings;
  `_resolve_change_dependencies` on cycles, missing rows and rows of another tenant
  or connection, which the wizard cannot make; what others do to the resources.
- Backup changes: planning, what is submitted, the connection and state checks
  before it (they are outcomes of `Submit`), several pollers in the run.
- Missions: the systems and their dependencies, the stored row, events, the
  reaper; the failure, as opposed to the cancellation, of the first row's saving.
