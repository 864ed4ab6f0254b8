# A TLA+ verification of the QA platform

This directory holds TLA+ models of `backend/app`, the TLC configurations that
check them on small instances, and theorems about them checked by TLAPS.  Every
definition is a translation of Python code; `PROJECT.json` names, for each one,
the file and lines (`map`), the hazards the properties are aimed at, what each
run checks, and for each property a plausible bug of the code that would break
it (`mutants`; the operators commented "Faulty variant" in the modules).

    tlc -workers 2 -config MCQueue.cfg MCQueue             # a run
    tlapm TaskQueueProofs.tla                              # proofs

## 1. The system

`backend/app` is a test-management platform with a persistent automation
runtime.  Its processes share one database (PostgreSQL; SQLite in the
single-process teaching mode) and coordinate through rows only:

| process | entry | talks to |
|---|---|---|
| Web API | `main.py`, `api/`, `runtime/router.py` | database, cache, object storage, providers |
| Worker (several) | `worker/runner.py` | database; RabbitMQ hints as a shortcut for polling |
| Scheduler (several) | `scheduler/runner.py` | database |
| Outbox Dispatcher (several) | `outbox/main.py` | database, RabbitMQ |
| Provider Dispatcher | `dispatcher/main.py` | database, CI providers |
| CI Lab API and Webhook Worker | `ci_lab/` | their own SQLite file; webhooks to the Web API |

On PostgreSQL a transaction of the runtime locks the rows it is about to change
(`FOR UPDATE`, `SKIP LOCKED` for claims) and reads the database clock after it
has the locks; the isolation level is the default, READ COMMITTED.  On SQLite one
process-wide lock serialises transactions (`RuntimeRepository.transaction`).
Anything slow (publishing, planning, calling a provider) happens between two
transactions, under a lease with a random token, and its result is written by
compare-and-set.

The services of the Web API (test management, identity, attachments) are older
and work differently: one *business lock* of the process serialises their
operations, an operation calls several repositories in turn, and each repository
call is a transaction of its own.  What takes long (password hashing, uploads,
reads of an import) happens without the lock, and a second look under the lock
decides.

### 1.1 Components

| component | state it keeps | operations | correct when |
|---|---|---|---|
| **Task queue** (`runtime/service.py`, `automation_tasks`) | status, attempts, `available_at`, lease (owner, token, expiry), `cancel_requested`, result | enqueue, claim (recovers expired leases first), heartbeat, complete, fail, cancel, retry, dead letter | a live lease is only ended by its holder; the result is that of the last claim; the attempt budget holds; a cancellation is never lost; nothing waits that no claim would take |
| **Wake-up outbox** (`automation_task_wakeup_outbox`, `outbox/main.py`, `broker/`) | per hint: status, attempts, version, lease | written in the transaction that makes a task claimable; claim, publish, settle | one hint per generation; at least once; repeats only after failures |
| **Worker** (`worker/runner.py`) | current task and token, handler, heartbeat, stop flag | claim, run, beat, report, wait, stop | work overlaps only after failures; stop and cancellation take effect |
| **Devices** (`devices`, `device_leases`) | status, enabled, last heartbeat, `active_lease_id`, version; leases | create, edit, delete, agent heartbeat, acquire, start, renew, release, expiry sweep | exclusive leases; both records agree |
| **Schedules** (`schedules`, `schedule_fires`, `scheduler/`) | rule, policies, `next_run_at`, version, claim; fires | create, edit, delete, run now; claim (T1), plan, finalise (T2) | an instant is decided once and under the rule in force; nothing due is forgotten; overlap policies hold |
| **Cron expressions and plans** (`automation/cron.py`, `_cron_due_plan`) | none | parse, match, search forward and backward, plan | a plan is what the misfire policy says of the whole backlog |
| **Provider triggers** (`provider_trigger_intents`, `provider_runs`, approvals, `dispatcher/`) | intent with attempts and lease, run snapshot with revision | trigger, dispatch, settle, refresh, cancel, gate decision | one remote run per intent; uncertain outcomes are not declared final; snapshots only move forward |
| **Provider webhooks** (`runtime/webhook_security.py`) | event ids, revision watermark | receive, apply | idempotent, order-independent |
| **CI Lab** (`ci_lab/service.py`) | simulated runs, timeline, deliveries | trigger, advance, cancel, gate, enqueue delivery | idempotent commands; one delivery per visible change |
| **CI Lab webhook worker** (`ci_lab/webhook_worker.py`) | delivery lease, attempts, dead letters | claim, deliver, settle, retry dead letter | deliveries of a run in order; every delivery ends |
| **Pipeline simulator** (`pipeline/`) | runs, stages, jobs in memory, and a stored copy of the whole state | trigger, callbacks, executor, cancel, reset, shutdown, restart | the tree agrees with its run; nothing a client was told is taken back, not even by a failed save |
| **Teaching adapters** (`automation/`) | in-memory queue, devices, schedules | as the persistent ones | what the persistent ones promise |
| **Artifacts, attachments** (`runtime/artifacts.py`, `services/attachments.py`, `*_attachment_storage.py`) | rows; objects at an original and an isolated place; a semaphore | upload, read, delete with compensation | no content is lost, no row without an object |
| **Test management** (`services/`, `repositories/`) | projects, suites, cases with snapshots, plans, executions, defects, audit events | CRUD, moves, transitions | references resolve, suites are a forest, the past is kept, plan and execution agree |
| **Data transfer** (`services/data_transfer.py`) | none between requests | import: preview, commit row by row | the preview is what the commit does |
| **Identity** (`services/identity.py`, `services/oidc.py`) | users, sessions, OIDC identities and login transactions | set-up, accounts, passwords, password and OIDC logins | an administrator remains; sessions end with what they were issued for |
| **Project cache** (`repositories/cached_projects.py`) | cached rows with a time to live | read-through, invalidate | no read fills in what a write replaced |
| Quality reports, secrets, observability, configuration, migrations, HTTP layer, frontend | little or no shared state | | not modelled, see section 7 |

### 1.2 How they interact

- *Queue → outbox*: every transition to `queued` or `retry_wait` inserts a row
  keyed by (task, attempts so far).  A second row for one generation would
  abort the transaction, recovery and claim included.
- *Outbox → worker*: a published hint says nothing but "look"; a lost hint
  costs at most the poll interval.
- *Worker → queue*: each call carries the token of its claim.
- *Worker → devices*: acquiring and renewing needs the token of the task lease
  too; starting needs only the task to run under the same owner.
- *Scheduler → queue*: T2 enqueues the tasks of the instants and applies the
  overlap policy to tasks that workers are changing at the same time.
- *Provider Dispatcher, requests and webhooks → provider runs*: four writers of
  one row (a triggering dispatcher, a refresh or cancellation, a gate decision, a
  received event).  The lab numbers what it announces; that number and the
  version of the row order the writers.
- *CI Lab → platform*: each change of a run's public status becomes a delivery,
  which a webhook worker posts until the platform acknowledges it.
- *Import → suites, cases, defects*: rows are checked against lists read without
  the lock, then created through the services, each under the lock.
- *Attachments and artifacts → storage*: the row is written after the object is
  stored and the object isolated before the row is deleted; what fails in between
  is compensated.
- *Projects → cache*: every write ends by deleting the entries it made stale.

### 1.3 What is hard here

Late answers of a holder that lost its lease; the same worker holding an old
and a new claim; crashes between a claim, an effect and its settlement; lost
confirms; processes started with one configured id; reads without a lock that
are written back later; clocks of several processes, set back or changed for the
winter; edits that meet a plan in flight; budgets at their last attempt; row
locks taken in several orders; operations over several repositories that end
halfway; saves of which nobody knows whether they took place; copies of objects
that are undone while another request drops the original; requests that were
authorised before the account changed.  `PROJECT.json`, `hazards`, has each with
its line and the properties that cover it.

## 2. Modules

| module | models | extends |
|---|---|---|
| `TaskQueue` | the queue and the ledger of hints | |
| `LeasedJob` | abstract: what a queue promises for one task | |
| `TaskQueueProofs` | theorems about `TaskQueue` | `TaskQueue` |
| `WakeupOutbox` | outbox rows, dispatchers, broker outcomes | |
| `WorkerLoop` | worker processes on the queue | `TaskQueue` |
| `ProcessesProofs` | workers only do what the queue allows and overlap only after failures; dispatchers repeat a hint only after failures | `WorkerLoop`, `WakeupOutbox`, `TaskQueueProofs` |
| `DeviceLeases` | devices and their leases on the queue | `TaskQueue` |
| `Scheduler` | a schedule, scheduler processes, administrators, on the queue | `TaskQueue` |
| `QueueClientsProofs` | theorems about devices, about the schedule and about cron plans | `DeviceLeases`, `Scheduler`, `CronPlans`, `TaskQueueProofs` |
| `CronPlans` | cron expressions and the plan of the due instants | |
| `RowLocks` | the order in which transactions lock rows | |
| `CiLab` | the CI Lab: runs, gates, deliveries, webhook workers, its clock | |
| `CiLabProofs` | theorems about `CiLab` | `CiLab` |
| `ProviderRuns` | provider runs, trigger intents, dispatchers, requests, reception of webhooks, with the lab | `CiLab` |
| `ProviderRunsProofs` | the platform is a client of the lab like any other; what its own tables keep | `ProviderRuns`, `CiLabProofs` |
| `Faults` | the count of failures, shared by the modules below | |
| `PipelineRuns` | the pipeline simulator and its stored state | `Faults` |
| `TestManagement` | projects, suites, cases, plans, executions, defects, snapshots, audit | `Faults` |
| `DataTransfer` | the import | `TestManagement` |
| `ObjectStore` | local and S3 storage: uploads, isolation, restore, streams | `Faults` |
| `Attachments` | comments and attachments | `ObjectStore` |
| `RunArtifacts` | artifacts of provider runs, beside the attachments | `Attachments` |
| `Identity` | accounts, sessions, password and OIDC logins | `Faults` |
| `IdentityProofs` | theorems about `Identity` | `Identity` |
| `ProjectCache` | the cache-aside decorator | `Faults` |
| `StorageProofs` | theorems about files, permits, the cache and row locks | `RunArtifacts`, `ProjectCache`, `RowLocks` |
| `TeachingQueue`, `TeachingDevices` | the in-memory queue and device manager | |
| `TeachingAutomation` | the in-memory scheduler over both | `TeachingQueue`, `TeachingDevices` |
| `ServicesProofs` | theorems about the lessons, test management, the import and the pipeline simulator | `TeachingAutomation`, `DataTransfer`, `PipelineRuns` |
| `MC*` | constants and scenarios of the small instances | |

Conventions.  An action is one committed transaction with everything the code
does in it, or one step of a process between two transactions.  A timestamp is
kept as the time *left* until it is reached (`lease_left`, `wait_left`,
`expiry_left`, ...), which only `Tick` decreases, so states do not grow with
time, and "`expires_at <= now`" reads "0 left".  A random token is named by the
number of the claim that drew it.  Variables after the comment "history" do not
exist in the program.  A property that conjoins several names lists them in its
definition; each of those has its own comment.

### TaskQueue and LeasedJob

`status`, `attempts`, `cancel_requested`, `wait_left`, `lease_*` and `result`
are the columns of `automation_tasks`; `wakeups` is the set of (task,
generation) pairs of the outbox.  `ClaimTask` is the whole transaction of
`claim_task`: it recovers any part of the expired rows (`SKIP LOCKED` passes
over locked ones), then claims at most one row; which of the claimable rows
comes first is left open, because priorities do not matter to any property and
locks make any order possible.  `grants` remembers every (worker, task, token)
handed out: a worker may use any of them at any later time, or never, so late,
repeated and missing answers, crashes and hangs need no actions of their own.

`LeasedJob` is what a client is promised for one task: it goes from open to held
only within its budget, gets a result only from a lease that is alive, and does
not leave a settled state.  `EveryTaskIsALeasedJob` says that the queue refines
it for each task under the mapping `Job(t)`; `TeachingAutomation` refines the
same module under `TeachingJob(t)`.

### WakeupOutbox

`row_*` are the columns; `held` is what each dispatcher process has in hand
between its transactions: the row, the version its claim wrote (which names the
token), and whether the publisher confirmed or raised.  A raised error leaves
open whether the broker has the message.  `DispatcherId` may map several
processes to one id, as the default configuration does.

### WorkerLoop

`pc` is where the process stands: at the head of `run`, waiting in
`_wait_for_hint_or_poll`, inside `_execute`, or not running.  `handler` is the
state of the handler task and `beat_left` the time until the heartbeat loop's
next call.  `Claim`, `Beat` and `Record` call the transactions of `TaskQueue`.
A claim whose commit succeeded but whose answer was lost is one of the outcomes
of `ClaimFails`.  Crashes, failed calls and delayed heartbeats are counted in
`faults`.

### DeviceLeases

Operations lock task, device and lease in this order, so each is one step; the
sweep `_expire_device_leases` commits one transaction per lease and is the
action `ExpireDeviceLease`.  The version of a device only matters for refusing
edits of an old copy and is kept as "the administrator's copy is current".
Capabilities only narrow the candidates and are left out.

### Scheduler and CronPlans

Schedules do not interact, so one is modelled.  The instants of its cron rule are
numbered, and `passed` of them lie in the past of the database clock.
`ClaimSchedule` is T1 together with the plan computed from it
(`_cron_due_plan`, a function of what T1 read).  T2 is two steps:
`BeginFinalize` is the compare-and-set, which locks the row, and the read of the
active tasks, which locks nothing; `CommitFinalize` writes.  In between, other
transactions on *tasks* commit, while edits of the *schedule* wait for its lock.
When a plan fires several instants the code reads the active tasks before each
one; the model reads once and adds the plan's own tasks (rows already loaded keep
their first-read status in the session, so the later reads differ only in rows
that other transactions add or finish).  `app_now` is the clock of the web
process that edits, off by up to `MaxSkew` instants.

`CronPlans` is what `Scheduler` takes as given, which `PlansAreTheScheduler` proves.  An
expression is parsed into a set of values per field with its wildcards (`Parsed`, over the items a comma separates),
refused if its day never exists (`Feasible`), and matched against the reading of
the wall clock, with the rule that day and weekday are alternatives if neither is
a wildcard.  The two searches look at `SearchMinutes` minutes.  A plan is walked
search by search (`BeginPlan`, `WalkBack`, `WalkForward`).  A minute has two ticks,
so that a plan can be made between two minutes.  `WallClock` is a table of readings,
in which one minute comes twice and one is left out, as when the clock is set back
and put right; it repeats, as years do.

### RowLocks

Each transaction of `RuntimeRepository` is the sequence of the locks it takes:
`Await` for one row, `SkipLocked` for a claim.  A plain read takes none.  The order
in which a flush writes changed rows is that of SQLAlchemy: by table, parents
first, then by primary key.  The shared lock that the foreign key of a new trigger
or event takes on its connection is treated like a lock of that row.  No
`lock_timeout` is configured, so a waiting transaction waits.

### CiLab

`lab[r]` is the row of the run with idempotency key `r`, with its gate and its
approval; `outbox[r]` its webhook deliveries in sequence order; `poster[w]` what
a webhook worker has in hand between its transactions, whose token is named by
the version its claim wrote.  The service writes in `BEGIN IMMEDIATE`
transactions, so each of `trigger`, `get`, `cancel` and `decide_gate` is one
action, all made of `Refreshed` (`_refresh_record`, which every operation calls
first) and `Becomes` (`_enqueue_webhook_if_changed`, which every operation calls
last).  A cycle of the webhook worker is `Advance`, `ClaimNext` (final attempts
of dead workers are buried first, then one delivery is claimed), the post, and
`Settle`.

Abstractions.  The clock is the phase of the timeline a run has reached; it may
be set back.  The text of a delivery is a function of the public status, which
is kept.  The back-off before a retry is not timed: a retry may be claimed at
once or much later.  Manual retries and clock adjustments share the bound
`MaxInterventions`.  That `advance_webhook_runs_once` takes at most 100 runs per
cycle is left out.

### ProviderRuns

The module extends `CiLab`: a call of the platform is the lab's own action and
the platform's in one step, and what the platform makes of the answer is a later
step, or never comes.  `run` and `intent` are the rows of `provider_runs`
(together with `provider_run_approvals`) and `provider_trigger_intents`;
`receipts` the sequences of `provider_webhook_events`; `dispatcher`, `poller` and
`approver` what a process or a request has in hand between its transactions.

| in the code | here |
|---|---|
| `trigger_provider` | `TriggerRun` |
| `dispatch_provider_trigger_once`: claim, `provider.trigger`, `_finalize_provider_trigger` or `_settle_provider_trigger_failure` | `ClaimTrigger`, `CallTrigger` / `CallFails`, `FinalizeTrigger` / `SettleTriggerFailure` |
| `_refresh_provider_run` | `RefreshBegins`, `RefreshCalls`, `RefreshEnds`; without a call to the lab `RefreshBegins`, `CancelCommits` |
| `decide_provider_quality_gate` | `DecisionBegins`, `DecisionCalls`, `DecisionEnds` |
| `process_learning_ci_webhook` | `ReceiveEvent` |
| `_apply_provider_run_snapshot`, `_apply_webhook_snapshot` | `WithSnapshot`, `AfterEvent` |

An answer that is lost and a process that stops are the `...Fails` actions and
the second disjunct of each call.  The cancellation of an undispatched run reads
without a row lock and writes later, so it is two steps.  On SQLite the
process-wide lock makes everything else wait in between (`SingleProcessLock`);
with `LateCancels` it does not, which is PostgreSQL.

Abstractions.  Connections of kind `learning_ci` only: the other kinds have no
webhooks and their servers are not part of the repository.  A changed or disabled
connection shows as a rejected call; the code pins `connection_version` in the
intent and never compares it.  The external id of a run is determined by its
idempotency key, so it is only bound or not.  The check of `occurred_at` never
refuses an event, because the lab's times do not decrease along a run.  That the
approver is not the requester is a check of the request alone.

### PipelineRuns

`memory` is what the service holds under its lock, `stored` the tables,
`last_saved` the copy `_durable_state`.  Every operation works on the tree of a run
with the same few operators (`StartRun`, `FinishStage`, `EndFromJob`, `Aggregate`, ...)
that stand for the methods of the service, and then saves the whole state: `Saved`,
or `SaveFails`, which may have committed, after which memory is reloaded, or taken
from `last_saved` if that fails too.  `executor` is where the task of a run stands in
`_execute`; each action is the code between two releases of the lock.  `Started` and
`Finished` keep an illegal transition as a visible value, since the code raises there.

### TestManagement and DataTransfer

One action is one operation under the business lock.  An operation that writes two
repositories (a plan and its execution, a record and its audit event) has an outcome
in which it ends after the first (`Fault`).  A name is an element of `Names`; titles,
texts and priorities are left out.  `DataTransfer` takes the three reads of
`asyncio.gather` one after the other, without the lock, then commits row by row through
the services; between any two of its steps any operation of `TestManagement` may come
(`OtherRequest`).  `undisturbed` remembers whether one did.  The walk along `parent_id`
ends at the root or at a suite met before; the suites it meets are the smallest set that
has the parents of its members (`ChainIn`).

### ObjectStore, Attachments, RunArtifacts

`objects[f]` is what the storage holds under the key of `f`: the original, an isolated
copy, parts of a multipart upload.  An upload, a deletion and a download each have a
position (`uploads`, `deletions`, `readers`), and each request to the storage is one
action that may fail with or without effect.  Isolating and restoring are the same
requests in opposite directions.  The business lock is held for row checks and row
writes and not during storage requests, as in the code.  `unsure` remembers files whose
row was committed although the write raised: the code takes the exception for a failure
and removes the object.  `overlapped` remembers files that two deletions moved at once.

### Identity

Authentication reads the session and the user in two transactions, and what the request
does is judged by the principal of that moment.  A request that changes an account
holds the lock from the read to the revocation of the sessions (`BeginUpdate`,
`WriteUser`, `RevokeAfterWrite`).  A login verifies the password outside of everything
and completes by compare-and-set; `fresh`, `hash` and `account` say whether the row,
its hash and its access are still those it has read.  What Argon2 and the identity
provider answer is a free choice.

### ProjectCache

`clients` are requests under the business lock: a read looks the key up, loads and fills,
a writer writes and deletes both keys.  Calls to the cache fail or are not made when the
request is cancelled (`spoiled`).

### TeachingQueue, TeachingDevices, TeachingAutomation

The adapters are protected by one lock each, so each method is one action.  Due instants
are numbered as in `Scheduler`.  The lesson's queue is shown to implement `LeasedJob`.

### Faults

Failures of the web process and its stores are counted in one variable `faults`, up to
`MaxFaults`.  A property that only holds without failures, or up to so many, says so.

## 3. Runs

| run | instance | checks |
|---|---|---|
| `task_queue_and_devices` | either 2 tasks (3 and 2 attempts) and 2 workers, or 2 tasks that compete for a device with 2 leases | `NoTaskIsStranded`, `EndsAreDue`, `LiveLeaseIsExclusive`, refinement of `LeasedJob`, `DeviceAndLeaseAgree`, `LiveDeviceLeaseIsExclusive` |
| `workers_and_dispatchers` | either 1 task and 2 workers, or 2 outbox rows and 2 dispatchers with one id; 3 faults | `RunsAreExclusive`, `RepeatsCostFaults`, `LiveClaimIsExclusive`, liveness `TasksComeToAnEnd`, `StopEnds`, `EveryRowIsPublished` |
| `scheduler` | 2 schedulers, 2 instants, all misfire policies, forbid and replace, 1 edit, 1 fault | `ForbidNeverOverlaps`, `EveryInstantHasOneFate`, liveness `DueInstantsAreHandled` |
| `ci_lab` | 1 run, 2 webhook workers, 2 attempts, 1 intervention | `EveryChangeIsAnnounced`, `DeliveriesAreOrderly`, liveness `RunsComeToRest`, `NoDeliveryIsStuck` |
| `provider_dispatch` | 1 run, 2 dispatchers, 2 trigger attempts, 1 refresh or cancellation, 1 delivery attempt, SQLite | `TablesAgree`, `EndIsKept`, liveness `EndIsLearned` |
| `provider_gate` | 1 gated run, 1 dispatcher, 2 persons and 2 decisions, 1 refresh or cancellation, 1 intervention | `AnnouncedLifeMovesForward`, `GateNeedsADecision`, `DecisionsAgree` |
| `components_in_scenarios` | 19 scenarios, one of which is chosen at the start (below), 2 faults | the fifteen properties below |
| `replace_strands_a_retry` | replace, 2 attempts | **violated**: `RetriesAreTakenUp` |
| `cancellation_overwrites_an_end` | as `provider_dispatch`, 1 dispatcher, PostgreSQL | **violated**: `EndIsKept` |
| `last_attempt_is_never_recovered` | 1 dispatcher, 2 trigger attempts, no requests | **violated**: `LeftLeaseIsRecoverable` |
| `overlapping_deletions` | scenario `s3_file` alone | **violated**: `RemovingACopyIsSafe` |
| `lesson_maintenance` | scenario `lesson_devices` alone | **violated**: `DeviceLeasesAreExclusive` |

Runs with several scenarios choose one in the initial state; the others' components do
not move.  It is as if each were a run of its own, with one set of properties, each of
which is about one component.

| property of `components_in_scenarios` | scenarios | what it shows |
|---|---|---|
| `RecordsAreConsistent` | `planning`, `plans`, `projects`, `suites`, `trees`, imports | references, the forest of suites, versions of snapshots, plan against execution, audit trail, rest of archived projects |
| `PastIsKept` | the same | results, executed plans and snapshots never change |
| `PreviewIsHonoured` | `import_cases`, `import_defects` | the checks of an import and the services agree |
| `ContentIsKept`, `StorageMatchesRows` | `s3_file`, `local_file`, `s3_artifact` | no content is lost in a move, nothing is left behind without faults |
| `PermitsAreConserved` | the same | no permit is leaked or released twice |
| `LinkedWhenAllowed` | the same | a long upload ends at a target that still allows it |
| `RunsStayWhole` | `pipeline` | trees agree with their runs, answers are not taken back, runs keep their executor |
| `AnAdminRemains` | `admins` | administrators cannot lock everybody out together |
| `SessionsAreDue`, `LoginsAreCurrent` | `admins`, `logins`, `oidc` | sessions end with the account; a login is of the account verified; one per authorisation |
| `CacheIsCurrent` | `cache` | no read fills in what a write replaced |
| `LessonsKeepTheirPromise` | `lessons`, `lesson_devices` | the in-memory adapters implement `LeasedJob` and keep their policies |
| `OnlyACancellationDeadlocks` | `row_locks` | no circle of waiting transactions, but for one |
| `PlansCoverTheBacklog` | `cron` | plans are the policy's choice of the whole backlog |

What the passing runs show of the runtime, in one line each: the queue keeps its promises
to clients and to its hints; hints are published at least once and twice only after a
failure; healthy workers never lose their lease and no task is run twice without a fault;
a device has one holder and both records say who; each instant is decided once and a
backlog leaves a trace; the lab tells its subscriber everything in order or shows a dead
letter; intent and run never part, and no status is older than the sequence stored beside
it; and the gate opens on both sides only by the decision of a person, the same on both
sides.

The violated properties state what the documentation or a comment says; the traces are
findings about the code:

1. *REPLACE can strand a task.*  T2 sets `cancel_requested` on a task it read as running;
   if the task went to `retry_wait` in between, no claim selects it again and nothing
   moves it.
2. *A cancellation can overwrite an end (PostgreSQL).*  `_refresh_provider_run` cancels
   an undispatched run from a row it read without a lock, and compares nothing when it
   writes.  If a dispatcher's answer or a webhook ends the run in between, the end becomes
   `cancelled`.
3. *A trigger's last attempt is never recovered.*  An intent whose dispatcher dies during
   its last attempt stays `claimed` and its run `dispatching`: claims look only at intents
   with attempts left, and nothing else looks at them.
4. *Two overlapping deletions can lose an object.*  A quarantine that fails after the copy
   removes the copy, because "the source has not been deleted yet"; another deletion of the
   same object may have verified that copy and deleted the source.
5. *In the lessons, ending a maintenance frees a leased device.*
   `set_maintenance(enabled=False)` does not look at the lease.

Observations met while modelling, which no document of the repository denies, are in the
models as they are: a device lease can outlive its task lease after a shorter heartbeat; a
leased device can be stored as idle by an edit; REPLACE can cancel a task that was claimed
meanwhile; a run whose trigger is *unknown* is never dispatched later; the cancellation of
an undispatched run and its dispatcher lock run and intent in opposite orders, so that one
of them can be aborted as a deadlock; an update of a user writes the whole row back, with
the count of failed logins it has read; `update_connection` compares the version without
a lock; a lesson's device under maintenance stays so when the maintenance is ended; a row
whose insert was committed and raised loses its object; and after three faults in a row
(a save that commits and raises, another that raises, a reload that raises) the simulator
can go back behind what it has answered, because the reload does not renew
`_durable_state`.

### Bounds

- `MaxLease = 2`: a lease can be cut, renewed to less or more, be in its last moment, or
  be over; more ticks add no new comparison.
- Two workers, dispatchers or schedulers: every race here is between a holder and one
  successor; an older holder's tokens stay in `grants`, so three generations of claims meet
  with two workers.
- Three attempts and two: first, middle and last attempt of a budget.  In the scenario with
  a device each task has one attempt and does not wait: what a lease of a device depends on
  is the lease of the task, not its history.
- `MaxFaults = 3` for workers and dispatchers: enough for a crash of each process or two of
  one.  `MaxFaults = 2` in the scenarios: a failure and a failure of its compensation.  Test
  management and imports have one (`faults' <= 1`), `suites`, which is about versions and
  locks, none: their operations end halfway in one place.  Administrators and password
  logins have none, since what is said of their sessions is said of runs without faults.
- `MaxLeases = 2`: a lease and its successor on one device.
- `MaxInstants = 2`: a backlog with a first and a last instant; `CatchUpLimit = 2` takes all
  of it, and the grace window of `skip` begins at every place.  The skewed clock of the web
  process occurs under one policy (forbid, catch_up_limited) and the manual run under another
  (fire_once, before an edit), because the two have nothing to do with each other.
- One CI run: runs of the lab share no state but the workers, and the order of deliveries is
  per run.  `MaxDeliveryAttempts` is 2 where retries matter and 1 in the composition, where a
  manual retry gives a delivery its second attempt.  `ci_lab` has no gate, because gated runs
  are those of `provider_gate`; the theorems cover both together.
- One refresh or cancellation: it can meet every other writer at each of its steps.  Two
  persons and two event ids: the same decision twice, and opposed decisions.
- `TestRoom`: which records a scenario has room for.  `trees` has three suites, enough for a
  cycle of two below a root; `planning` one record of each kind; `MaxVersions = 2` a first
  and a next snapshot.  In `suites` the names are fixed, in `trees` they are not.  The import
  files have good rows, a malformed one, a repeated key, and a defect with both associations.
- `Permits = 2`, two deletions, a reader and an upload: they compete for the last permit.
- `pipeline`: two requests under one key: one driven by its executor, with two stages and a
  job that fails, and one driven by callbacks.  One event id, so that a repeated callback
  and a new one both occur.
- `IdentityRoom`: two administrators with a session each and two requests; two logins and a
  request; two callbacks of one authorisation.  `MaxFailedLogins = 2`: a failure that locks
  and one that does not.
- `cron`: days of four minutes, two months, seven expressions with every form of an item, a
  day that never exists, an impossible value and an hour that does not exist;
  `SearchMinutes = 8` is less than the distance of some matches, so that searches fail;
  `Graces = {0, 5}` ticks, `CatchUpLimits = {1, 3}`; `LastTick = 50` is more than twice the
  twelve readings, two ticks each.
- `row_locks`: three sessions, two tasks, one device and two leases of it.  Three
  transactions form every circle over the kinds of rows; with more rows of one kind only the two
  claims differ, and they never wait.
- Action and state properties do not depend on the order of magnitude of the delays:
  `MaxBackoff` is 1 or 2 instead of 300 and 60 seconds.

Deadlock is checked except in `workers_and_dispatchers`, where everything is published or
settled in the end and all processes may have stopped, and in the scenarios, where a
component may have used up its records.  Deadlock among row locks is a property.

### Fairness

Liveness is checked under weak fairness of each process's own loop (each loop in the code
runs until it is asked to stop, catches the errors of a round, and a crashed process is
restarted by its supervisor) and of the clock.  A claim of a worker is strongly fair
(`FullClaim`), since a row is not locked by another transaction *every* time the worker
looks.  `RetriesAreTakenUp` is violated even though every claimable task is claimed fairly.
In `MCProcesses` only the processes of the chosen scenario are fair.

`FairSpec` of `CiLab`: webhook workers run their cycles and get some answer, leases end, time
passes.  `ProviderFairSpec`: the same worker, the platform answers or refuses what is posted
to it, leases end, and a transaction that has begun ends; dispatchers, clients and persons
need not act.  `EndIsLearned` therefore rests on webhooks alone.

Nothing is assumed about clients, administrators or faults (which are only bounded).  That
handlers end is not assumed but is the hypothesis of `EveryTaskSettles` (`HandlersEnd`).

## 4. Theorems

Checked by TLAPS for every value of the constants that satisfies the named assumptions of
the modules.  "Finite" below is a hypothesis where a proof counts (dispatchers, workers,
schedulers, accounts); nothing else is bounded.

| theorem | statement |
|---|---|
| `TypeCorrect` | `Spec => []TypeOK` |
| `LedgerCorrect`, `NoTaskStranded`; together `NeverStranded` | `Spec => []NoTaskIsStranded` |
| `CancellationKept`, `ResultCorrect`; together `EndsCorrect` | `Spec => []EndsAreDue` |
| `LeaseExclusive` | `Spec => LiveLeaseIsExclusive` |
| `JobsAreLeased` | `Spec => EveryTaskIsALeasedJob` |
| `WorkersUseTheQueue` | `LoopSpec => Spec` |
| `RunsExclusive` | `LoopSpec => []RunsAreExclusive` |
| `RepeatsArePaid`, `ClaimExclusive` | `OutboxSpec => []RepeatsCostFaults`, `OutboxSpec => LiveClaimIsExclusive` |
| `DevicesUseTheQueue` | `DeviceSpec => Spec` |
| `TablesOfDevicesAgree`, `DeviceLeaseExclusive` | `DeviceSpec => []DeviceAndLeaseAgree`, `DeviceSpec => LiveDeviceLeaseIsExclusive` |
| `ForbidHolds`, `FatesAreDecided` | `SchedulerSpec => []ForbidNeverOverlaps`, `SchedulerSpec => EveryInstantHasOneFate` |
| `ScheduledTasksAreKept`, `ScheduledLeaseExclusive`, `ScheduledJobsAreLeased` | if nobody chooses "replace" (`NobodyReplaces`): `SchedulerSpec => [](NoTaskIsStranded /\ EndsAreDue)`, `LiveLeaseIsExclusive`, `EveryTaskIsALeasedJob` |
| `BacklogIsCovered` | `CronSpec => []PlansCoverTheBacklog` |
| `PlansAreTheScheduler` | `CronSpec => []PlansAreAsScheduled`: the plans that are walked are plans of `Scheduler` |
| `LabTypeCorrect` | `Spec => []TypeOK` (of `CiLab`, as the following) |
| `ChangesAreAnnounced` | `Spec => []EveryChangeIsAnnounced` |
| `LifeMovesForward` | `Spec => []AnnouncedLifeMovesForward` |
| `GateHolds` | `Spec => []GateNeedsADecision` |
| `AttemptsAreOrdered`, `OneSettles`; together `DeliveriesInOrder` | `Spec => []DeliveriesAreOrderly` |
| `EndsAreFinal` | `Spec => TheEndIsFinal` |
| `ProviderImplementsLab`, `LabPromisesHold` | `ProviderSpec => Spec`, and so the two invariants of the lab about gates and announcements |
| `DecisionsHold` | `ProviderSpec => []DecisionsAgree` |
| `TablesHold`, `EndStays` | if `LateCancels = FALSE`: `ProviderSpec => []TablesAgree`, `ProviderSpec => EndIsKept` |
| `ContentKept`, `StorageMatches`, `PermitsConserved`, `RowsLinkedWhenAllowed` | `[]ContentIsKept`, `[]StorageMatchesRows`, `[]PermitsAreConserved`, `LinkedWhenAllowed` of the storage |
| `CacheStaysCurrent` | `CacheSpec => []CacheIsCurrent` |
| `LessonsKeep` | `LessonsSpec /\ DevicesSpec => LessonsKeepTheirPromise`, with it the refinement of `LeasedJob` for every task |
| `RecordsStayConsistent`, `PastStays`, `ImportIsAsPreviewed` | `TransferSpec => []RecordsAreConsistent`, `PastIsKept`, `[]PreviewIsHonoured` |
| `PipelinesStayWhole` | `PipelineSpec => []RunsStayWhole` |
| `RowsAreLockedInOrder` | `RowLocksSpec => []OnlyACancellationDeadlocks` |
| `AdminRemains`, `SessionsStayDue`, `LoginsStayCurrent` | `IdentitySpec => []AnAdminRemains`, `[]SessionsAreDue`, `LoginsAreCurrent` |

### The queue and its clients

*`TaskQueueProofs`.*  One inductive invariant conjoins the properties above with what they
rest on: attempts stay within the budget, a running task's token is its number of attempts
and its grant has been handed out, no grant and no wake-up of a task is newer than its
attempts, and an unclaimed task has no lease.  `WakeupLedger` is not inductive without the
last two: to know that the hint of a *running* task's generation is still free one has to
know that a claim raised the generation above every hint written so far.
`ResultOfLatestClaim` needs that an accepted token equals the number of attempts, which is
why the code may compare the token alone.  `Invariance` proves that Init implies it and
every action preserves it, one step per action.

*`ProcessesProofs`, workers.*  Every step of the worker processes is a step of the queue or leaves
it unchanged; the only work is that a token a worker holds was handed out to it, so the
calls it makes are calls the queue's specification allows.  All theorems about `Spec`
therefore hold of the worker processes.  `RunsExclusive` is an account: among the workers
that run a task, those without its live lease (`Overrun`) are at most as many as there
were faults (`OverrunsArePaid`), and all others hold the one live lease and have their next
heartbeat before it ends (`HoldsInTime`).  A healthy worker cannot lose its lease because
`HeartbeatInterval < LeaseSeconds` (`WorkerOptionsAssumption`, checked at start-up by
the code); a tick that would let the lease pass must be preceded by the beat.

*`ProcessesProofs`, dispatchers.*  Again an account, per row: hints sent, and those still to come from
dispatchers whose claim has lapsed while they were publishing (`Overdue`), are at most as
many as the faults, plus one if the row is `Delivered` (published, or confirmed under the
live claim).  `RepeatsCostFaults` alone is not inductive: when a claim lapses nothing has been
sent yet, but its hint can no longer be prevented.  `ClaimsAreNumbered` says that
versions tell claims apart, also those of processes that share an id.

*`QueueClientsProofs`.*  Devices only use the queue.  `DeviceAndLeaseAgree` says what an
active lease knows of its device; the invariant adds the other direction (`NamedLeaseIsOwn`),
without which a lease granted to one device could be named by a second.

For the schedule the queue's theorems are *not* available as they stand: REPLACE cancels
tasks that are held, which is no operation of the queue.  `SchedulerInv` says instead what T2 may rely on
although the tasks it has read are not locked: at most one scheduler holds the row, a plan
of the row's present version is still what would be planned (`PlansAreOfTheRow`), and if the
holder saw no active task when it read, only a retry by hand has made one active since
(`NoneUnseen`).  `FatesAreDecided` rests on it and on the lemma `BacklogIsPlanned` about
`SelectedAndSkipped`: whatever the policy, the newest instant of the backlog is selected
or skipped.

REPLACE is also all that stands between the queue's promises and a schedule.  As long as
nobody chooses it (`NobodyReplaces`, a hypothesis on the behaviour and not on the constants),
the commit of T2 only inserts rows, for several instants at once (`EnqueueAll`), and every
other step is one of the queue (`OtherStepsAreOfTheQueue`).  `QueueInv` adds to the queue's
invariant that an instant without a fire has no task yet (`UnfiredIsAbsent`), so that an
insert meets no row and no hint of its generation, and that no plan in flight was made
under "replace" (`NoPlanReplaces`), since a plan outlives the edit that follows it.  That the
hypothesis cannot be dropped is the run `replace_strands_a_retry`.

*`QueueClientsProofs`, cron plans.*  A search is understood by what it leaves out: `NextAfterIs`
and `PreviousIs` say that nothing between the time and the result matches, from the least
and greatest elements of sets of numbers, which exist because the order of the naturals is
well-founded; no induction over minutes is needed.  `CronInv` says where a walk stands.
Walking back, the plan holds all due times after its cursor, and fewer than the limit
(`Backwards`); walking forward, all due times of the grace window before its cursor
(`Forwards`).  `next_due` is a due time itself (`CronTypeOK`), for it was found by a search,
so the walk back cannot step over it.  `SlotsSuffice` shows that the grace window has at
most `MaxSlots` minutes: the error of `_cron_due_plan` for too many is never raised.  What the
policies ask for is `LastOnes`, and three lemmas say which sets are the last n of a set.
A plan that gives up has looked in vain for as long as a search looks (`LookedInVain`).
`CronAssumption` says that the grace periods have a longest, which the code's schema bounds
by a day.

`PlansAreTheScheduler` joins the two models of a plan.  `Scheduler` numbers the due times and
leaves the plan to `SelectedAndSkipped`; `CronPlans` walks over the times themselves.  With the
due times of the backlog numbered in their order, from any number on, what a walk selects and
skips is one of the pairs that `SelectedAndSkipped` has for its policy; by `BacklogIsCovered` it
goes on with the due time whose number is the next.  What is proved of the scheduler therefore
holds of cron rules as `CronPlans` computes them.  The lemmas count: the
numbers of a finite set of times are exactly 1 to its size (`PlaceTaken`, an injection
between sets of one size), in their order (`PlaceOrders`).

### The lab and the platform

*`CiLabProofs`* has the invariant `LabInv`.  For each run it says that the run is
sound (its gate fits its definition, and a decision is recorded exactly if it ended
the run), that its deliveries tell statuses of rising rank, the last of them the
present one, and that an attempted delivery has only delivered ones before it; for
the workers, that no claim is newer than its delivery and no two workers have the
same claim.  A step either *observes* runs (`Observed`: the run becomes one that
`Follows` from what was announced, and `Notified` extends the outbox) or *works* on
deliveries (`MayBecome`: the text and place of a delivery stay, its version does
not fall, and delivered stays delivered).  Each kind implies `RunStep`, from which
the invariant follows; so a proof about an operation has only to show of which kind
it is.  The claims are why versions are needed: a new claim is of a version that
its delivery never had, so it differs from every claim still held.
`AbsenceAssumption` says that the values that stand for "no run" and "no decision"
are not runs and decisions themselves.

*`ProviderRunsProofs`.*  `ProviderImplementsLab` needs only that a decision on its way to
the lab is one of the two there are.  The platform's own invariants come in two layers.
`PlatformInv` holds on every database: whatever a snapshot or an event says has been announced
by the lab (`IsTold`), a gate that a person could decide is left only by the end of the run
(`AtGateOrEnd`), intent and run agree, and what dispatchers, requests and persons have in
hand between two transactions is of that kind.  It gives `DecisionsHold`.
`MarkInv` relates the watermark to the stored status: the status is that of the announcement the watermark names, an answer
is not older than the run if the run's version is still the one read (`ReadIsRecent`), and a
cancellation that has read the row still finds it undispatched (`CancellationIsDue`).
The last is what a lock over the whole cancellation gives, so `TablesHold` and `EndStays`
have the hypothesis `~LateCancels`, which is SQLite's process-wide lock.  That it cannot be
dropped is the run `cancellation_overwrites_an_end`.

### The web process

*`StorageProofs`.*  The invariant of the storage is stated of each file by itself, so that a
step has to be looked at only for the file it moves; the others are the same (`SameFile`).
`FileInv` says: a row is written once, by the upload that has stored its object
(`RowAfterObject`); a move drops its source only when its copy is there and its copy only
while the source is (`MovesAreSafe`), which two overlapping deletions break, hence
`overlapped`; without faults the objects are where the position of the move puts them
(`Placed`, `FilesMatch`).  The permits have an invariant of their own: what is free and
the numbers of the finite sets of uploads, copies and streams under way add up.
`CacheIsCurrent` is not inductive either, since a read fills in what it has loaded some
steps before; `CacheInv` adds that whoever is under way holds the lock and that what has
been loaded is still the truth.

*`StorageProofs`, row locks.*  Transactions cannot wait in a circle if each waits only for rows
that come after all it has locked: schedule, tasks by primary key, device, lease, hint,
connection, run, event.  Intents have no one place in this order.  The dispatcher locks an
intent before its run, a cancellation the run before its intent; so there are two orders
(`IntentFirst`, `RunFirst`), each kept by all transactions but one kind (`TransactionInv`),
and a circle needs both kinds.  `LastRow` says that a finite set of rows has a last one, by
the well-foundedness of strict inclusion; therefore `RowLocksAssumption` asks that the
connections are finite, which their pools are.

*`IdentityProofs`.*  `IdentityInv` says that whoever is between the read and the write of an
account holds the lock; that such a write leaves an administrator (`WritesAreSafe`), because
the count was made under the same lock; that an outdated session is one that was issued, and
is revoked or due to be by the request under way (`OutdatedAreIssued`); that an
authorisation is used once (`UsedOnce`); and that a login that still counts as fresh has
verified the account as it is (`FreshIsVerified`).  The administrators are counted, so the
accounts are assumed finite.

*`ServicesProofs`, lessons.*  Each task of the lessons is a record; every operation changes
one record in one of a few ways, each of which is a step of `LeasedJob` for its task.  An
open task has budget left (`JobShape`), which is what recovery and retries look at.

*`ServicesProofs`, test management.*  `RecordsInv` is split by the tables each part reads, for
an operation writes one or two of them; a lemma for each group of operations
(`SuiteIsWritten`, `CaseIsWritten`, `UnexecutedPlanIsWritten`, ...) says what a written row
has to satisfy, and each operation shows that its checks give just that.
`RecordsAreConsistent` is not inductive in three places.  That the suites are a forest is
proved as "no suite is in the chain of its parent": the walk of `_validate_parent` sees the
chain of the new parent, and a chain is least (`ChainIsLeast`), which makes induction
along the tree unnecessary.  That a plan has one execution needs that a draft has none
(`PlansRunOnce`); this is also why an executed plan keeps its cases (`PastStays`).  And what
ended halfway is paid for: a step that ends between its two writes adds one late record and
one fault, every other step adds none (`OneLate`, `NoneLate`).  The counts need that suites,
plans and defects are finite, that a suite is not a defect, and that the values for "no
parent", "nothing" and "no project" are not records (`TestManagementAssumption`).

*`ServicesProofs`, import.*  `ImportInv` adds that, as long as no other request has come
between, what was read is still what the tables hold, except for the table of cases while
cases are being written (`BatchSees`); the check of a row does not look at that table when
the row is a case, so the service comes to the same answer (`ValidRowIsWritten`).
`ImportFilesAssumption` says that the rows of a file are numbered and name suites, cases and
executions.

*`ServicesProofs`, pipeline simulator.*  `RunsStayWhole` is not inductive in any of its three
parts, so its invariant has four.  A run is `Sound` if its tree agrees with its status
(`RunAgrees`) and, beyond what the property asks, no stage has failed or been cancelled
unless the run has; without that a job could be started in a run that has ended.  Every operation makes a
`Grown` run of a sound one: it is sound, an end stays, nothing that has begun is put back.
`SoundInv` says that the three copies of every run (memory, tables, `_durable_state`) are
sound and that the position of the executor `Fits` each of them, since a reload may replace
the one it works on by another.  `RequestInv` says that the copies of a run with a task have
one request, which is what lets the executor go on after a reload.  `KeepInv` is about
answers: memory may be behind the tables, after a save that was committed and reported as
failed and a reload that failed too, but `Precedes` them, so both agree with what clients were
told; three faults can break that, hence the bound in the property.  `StayInv` says how
far a run is that only its executor has moved (`Progress`: the stages before its position have
succeeded, those after it are queued), so that an executor that is done leaves none
unfinished.  `PipelineAssumption` says that a request has stages and a stage has jobs.

### Only model-checked

- All liveness: fairness and ENABLED are out of the proof system's reach.
- The violated properties, which are counterexamples.

## 5. Plan

Modelled: every component of section 1 that keeps shared state; what is left out of each is in
`PROJECT.json`, `components`, and in section 7.

Every invariant and action property of the passing runs is proved; section 4 says under which
hypotheses.  To prove next is whatever the extensions below add.

To model next: a composition of queue, outbox and workers in which hints decide when a worker
looks; the administration of provider connections; two schedules with one task template.

## 6. Where to look when the code changes

A change in a function named in `PROJECT.json`, `map`, is a change of the
definition beside it.  A new status, a new writer of a table, or a new call
between two transactions is a new action.  A new transaction that locks rows belongs in
`RowLocks`.

## 7. Not modelled, and why

- Row order by priority and creation time: it decides which claimable row is first, and no
  property depends on it.
- Contents: payloads, capabilities, names, error codes, audit texts, logs, metrics;
  validation that refuses a request without changing state.
- Idempotency keys of requests to the persistent runtime: a repeated key is answered with
  the first result, and the race of two first requests is decided by a unique index, which
  is the database's work and not the program's.
- The reconnect cooldown and topology of RabbitMQ: outcomes of a publish are kept.
- Read operations, except where a later write depends on what they returned; quality reports
  are such reads.
- Secrets (a Vault client behind a small cache), observability, configuration, sessions of
  the database and migrations: no shared state with interesting orders.
- The HTTP layer and the frontend: their calls are the client actions of the models.
- Parsing of import files, templates and exports: a row is well formed or not.
- Cryptography of tokens, passwords and webhooks: a token is a name that cannot be guessed.
- Provider kinds other than `learning_ci`: their servers are outside of the repository.
- The time zone database: the wall clock is a table of readings.
