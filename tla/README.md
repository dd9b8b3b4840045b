# A verification development for Jarvis Registry

Jarvis Registry is a registry and gateway for MCP servers, A2A agents, skills and
workflows. Several replicas of three Python services share one MongoDB, one Redis and one
vector store (Weaviate): **registry pods** (API, background jobs), **workflow-worker pods**
(scheduled workflows) and the **auth-server** (OAuth). No replica is special and any of
them may be killed, so everything that takes longer than a request is a *leased job*: a
MongoDB document that names who works on it and until when.

The modules here are written from that code. TLC checks them on small instances; TLAPS
proves the most important properties for every value of the constants. Where a line of
code is meant, the comment beside the definition names the function; `PROJECT.json` maps
every definition to its lines.

Short paths below: `pkgs/` is `src/registry-pkgs/src/registry_pkgs/`, `services/` is
`src/registry/src/registry/services/`, `worker/` is
`src/workflow-worker/src/workflow_worker/`.

- [1 Inventory](#1-inventory)
- [2 Plan](#2-plan)
- [3 The modules and the code](#3-the-modules-and-the-code)
- [4 Runs](#4-runs)
- [5 Proofs](#5-proofs)
- [6 Where the code departs from what it says](#6-where-the-code-departs-from-what-it-says)
- [7 Limits](#7-limits)

## 1 Inventory

| Component | Its state | Its operations | What makes it correct | Here |
|---|---|---|---|---|
| **Leased job library** `pkgs/database/leased_job.py` | lease owner, token, expiry on the job's document; per execution a heartbeat task and its own copy of the expiry | claim, acquire, insert, heartbeat, fenced write, release, self-fence, shutdown hook, reap | one pod executes a job at a time; a superseded one never writes; a job ends once; an abandoned one is recovered | modelled, proved |
| **Workflow runs** `pkgs/workflows/`, `services/workflow_control_service.py`, `workflow_run_launcher.py` | `WorkflowRun` (status, pending directive, requirements, lease), `NodeRun`s, the agno session, an in-process `DirectiveQueue` per pod | launch, step, retry a step, pause, resume, cancel, hold at a gate, decide, time out, continue, finalize, reap | statuses follow the state machine whoever writes; a CANCEL is not lost and stops the run; a decision is acted on; a finished run has no open nodes | modelled in part, proved in part |
| **Schedules** `worker/main.py`, `executor.py`, `pkgs/workflows/schedule_repository.py`, `services/workflow_schedule_service.py`, `workflow_service.py` | `WorkflowSchedule` (enabled, next run, lock, token), tasks and a semaphore per worker | claim due, load, advance and insert run in a transaction, renew, finish, release, drain; toggle, edit, delete, disable or delete the workflow | an occurrence runs once; runs overlap only where a user caused it; nothing stays claimed; a disabled workflow is not run | modelled in part, proved in part |
| **Lease reaper, task tracker** `services/lease_reaper.py`, `background_task_tracker.py` | the running tasks of a pod | reap expired jobs; cancel and await tasks at shutdown | as above | as actions of the two modules above |
| **Skill synchronisation** `services/skill_sync_*.py` | a `SkillSyncSource`, its `SkillSyncJob`s, the skills; per execution a copy of the source | create job with the source, claim, sync, apply, finalize job, then save source, retry, bury exhausted jobs, edit, delete | job and source end in agreement; one active job per source; an outage is not taken for a removal; a deleted source is empty | modelled in part, proved in part |
| **Embedding reindex** `services/embedding_reindex_*.py`, `embedding_maintenance_watcher.py` | job, selection, a gate and an adapter per pod, vector collections per generation | trigger, close the gate, wait for writers, embed, catch up, switch, grace period, resume, collect old generations | no write is lost between two generations; one job wins; what a pod searches exists; the gate opens again | modelled in part, proved in part |
| **Federation synchronisation** `services/federation_*.py` | `FederationSyncJob`s, the `Federation`, the servers and agents imported from it | start, discover, apply, report, delete, fail; repair by executor, reaper and scan | one job owns the federation; what a success reports was applied; a deleted federation has no children; none stays stuck | modelled in part, proved in part |
| **Vector reconciliation** `services/vector_*.py`, `pkgs/models/leader_lease.py` | a marker on each entity, a lease per entity, vector objects | mark with the commit, sync, clear the marker, reconcile, delete, sweep orphans | an unmarked entity has the vectors of its last commit; changes and deletions arrive | modelled in part, proved in part |
| **OAuth token refresh** `pkgs/oauth/refresh_lock.py`, `token_service.py`, `oauth_service.py` | two token documents per user and server, the registered client, a lease in Redis, the provider's memory | use, refuse, lock, refresh, commit conditionally; log in, register, disconnect | a refresh overwrites only what it started from; what is stored is accepted by the provider | modelled in part, proved in part |
| **OAuth flows and codes** `pkgs/core/*_store.py`, `pkgs/oauth/*`, auth-server routes | codes, device codes, consents, flows in Redis | create, poll, approve, consume | used once; a consumed code does not come back | planned |
| **Migrations** `pkgs/migrations/` | a lock and the applied versions | lock, renew, apply, record | scripts run in order, recorded only if they ran | planned, last |
| Registry CRUD of servers, agents, skills | documents | validate, save | what matters to the vectors is marked in the same commit | its writes, as actions of VectorSync |
| Access control, gateway, frontend | | | sequential, data-heavy or pure I/O | not modelled |

**Interactions.** The services meet in documents, not in calls. The API writes a directive
on the run and puts it into the queue of its own pod; the executor, perhaps on another
pod, finds one or the other. A worker's task inserts a run and its first lease in the
transaction that advances the schedule. The API, disabling a workflow, disables its
schedules under the worker's hands. The reaper of any pod ends what another pod left. Agno
(the workflow engine, a library) saves a session and calls back into the syncer, which
writes the run's terminal status in the executor's name. A federation sync and an API call
write vectors under the gate that a reindex closes; the watcher of each pod hears of it by
polling. Calls on all pods refresh one user's tokens, and the identity provider remembers
which of them it has rotated away.

**What is hard here.** (1) *Time*: a pod must stop before its lease expires although its
clock is skewed, its renewals are answered late, and stopping takes time. (2) *Late
writes*: everything a superseded execution sent may still land. (3) *Several writers of
one status*: runner, syncer, wrapper, shutdown hook, reaper, control plane. (4) *Two
channels for one directive*, the queue and the document, that disagree for a while.
(5) *Cancellation*: `asyncio` cancels a task in the middle of any `await`, also of a
transaction that then commits or does not. (6) *Steps that should be one*: the run, then
its nodes; the decision, then its continuation; the job, then its source or its
federation; MongoDB, then Weaviate; the rotated token, then its commit. (7) *Whole
documents saved as they were read*, over what others wrote since. `PROJECT.json` lists these as `hazards`, each at the line where it bites, with
the properties that watch it.

## 2 Plan

Written (in this order, each resting on the one before):

1. **LeasedJob**, which implements the abstract **ExclusiveJob**.
2. **WorkflowRun**, which takes from LeasedJob that a lease expires only after its
   execution stopped, and implements the abstract **RunLifecycle**.
3. **WorkflowSchedule**, which takes a run as something that is executing, ended or failed.

4. **SkillSync**, **FederationSync** and **EmbeddingReindex**: jobs under LeasedJob's rules
   and the documents they report to. They take a lease as held, or expired because its owner
   died or stalled.
5. **VectorSync**: an entity and its vectors. EmbeddingReindex takes from it that a marked
   change reaches the vectors of the generation its task resolved.
6. **TokenRefresh**: the tokens of one user for one server.

To come:

7. **OneTimeCodes**: codes, device codes and consents as operations on Redis keys; a code is
   consumed once, although `update_device_code` writes back what it has read. **Migrations**,
   if worth it.
8. Two federations whose runtimes' names collide; two servers of one issuer that
   share a client.

The runs are kept to a dozen, so that all of them are repeated on every change. Type
invariants and other properties that a theorem states for every value of the constants
are not repeated in a run where another property needs the states anyway.

## 3 The modules and the code

### ExclusiveJob and LeasedJob

`ExclusiveJob` is the promise: a job has at most one holder, a claim that stopped being the
holder never becomes it again, and only the holder writes. `LeasedJob` is the code.

| State | Code |
|---|---|
| `status`, `lease` | the document's status and `lease_token`, `lease_expires_at` |
| `requests` | MongoDB calls sent and not answered: the caller read its clock before, the server evaluates the filter later |
| `phase`, `held` | where a pod is in `run_with_lease`, and its `Lease` (token, expiry last renewed) |
| `work`, `beat` | the execution coroutine and the heartbeat coroutine of `keep_lease_alive` |
| `minted`, `granted`, `released`, `lastWriter` | history |

Actions: `TakeSend`/`TakeWins`/`TakeMisses` (`claim`, `acquire`, `insert_fields`),
`BeatSend`/`BeatRenews`/`BeatMisses` (`heartbeat`), `SelfFence` (the deadline of the
heartbeat loop), `WriteSend`/`WriteLands`/`WriteMisses` (`transition` with the token in the
filter; of a write that matched nothing `transition_or_raise` raises, while a caller of
`transition` may ignore the False, as the workflow runner does: both may happen),
`Return`/`Raise`/`Settle` (the execution ends, whatever it wrote; `run_with_lease` takes any
normal return for a result, even one that leaves the lease behind), `Cancel`
(somebody cancels the execution), `HookSend`/`Stopped` (`on_cancelled`), `FailSend` (the
poll loop's failure path), `Reap` (`reap_one`), `Drop`, `Crash`, `Tick`. A request outlives
its sender and may land with its answer lost.

`Polls` tells the library's two kinds of client apart: TRUE for jobs a poll loop claims
(skill sync, reindex, leaders: an expired lease is claimed again), FALSE for jobs that are
launched (workflow runs, federation syncs: an expired lease is failed by the reaper, and a
parked job is acquired again). `Stalls` lets a pod stop making progress for any time; without
it, a pod notices a passed deadline within `Lag` and a cancelled execution ends within
`Budget` (the code's `FINALIZE_BUDGET`). Two pods never execute at once only *without* stalls and with a
margin wider than skew, lag and budget together: that is what the code can promise, and
its comments say so. *With* stalls, only the token remains, and it suffices for the writes.

### RunLifecycle and WorkflowRun

`RunLifecycle` is what somebody who watches a run may rely on: it has an executor exactly while
PENDING, RUNNING or PAUSED; an executor that left it never comes back; only a started
run completes or is cancelled; its first terminal status is its last.

`WorkflowRun` follows one run from its launch. The lease is a token per claim that expires
only after its execution stopped, which is theorem `Exclusive` of LeasedJob, or at any
time when `"stall"` is among the `Faults`. Each step makes one MongoDB call or one move on
a queue.

| State | Code |
|---|---|
| `status`, `directive`, `token`, `expired`, `requirement` | the `WorkflowRun` document |
| `node`, `session` | the `NodeRun`s; where agno's saved session is held |
| `pc`, `home`, `step`, `decided`, `attempt`, `outcome`, `hook` | each execution's coroutine: `WorkflowRunner.run`/`continue_run`, inside `with_control`, inside `execute_leased_run` |
| `queue` | `DirectiveQueue` of each pod |
| `handlers` | API calls past their first write (`_send_directive`, `resolve_requirement`, `launch_continue`) |
| `cleaning` | reapers that finalized the run and not yet its nodes |

The actions fall into the runner (`Start`, `Continue`, `Build`, `HandleOutput`,
`FinalizeCancel`, `FinalizeFailure`, `CloseNodes`, `Leave`), the step wrapper
(`CheckDirective`, `EnterPause`, `WakeUp`, `PauseTimeout`, `LeavePause`, `Recheck`,
`StartAttempt`, `EndAttempt`, `RecordAttempt`), the session syncer (`SaveSession`), the
lease (`Shutdown`, `Stop`, `LoseLease`, `Expire`, `Reap`, `ReapNodes`, `Crash`) and the
control plane (`SendPause`, `SendResume`, `SendCancel`, `PutDirective`, `CancelAgno`,
`Resolve`, `Nudge`, `GateTimeout`, `Prepare`, `Acquire`, `LoseRace`, and `CallRaises`: MongoDB
or the refresh of the credentials raises in the middle of a call, which leaves what was
written before). An acquire whose answer is lost leases the run to nobody; the reaper ends
it. Agno is external:
modelled is that it holds a run before a gated step, saves its session when a run ends or
is held, and raises at a boundary once it was told to cancel.

### WorkflowSchedule

One schedule of one workflow. `schedule` is the document (state, cron, next run, lock,
token); `workflow`, `deleting` the definition; `enabling` and `commit` are transactions whose effect
is still open; `owner`, `pc`, `beat`, `loaded`, `planned`, `cancelled` are the workers' tasks, one
per claim; `run` the runs they insert.

`ClaimDue` is `claim_due`, guarded by the worker's backlog; `Enter` the semaphore;
`LoadClaim`, `ReadDefinition`, `DisableClaim`, `Insert` the preparation in
`_prepare_scheduled_run`; `RunReturns`, `FinishClaim`, `Raise` the rest of the task;
`Renew` and `Lapse` the heartbeat; `Shutdown`, `Cancel*`, `FailInserted`, `ReleaseClaim`
`_drain_in_flight` and the cancellation paths it takes; `CommitLate` the commit of a
cancelled transaction; `ReapRun` the reaper of the inserted run; and the API calls
(`BeginEnable`/`CommitEnable`, `DisableSchedule`, `ChangeCron`, `DeleteSchedule`,
`DisableWorkflow`, `EnableWorkflow`, and `DeleteRuns`, `DeleteSchedules`,
`DeleteDefinition`, the steps of `delete_workflow`). Times are absolute; a cron expression is
the period between its occurrences, which keeps what matters of it: the next occurrence
lies after now, and editing the expression moves it.

Toggling on is split into its two steps because it *reads* the workflow and *writes* the schedule
while disabling the workflow does the reverse: under MongoDB's snapshot isolation both
commit. The schedule then stays enabled under a disabled workflow, and what keeps the
promise that no such schedule fires is the worker's own look at the definition
(`NoRunOfDisabledWorkflow`).

### SkillSync

One source, its jobs and its skills. A call writes source and job in one transaction; an
execution ends the job under its lease and *then* saves the source, whole, as it read it at
the start.

| State | Code |
|---|---|
| `source`, `jobs`, `skills` | the `SkillSyncSource`, its `SkillSyncJob`s by age, how many live `Skill`s an upstream id has |
| `call` | the source in the memory of each API handler |
| `pc`, `job`, `copy`, `plan` | each `SkillSyncJobRunner`: where it is, the job it has, its copy of the source, the skills still to write |
| `causes`, `kept` | history: what may have broken the agreement of source and job; skills that never left the repository |

Actions: `Read`, `Refuse`, `Edit`, `Submit` (the handlers of PUT, sync and delete);
`BeforePoll`, `Recover` (exhausted jobs), `Claim`; `Load`, `Begin`, `SaveSyncing`, `Fetch`,
`ApplySkill`, `Finish`, `Record`, and on failure `Reject`, `Orphan`, `MarkFailed`; `Sweep`,
`ClearSkill`, `FinishDelete`, `Bury`, `GiveUp`, `Undo`, `Restore` for a deletion; `Crash`,
`LeaseLost`, `Stall`. The discovery of skills is external: it returns what it found and what
it could not parse, or fails.

### VectorSync

One server or agent. A write that matters to the vectors sets the marker
`vectorSyncPendingAt` in its own commit; a task clears it if it is still the same.

| State | Code |
|---|---|
| `doc`, `vectors` | the document with its marker; what Weaviate holds of it, `mixed` when a write stopped half way |
| `lease` | the entity's `LeaderLease` |
| `pc`, `plan`, `seen`, `ending` | each `sync_pending_vectors`: where, the `VectorSyncPlan`, the document it read, why it ends early |
| `copy` | the document in the memory of API calls that save it whole |
| `deletions`, `sweep` | scheduled deletions; the pass of the orphan sweeper |

Actions: the calls (`Create`, `Update`, `Delete`, `Enrich`, `Enable`, `Disable`, `Refresh`,
`RollBack`, `RecordError`), the task (`Claim`, `Load`, `Stamp`, `Reload`, `AssertOwned`,
`Write`, `Insert`, `Clear`, `Dirty`, `Disown`, `Release`, `Requeue`), the reconciler and the
federation (`Reconcile`, `Repair`), `DeleteVectors` and the sweep in its three reads, and the
faults. `Write` and `Insert` happen in a thread that is not cancelled: a task that has
lost its lease may still do them.

### EmbeddingReindex

One entity stands for all of them; the generations of the collection do not.

| State | Code |
|---|---|
| `document`, `vectors`, `selection` | the entity and its marker, what each generation holds of it, `ModelGatewaySelection` |
| `jobs`, `asked` | `EmbeddingReindexJob`s; triggers past their read of the active job |
| `pods` | each pod's watcher: the gate it believes in, and the generation its adapter serves |
| `executor` | each pod's `EmbeddingReindexJobRunner` |
| `writer` | API calls, federation syncs and reconcilers between gate, commit and Weaviate |
| `collector` | each pod's pass of `gc_stale_embedding_generations`: the selection it read, the generations that running jobs protect, those superseded too long ago, the collections still to look at, the one about to be dropped |
| `causes` | history: what came too early for a switch, or too late |
| `jobs.early` | the gates and writers that the job has not waited out yet: the delay is time in the code, an obligation here |

Actions: `Ask`, `Insert`, `Poll`, `PollFails`; `Pass`, `Federate`, `Commit`, `Reconcile`,
`Resolve`, `Land`; `Claim`, `Load`, `Prepare`, `Sweep`, `Embed`, `AwaitWriters`, `CatchUp`,
`DeleteRemoved`, `CommitGeneration`, `Complete`, `Fail`; `GcRead`, `GcProtect`, `GcList`,
`GcCheck`, `GcDrop` and `GcFails`, one for each `await` of a collection, during which its pod's
watcher does not poll; `RetentionEnds` (ten minutes have passed since a job completed, whatever
the pods did meanwhile); `Expire`, `SyncStalls`, `Crash`. A pass goes by what it has read, while
jobs are claimed, switch and end. Two marks say when it took longer than what the others wait
for: a job gave up waiting for a collecting pod to poll (`Unheard`), or the grace period after a
switch ended under a pass that had read the selection before it (`Outlived`).

### FederationSync

One federation with several remote runtimes, each of them written on its own, so that a plan
may be applied in part. A job is born leased by the pod that executes it and never claimed again;
what it leaves is repaired.

| State | Code |
|---|---|
| `parent`, `child`, `jobs` | the `Federation` (status, sync status, `lastSync.jobId`, `deletingJobId`, age of `updatedAt`), the revision of each runtime in MongoDB, the jobs |
| `parent.report` | what the parent tells of its last successful sync: `stats.importedTotal`, and whether it shows neither a message nor anything unimported; with what that sync found, which is history |
| `exec` | each execution: where, what it discovered, what is planned for each runtime or became of it, whether there are error messages, and what its copy of the parent says |
| `calls` | calls that have read that no job is active |
| `fix` | a repair in progress, of a reaper or of an executor's shutdown hook |
| `stalled` | history: jobs whose executor went on without its lease |

Actions: `Ask`, `Submit`, `Touch` (any edit renews `updatedAt`); `Start`, `Discover`,
`Bookkeeping`, `Apply` and `ApplyFails` (one runtime; deletions first, then creates, then
updates), `Applied`, `Vectors`, `VectorsFail`, `AssertOwned`, `FinalizeParent`,
`FinalizeJob`, `FailParent`, `Escaped`, `AfterError`; `MarkSyncing`, `DeleteTransaction`,
`Restore`; `Cancel`, `Stop` (shutdown); `Reap`, `ReadParent`, `RepairParent`, `RepairFails`,
`ScanParents`, `ScanJobs`; `Expire`, `AgeParent`, `AgeJob`, `Crash`. Two jobs may be live at
once only between the first one's write to the parent and its own terminal write; the
model says so and the property speaks of jobs that have not reported.

A provider lists a runtime with a revision, or with an error or a name that is taken (`Refused`),
or does not list it although it is there (`Unread`), or it is gone. A runtime that cannot be written or whose
vectors fail is noted and the others go on; the sync is a success if it imported anything, or had
nothing to import. So `SuccessIsApplied` does not say that everything was applied: it says that
what the parent reports is so, the count always, and the whole when nothing is reported missing.

### TokenRefresh

One user and one MCP server. Every commit encrypts anew, so a token document is named
by whoever wrote it: a call, a login, or `Base`, what there was before.

| State | Code |
|---|---|
| `access`, `refresh`, `expired` | the two `Token` documents |
| `registry` | `registryOAuth` of the server: the client, and the revision |
| `lock` | the key of `refresh_lock` |
| `registered`, `forgotten`, `honoured` | external: the clients the provider knows, the refresh tokens it accepts |
| `pc`, `held`, `saw`, `seen`, `tries` | calls and logins: where, the token that was refused, `token_write_snapshot`, the revision read, attempts |
| `client`, `token`, `grant` | what an actor received, with which client, and the login it goes back to |
| `causes` | history: what left a rotated token behind |

Actions: `Fetch`, `Use`, `DeleteRejected`, `Check`, `Acquire`, `Drain`, `StopWaiting`,
`Release`, `Expire`, `Recheck`, `Snapshot`, `Reread`, `EnsureOwned` (twice: before the
request and before the commit), `Answer`, `Refuse`, `Unanswered`, `Commit`, `Invalidate`;
`StartLogin`, `Ensure`, `Exchange`, `LoginSnapshot`, `LoginCommit`; `Disconnect`,
`AccessExpires`, `Forget`, `Crash`. The provider rotates a refresh token or does not, and may
revoke a whole grant when it is shown a rotated one. A logged-in user may lack a refresh
token; a refresh request that is given up may have been processed.

## 4 Runs

| Run | Question | Bounds, and why they suffice |
|---|---|---|
| `lease_poll` | Polled jobs, skewed clocks, slow or lost calls: does one pod execute at a time, are its writes accepted, does the document do what `ExclusiveJob` promises? | 2 pods one tick apart, lease 3, margin 2 (the least that covers the skew), 2 claims: a takeover and the old holder's late writes. With margin 1 the properties fail |
| `lease_launch` | Launched jobs on a pod that stalls: does a superseded claim never write, does a job without an executor end, also when its execution returned without releasing it? | one pod, 2 claims, both own writes (finish, park), reaper and shutdown hook racing them, a hook that uses its budget. That two *pods* stall is theorem `SupersededNeverWrites` |
| `run_nodes` | Runs held at two gates in a row: does every interleaving of the writers implement `RunLifecycle`, who may step, are decisions acted on, do nodes end with the run? | 3 claims (launch and two continuations), 2 calls on two pods, a retried step, six kinds of fault, calls of the API that raise or lose an answer among them |
| `run_live` | Does a CANCEL stop a run, a RESUME wake it? | two steps, 3 calls, crashes, lost renewals, errors, swallowed syncs, failing finalizers, API calls that raise after they wrote the directive |
| `schedule_drain` | Drains, kills, late commits against every API call | 2 workers, 2 claims, 2 calls, one slot of a backlog of two: one task executes while one waits |
| `schedule_lapse` | Lapsed and abandoned claims: is an occurrence run twice, does an abandoned one come back? | as above, with renewals that fail and calls that raise, under fairness |
| `skill_sync` | Two runners and a handler that saves what it read: do source, job and skills agree in the end? | 2 jobs (a sync and a deletion, or two syncs), 2 attempts (one retry), one skill, crashes, stalls, failing saves |
| `vector_sync` | Do the vectors follow the document, do changes and deletions reach them? | 2 tasks, 2 writes of two contents, a handler with a stale copy, one fault of five kinds; 7 markers are never used up |
| `reindex_switch` | Two jobs from one generation: one winner, nothing searched that is gone? | 2 pods, one of which collects step by step, 2 jobs, 2 attempts, no writer, one fault (a lapse, an error, an adapter that cannot be built). A pass overlaps one job's end and the other's switch; a pod lags within the retention and beyond it |
| `reindex_live` | Do searches follow, is the switch complete, and are writes let in again? | 2 pods, one job and attempt, one writer, no collector (the theorems have it), 2 faults of three kinds (lapse, crash, stall), under fairness |
| `federation_jobs` | Two jobs of one federation, with every repair: one owner, no orphan, no false report, not stuck? | 2 jobs (sync or deletion), 2 calls, 2 runtimes of 2 revisions, 4 listings, a reaper; any write of a runtime may fail, and one more fault of six kinds, under fairness. One is enough for a repair to be killed and the scan to find its parent, as a refused spawn ends a job without a fault. That the save of an update inserts a child that another job deleted takes a third job and is left to the theorem |
| `token_refresh` | Two calls refresh while the user logs in or disconnects | 2 calls, one login, all six faults, no bound on their number |

All runs expect no error. Every bound is a constant whose comment says `bound`. They are guards: `Horizon` (no lease
is taken or renewed later; the schedule's clock stops), `LastStart` (no claim or call later,
so that what was begun can end before the clock stops), `MaxClaims`, `MaxCalls`, `MaxJobs`,
`MaxWrites`, `MaxVersion`, `MaxFaults` and the like. Where they
or a terminal state end the behaviour the configuration turns the deadlock check off;
that a system which should go on does go on is the business of the liveness properties. Pods or workers are
permuted (SYMMETRY) only in runs without liveness properties and where their clocks agree.

Properties, one line each (the comment above each definition says which code it is about):

- **LeasedJob**: `ExclusiveExecution`, one works at a time; `NoReturnAfterTakeover`, a
  superseded claim neither returns nor writes; `WorkersWritesAccepted`, a write that a
  working execution waits for is accepted, or its own hook ended the job, so that an ignored
  False hides nothing; `AbandonedLeaseEnds` (liveness);
  `ExclusiveJobSpec`, the refinement. Proved only: `HoldsWhileWorking`, who works holds the
  lease or gave it up by its own write; `FinishedOnce`, a terminal status stays.
- **WorkflowRun**: `CancelIsNeverErased`, only the coroutine that aborts takes a CANCEL off
  the run; `StepsUnderLease`, who steps is who the run is leased to, or is being stopped
  behind its own shutdown write; `DecisionIsActedOn`, only a crash of the pod, or a call that
  raises before it acquired the run, leaves a decided gate behind; `NodesEndWithRun`; `RunLifecycleSpec`, the refinement;
  `CancelStopsRun`, `ResumeWakesRun` (liveness).
- **WorkflowSchedule**: `OneRunPerOccurrence`; `NoUninvitedOverlap`, runs overlap only behind
  a claim a user withdrew; `EndedTaskLetsGo`, a task that ran or was drained while queued
  leaves no claim; `NoRunOfDisabledWorkflow`; `AbandonedClaimComesBack` (liveness). Proved
  only: `StateFieldsAgree`, state, next run, token and lock agree.
- **SkillSync**: `SourceFollowsJob`, the source reads pending or syncing exactly while a job
  is active or its outcome on the way; `OneActiveJob`; `KeptSkillStays`, no outage is taken for
  a removal; `NoDuplicateSkill`; `DeletedSourceIsEmpty`; `SyncEnds` (liveness). Proved only:
  `JobEndsOnce`; `LastSyncSucceeded`, no source reports a sync that failed.
- **VectorSync**: `VectorsFollowDocument`; `ChangesAreSynced`, `OrphansAreSwept` (liveness).
- **EmbeddingReindex**: `ActiveGenerationFollows`, a search finds what was committed;
  `SwitchIsComplete`; `OneWinner`; `ServedGenerationExists`, no pod searches what was dropped;
  `WritesResume`,
  `ChangesAreSynced` (liveness).
- **FederationSync**: `LiveJobOwnsParent`; `NoOrphan`; `SuccessIsApplied`, what a parent counts as
  imported is in MongoDB as it was found, and all of it is when nothing is reported missing;
  `ParentIsFreed` (liveness). Proved only: `JobSuccessIsReported`.
- **TokenRefresh**: `RefreshContinuesStored`, a refresh replaces only the token it has shown
  to the provider; `StoredIsHonoured`, the stored refresh token is accepted or about to be
  replaced. Proved only: `OneGrantStored`, access and refresh token are of one commit.

**Fairness.** Weak fairness throughout, of what the code's scheduling guarantees: the
event loop runs every ready coroutine; MongoDB answers or fails a call; time passes; every
pod runs a reaper loop, a watcher and a reconciler, and every worker and runner a poll loop. *No* fairness is assumed of API
calls, of users, of timeouts of pauses and gates, of faults, or of a step's success. In
`WorkflowRun` an execution's fairness is of its coroutine as a whole, not of one branch of
it, and a step may end either way.

**Conditions of properties.** Some are deliberately not stated stronger than the code is.
Where the code has a known gap, a history variable (`causes`, `cut`, `withdrawn`, `stalled`)
records that it was entered, and the property excepts these states: what it then shows is
that there is no *other* way.

- `NodesEndWithRun` excepts runs whose finalization was interrupted between the terminal
  write and the nodes (`run_lease.py` documents the window as accepted). Its run leaves out
  stalls (NodeRuns are saved without a fence), failing finalizers, and a swallowed sync
  together with a failing record, a double fault.
- `NoUninvitedOverlap` is checked where renewals are answered in time; where they are not,
  `executor.py` accepts an overlapping occurrence.
- `SourceFollowsJob`, `SyncEnds`: a process that ends between the job's outcome and the
  source's (`unrecorded`), an execution that outlived its lease (`overrun`), a handler that
  saved a stale source (`overwrite`). `NoDuplicateSkill` and `DeletedSourceIsEmpty` except only
  those of the three that can break them.
- `VectorsFollowDocument`: a document saved over another write (`overwrite`), a change that
  sets no marker (`unmarked`), the failure or death of a task that had lost its lease
  (`lateEnd`).
- `SwitchIsComplete`, `ActiveGenerationFollows`: a gate that opened between two attempts of a
  job (`reopened`) or is open at the catch-up (`openAtCatchUp`), a federation sync that
  stalled past its lease (`stalledSync`), an executor that wrote without one (`lateWrite`), a pod
  that collected all the time a job waited for it to poll (`unheard`), a collection that outlived
  the grace period of a switch (`outlived`).
- `NoOrphan`, `SuccessIsApplied`: no execution went on without its lease (`stalled`).
- `ServedGenerationExists`: a generation whose superseding job failed because another one
  switched on meanwhile (`Unprotected`), a pod that lags for longer than the retention
  (`Overdue`), and the causes `unheard` and `outlived`; see section 6.
- `StoredIsHonoured`: a lease that lapsed under a working call (`lapse`), an owner that
  could not make sure or whose commit was aborted (`dropped`), a lost answer (`unanswered`), a
  crash, and a refused access token deleted by another call (`deleted`), which needs no
  fault at all. `OneGrantStored`: one race of two logins and a call (`mixed`), which needs
  two logins and is found with one call and two of them.

## 5 Proofs

All proofs are checked by TLAPS with its SMT, Zenon and LS4 backends, and hold for every
value of the constants that satisfies the named assumptions of the module (durations and
bounds are naturals, the margin is less than the duration, faults are among the known
ones, ...). Those assumptions are also evaluated by TLC on every run.

| Theorem | Says | Rests on |
|---|---|---|
| `LeasedJob_proofs!TypeCorrect` | types | |
| `...!Refinement` | `Spec => ExclusiveJobSpec` | `TokenInv` |
| `...!SupersededNeverWrites` | `NoReturnAfterTakeover`, whatever the timing | `TokenInv` |
| `...!Exclusive` | without stalls and if `MarginCovers` (skew + lag + budget < margin): `HoldsWhileWorking`, `ExclusiveExecution` | `TokenInv`, `TimedInv` |
| `...!WritesAccepted` | under the assumptions of `Exclusive`: `WorkersWritesAccepted` | `TokenInv`, `TimedInv` |
| `...!TerminalIsFinal` | `FinishedOnce` | `TokenInv` |
| `WorkflowRun_proofs!TypeCorrect` | types | `SavesItsOutcome` |
| `...!ImplementsLifecycle` | `Spec => RunLifecycleSpec`, under every fault | `Inv` |
| `...!StepsAreExclusive` | without stalls: `StepsUnderLease` | `LeaseInv` |
| `...!CancelIsKept` | `CancelIsNeverErased`, under every fault | `Inv` |
| `...!NodesAreClosed` | without stalls, failing finalizers and the double fault of section 4: `NodesEndWithRun` | `LeaseInv`, `Recorded`, `Tidy` |
| `...!DecisionsAct` | `DecisionIsActedOn`, under every fault | `Inv` |
| `WorkflowSchedule_proofs!TypeCorrect` | types | |
| `...!StateFields` | `StateFieldsAgree`, under every fault | `IInv` |
| `...!OneRun` | `OneRunPerOccurrence`, under every fault | `IInv` |
| `...!NoOverlap` | without a silent heartbeat: `NoUninvitedOverlap` | `IInv`, `OverlapInv` |
| `...!LetsGoOfClaims` | without a call that raises: `EndedTaskLetsGo` | `IInv`, `LetGoInv` |
| `...!NoOrphanFires` | `NoRunOfDisabledWorkflow`, under every fault | `IInv`, `CascadeInv` |
| `SkillSync_proofs!TypeCorrect` | types | `Base` |
| `...!SingleActiveJob`, `...!EndIsFinal` | `OneActiveJob`, `JobEndsOnce`, under every fault | `Base` |
| `...!LastSyncIsGood` | `LastSyncSucceeded`, also after stale saves | `Base`, `LastGood` |
| `...!KeptSkillsStay` | `KeptSkillStays`, under every fault | `Base`, `KeepsPlan` |
| `...!SourceAgrees` | `SourceFollowsJob` | `Base`, `Agreement` |
| `...!DeletedLeavesNothing` | `DeletedSourceIsEmpty` | `Base`, `Agreement`, `Cleaning` |
| `...!NeverTwice` | `NoDuplicateSkill` | `Base`, `Creating` |
| `VectorSync_proofs!TypeCorrect` | types | `TypeInv` |
| `...!VectorsFollow` | `VectorsFollowDocument` | `TypeInv`, `Inv` |
| `EmbeddingReindex_proofs!TypeCorrect` | types | `Typed` |
| `...!Winner` | `OneWinner`, under every fault | `Typed`, `History` |
| `...!ServedExists` | `ServedGenerationExists`, under every fault | `History`, `Passing`, `Stocked` |
| `...!GenerationFollows` | `ActiveGenerationFollows` | `History`, `Passing`, `Copied` |
| `...!SwitchComplete` | `SwitchIsComplete` | `History`, `Passing`, `Copied`, `Shut` |
| `FederationSync_proofs!TypeCorrect` | types | `PlanOK` |
| `...!LiveJobOwns` | `LiveJobOwnsParent`, under every fault | `Charge` |
| `...!JobSuccessReported` | `JobSuccessIsReported` | `Charge`, `SuccessFits` |
| `...!DeletedHasNoChild`, `...!SuccessApplied` | `NoOrphan`, `SuccessIsApplied` | `Charge`, `Punctual` |
| `TokenRefresh_proofs!TypeCorrect` | types | `Base0` |
| `...!ContinuesStored`, `...!OneGrant` | `RefreshContinuesStored`, `OneGrantStored`, under every fault | `Base0` |
| `...!StoredHonoured` | `StoredIsHonoured`, under every fault | `Sound`, `Held` |

**Why the lease excludes** (`Exclusive`). Knowing that tokens are unique (`TokenInv`: a
pod's token is its own, a request carries its sender's, a take one that nobody was granted)
says who may write but nothing of time. `TimedInv` adds it. *ExpiriesAgree*: what a pod
believes of its lease never reaches past what the document says, because a renewal is
credited from the moment it was *sent*, and answers that are lost only make the document
say more. *OneBeat*: a pod awaits each renewal, so no older one overwrites a newer expiry.
*WorkEndsInTime*: a working pod's clock is at most `Lag`, and while it is being stopped
`Budget`, past its deadline. *LeaseKept*: the conclusion itself. A lease can be taken over
only by a pod whose clock has reached the document's expiry; by the first and third, and
because skew + lag + budget fit in the margin, nobody works under it by then. The lemma
`NobodyWorks` is that argument; both the take and the reaper use it.

**Why a run keeps its lifecycle** (`ImplementsLifecycle`). Every writer has its own guard,
so the proof says what each write may do (`SilentStep`: nothing the lifecycle sees;
`LoudStep`: one of its actions by whoever holds the token) and that each of the module's actions is
one of the two. The invariant needed is that the run has an executor exactly while it is
PENDING, RUNNING or PAUSED, and that its token is that of a claimed execution.
`StepsAreExclusive` adds *DriversHold* (a coroutine before its session is saved has the
token, or stops behind its own hook) and *LapsedIsIdle* (an expired lease has no coroutine
any more: it is here that stalls are excluded).

**Why a finished run has no open nodes** (`NodesAreClosed`). Many write the terminal status,
and most of them close the NodeRuns in a second write. *Tended* says who owes it: where the
run is terminal and has open nodes, an execution is about to close them (`WillClose`), a
reaper is, or one of the two was interrupted (`cut`). To keep it, one has to know for every
terminal write that its author goes on to close the nodes, or that none is open. *Tidied*:
none is where a run is held, launched, continued or handed back. *Synced*: who closes nodes
has let go of the lease, and who leaves with the lease has not raised, so that the reaper will
find the run. *MatchedEnds*: the shutdown hook ends the run once, and only then is its
execution the one that closes. *Recorded*: as long as results are recorded, the executor leaves
at most the node of its own step open, and none when it comes to save the session; this is
what a swallowed sync relies on. Stalls are left out because NodeRuns are saved without a fence,
failing finalizers because then nobody owes anything any more. `ExecutionStepTidy`
goes through the steps of a coroutine with one lemma for all of them (`Tidily`, `TidyStep`).

**Why a decision is acted on** (`DecisionsAct`). The property is of one step, so it needs
only `Inv`: whoever decides adds a call that is to continue the run; a call that loses the race
to acquire it finds the run acquired by another; no other step but a crash or `CallRaises`
takes such a call away, or
brings a run that nobody is about to continue back to AWAITING_APPROVAL with its gate decided.

**Why an occurrence runs once** (`OneRun`). The property speaks of `due`, the occurrence a
claim took, and of runs inserted by claims that may have lapsed, been withdrawn, or been
cancelled with their commit still under way; it is not inductive. `IInv` adds that the
document's next occurrence, and one a toggle is about to write, lie after every occurrence
that was run (*NextLater*); that the claim that holds the schedule took a later occurrence
than any that was run (*HolderLatest*), for only a holder can insert; that what a claim
plans to write as the next occurrence lies after its own (*PlannedLater*); and that a late
commit belongs to the claim that still holds the enabled schedule (*CommitHolds*), as
everything that writes the document conflicts with it. The proof first shows that every
step has one of nine effects on the document and the runs (`StepEffect`), and then
that each effect keeps the invariant (`DocumentFromEffect`, `OccurrenceFromEffect`), so
that the argument is made once per effect and not once per action. `NextFireIsLater` is the
arithmetic of the next occurrence.

**Why runs do not overlap** (`NoOverlap`). Until the drain, a task that holds the schedule
has renewed the lock within the lease, and the lock on the document is the one it knows of
(*Beating*), so the clock has not reached it and no other worker claims. A run executes under
its claim, or the claim was withdrawn (*Executing*), and the holder's token is the last that
was minted (*LatestToken*): of two claims that execute, the older one does not hold the
schedule, hence was withdrawn. Only a silent heartbeat breaks *Beating*.
`LetsGoOfClaims` needs that a task which has not inserted has no run (*Fresh*) and that a late
commit is of a cancelled task. `NoOrphanFires` is about two transactions that read the
workflow at different times: a holder that is about to insert, or whose commit is under way,
has an enabled workflow (*InsertsEnabled*), because disabling the workflow withdraws every
claim of an enabled schedule, a toggle that is still to write finds the schedule
disabled (*EnablesDisabled*), and deleting removes the schedules before the workflow
(*DeletedFirst*).

**Why one job is active and its source is right** (SkillSync). `Base` adds to the types that
a runner past its claim has a job, a copy of the source and, while it owns the lease, the
token on the job (*Equipped*, *TokensFit*). Each step is one of few things to the jobs, to
the runners and to the source (`JobsStep`, `RunnersStep`, `SourceStep`), so `OneActiveJob` is
argued once for the transaction that creates a job and once for everything else.
`LastGood` says that every copy of the source, in a handler or an execution, names a job
that succeeded, because whoever saves one brings it back. `KeepsPlan`: no plan of a sync deletes
a skill that is still in the repository.

`SourceFollowsJob` is an equivalence of which either half can be lost by a save of the other's
author. `Agreement` says it as *BusyIsMarked* and *MarkedIsBusy*, and adds that one outcome at a
time is on its way and no job active meanwhile (*OneAfter*), that what an execution holds of
the source already reads running (*CarriesRunning*, *FailsRunning*), and that a deleted
source is at rest (*DeletedRests*). Each step then takes one of four courses (`Course`): it
keeps job and outcome, opens a job, closes one and carries its outcome, or settles the
outcome. `Cleaning` and `Creating` are about skills, which are written without a fence: the
deleting execution has listed whatever is left, and what an execution is about to create is
not there. Both rest on there being one execution that writes, which `OneActiveJob` gives.

**Why an unmarked entity has its vectors** (VectorSync). A change is committed with a marker, a
task reads the entity, writes vectors and clears the marker if it is still the one it read;
tasks overtake each other, and a thread that writes cannot be stopped. The argument is by the
marker: two that are equal are of the same commit (`SeenIsCurrent`, from a clock that no
stored marker reaches), so a task that clears has seen the last commit, and, as long as
nobody without the lease is still to write or mark (`NoDanger`), what it wrote is what is
there (*ClearsWritten*). The incremental writes are right only from a known start: a task
that inserts finds nothing (*InsertsAnew*), one that only patches the enabled flag finds the
contents of the entity (*PatchesSame*). `Calm` says that none of the named causes has
happened; `Clean` and `Deleted` are the ends of the entity's life. What one step may do to
document, vectors, lease and knowledge of a task is proved first, once each, over all actions.

**Why a switch is safe** (EmbeddingReindex). `History` keeps what the documents forget: there
is a set of the generations that were selected so far, each the one before the next (`Chain`),
with no two jobs that started from the same one and switched. Its witness is carried through
the proof; a job switches only from the generation it started from, so the second of two is
refused (`Winner`). `Passing` follows a pass of the collector, which is right although what it
has read is old. What it spares was protected when it looked, and whoever came since was not there
to be protected (*SparesWhatItSaw*); a supersession that it has found out of date stays so
(*DatesWhatItSaw*). As long as no pass outlived what a switch waits for, the selection is the one
it read, or one that a single job switched to, which is still in its grace period (*ActiveOrNext*):
a job that started from the new selection cannot switch before the collecting pod has polled, and
that it does not do within the pass (*Polled*). So what it is about to drop is of a job that is
over, neither selected nor, within the retention, served (*Doomed*). `Stocked` adds that what a run
has prepared is there until it is selected, and the selected one too; a pod that lags is at a
generation of the chain, which is kept for the job that switched away from it.
`Copied` follows the entity: a run has what did not change since its job was inserted
(*Embedded*), and after the catch-up what is not marked (*CaughtUp*); an open gate leads to
the selected generation (*OpenFollows*); one writer lands at a time (*Lands*). `Shut` adds for
`SwitchIsComplete` that calls that passed a gate are counted by every running job (*Gated*), that
a federation sync is under way only with its lease (*SyncsLive*), and that from the catch-up on
none of them is left (*Drained*), so that nothing changes any more (*Exact*).

**Why a live job owns its federation** (FederationSync). `LiveJobOwnsParent` is kept by four
parties that decide on what they have read. `Charge` adds where an execution of each kind can
be (*PcFits*), and that a repair, whatever it read and however late it comes, names a job
that is over, so that its conditional write misses a parent that a later job took
(*RepairFits*). `Punctual` holds as long as nobody stalled: an execution that works has a
live lease (*RunFits*), what is still planned is for the children as they are, and what was not
planned, or was written, is as it was found (*PlanFits*, runtime by runtime `Fits`), and a parent
that reports success or is deleted has the children that say so (*ParentFits*). The types need
`PlanOK`, that only what was found is about to be written. For the report of a partial sync one
has to count (`ReportIsSo`): of the runtimes that were found with a revision, those that are not
in MongoDB as found are among the failed ones, and these are what `importedTotal` subtracts;
without a message and with nothing unimported there is no failed one and none refused.

**Why the stored token is honoured** (TokenRefresh). `Base0` is enough for the conditional
commit: a call that reaches it has read a refresh token, and commits only if that document
is still stored. For `StoredIsHonoured` one has to know whose token is whose. *Stored*:
whoever wrote a document that was read or stored has nothing left to do. *Provenance*: a
token that was not rotated is of such a writer, so that what an active login or call has
received is shown to the provider by nobody else. `Held` then says, as long as none of the
causes has happened (`Lossless`): who works under the lock owns it (*Owned*), hence is alone;
what it is about to show is accepted (*Usable*); what a call or login has received is
accepted until it is stored (*Answered*, *Exchanged*); and the property itself (*Honoured*).
The five need each other: a token is taken out of `honoured` only by the one call under the
lock (`Alone`), which then is the one about to store its successor.

TLC checked `TokenInv`, `TimedInv`, `IInv` and the parts of the later invariants before they
were proved, on the instances of the runs.

**Assumptions on `Faults`.** Six theorems exclude faults: `Exclusive`, `WritesAccepted` and
`StepsAreExclusive` stalls, `NoOverlap` the silent heartbeat, `LetsGoOfClaims` calls that raise, `NodesAreClosed`
stalls, failing finalizers, and a swallowed sync together with a result that is not recorded.
The properties are false with them: `executor.py:47` and the comments of `run_lease.py` say
so of the first ones, and the runs leave the same faults out (`NodesAreClosed` covers more than
its run, which has no swallowed sync). Crashes, lapses, drains, lost races and shutdowns
remain. No other theorem has an assumption but the named ones of the modules.

**Only model-checked**: everything under fairness (`AbandonedLeaseEnds`, `CancelStopsRun`,
`ResumeWakesRun`, `AbandonedClaimComesBack`, `SyncEnds`, `ChangesAreSynced`,
`OrphansAreSwept`, `WritesResume`, `ParentIsFreed`), because the prover has no rules for
liveness under fairness or for ENABLED. Every other property that a run checks is a theorem.
No theorem needs induction over data or a RECURSIVE operator.

## 6 Where the code departs from what it says

Found in explorations while the models were written; no run of the project repeats them,
and the properties above are stated so that they hold beside them.

- **A paused run may execute a step.** RESUME is both put into the queue and written on the
  run. A run that pauses again may find the first RESUME still queued; its acknowledgement is
  rejected, as none is pending; the wrapper takes that to mean "already applied"
  (`control/wrapper.py:314`) and starts the step while the run reads PAUSED.
  `workflow-api-design.md:1700`: "Run is paused by user directive (POST /pause); awaiting
  RESUME".
- **A completed run may be left RUNNING.** The syncer swallows the failure of its own write
  (`persistence.py:83`), the runner relies on it and returns. The lease then lapses and the
  reaper fails a run that completed. `runner.py:204`: "status is always written to a terminal
  value (COMPLETED / FAILED / CANCELLED) before returning or raising".
- **A deleted workflow may keep a run.** `delete_workflow` deletes runs, then schedules, then
  the definition (`workflow_service.py:635`), and a worker that holds a claim inserts a run
  in between. `workflow_service.py:622`: "Delete a workflow and all associated runs."
- **A reindex may not wait for earlier writers.** The delay is measured from the job's
  `startedAt`, so a second attempt counts time in which the gates were open;
  `embedding_reindex_execution_service.py:276-279` promises the wait for every writer.
- **A generation may be collected while a pod searches it.** Job *j* switches away from
  generation *g* and loses its lease before it is over; job *k* switches on from *j*'s
  generation, and *j* then ends as failed. The collector protects what a running or a recently
  *completed* job switched away from (`embedding_maintenance_watcher.py:190-194`), so *g* is
  dropped, although a pod that has not polled since still searches it. Line 186 says "Drop
  per-generation collections that are provably safe to remove". It takes three jobs (the
  one that made *g*, *j* and *k*), one more than the run has, and came up when the invariant of
  the proof could not be kept.
- **A slow collection may drop what is selected.** A pass reads the selection once. If it is
  still under way when the grace period of the next switch ends (60 s), or if its pod was
  collecting all the time a job waited for it to poll, a later switch may select, or a pod may
  still serve, what the pass takes for stale. `embedding_maintenance_watcher.py:188`: "A
  `<base>_<g>` collection is dropped only when ALL hold ... (b) `g` is not the active generation".
- **A pod that cannot follow loses its generation.** A pod that fails to build its adapter keeps
  the old one, which is collected ten minutes after the switch. Line 34: "A just-superseded
  generation is kept this long after its switch COMPLETED, so a pod that has not swapped yet can
  still read it"; line 36 makes it a fixed time.
- **A federation sync that imported nothing may succeed.** When the vector step fails as a whole, the runtimes
  that were deleted count as failed too (`federation_sync_service.py:448-459`), and
  `importedTotal` subtracts them (2283): with as many deleted as refused it falls below zero. The
  sync fails only where it is exactly zero (515), so a sync that found one refused runtime, deleted another
  and imported none reports success. Lines 423-424: "successful as long as at least one resource
  fully completes the pipeline (or nothing was discovered)". `SuccessIsApplied` holds beside it, for
  the count is never too high.
- **A refresh may lose the rotated token without any fault.** A call whose access token was
  refused deletes it without the lease; if that falls between the snapshot and the commit
  of a refresh, the commit conflicts, and the only copy of the new refresh token is dropped.
  The user has to log in again.
- **Two grants may be mixed.** A login that found no tokens and was granted no refresh token
  asks nothing of a refresh token that was stored meanwhile: its access token may stand
  beside another login's refresh token.

Explorations also refuted several stronger wishes, which nothing in the repository
promises: that a run held at a gate can be cancelled without deciding the gate; that a
RUNNING run can always be paused (a RESUME nobody acknowledged blocks it); that a decided
run can be continued after a crash or a call that raised (`workflow_run_launcher.py:126-130`
says of that state that "no reaper covers" it "and the decision cannot be resubmitted"; it
moves the call into the foreground to make it rare); that only answered gates are continued (a trigger that
comes late continues the next one; agno holds the run there again). They are recorded as
notes of the hazards.

## 7 Limits

- **LeasedJob**: one document, at most one execution of it per pod. What an execution does
  besides its fenced writes is not modelled. MongoDB is one register with atomic
  `find_one_and_update`: no failover that loses acknowledged writes.
- **WorkflowRun**: steps in sequence. Not modelled: parallel branches, loops and routers,
  output review, several requirements at once, retry and rerun (they make new runs), the
  reaper's pass over runs older than leasing, media, usage metrics, the content of
  requirements and outputs. A control-plane call reads and conditionally writes in one step;
  its filter repeats what it read, so a failed condition is the same as a refused read. The
  errors that closing NodeRuns itself swallows are left out.
- **WorkflowSchedule**: one schedule of one workflow; workers' clocks agree (locks are
  compared with the claimer's clock and last minutes, so that skew only shortens them);
  updates and reads inside one transaction are one step except in the two transactions
  split above. Not modelled: time zones, cron syntax, access control, `last_run_*`
  fields, workflow versions. A late commit after the drain inserts a run that nobody
  executes; the reaper fails it.
- **SkillSync**: one source; a runner's job is never taken over while its lease is held, which
  is LeasedJob. Not modelled: the discovery of skill files, access control lists, the content
  of skills and their vectors, several configurations. The run has one handler; with two
  it does not fit, and the theorems cover any number.
- **VectorSync**: one entity, its vectors as one set that may be mixed. Not modelled: the text
  of the documents, tools one by one, adapters of several generations.
- **EmbeddingReindex**: one entity, so no batches. Not modelled: choosing and validating a model,
  the indices of a collection, the drop that a killed pod had sent and that lands later. Faults,
  writers and the collector are split between the two runs; the theorems have all of them at once.
- **FederationSync**: one federation. Not modelled: discovery at the providers (it returns a
  listing, or fails), the contents of vectors (VectorSync has them), inherited access control lists, the repair of
  a parent without a job by `scanned_updated_at`, jobs and deletions older than leases.
- **TokenRefresh**: one user, one server. Not modelled: static clients, a second 401 after
  a refresh and changed discovery, the bindings to issuer and resource, the expiry of the
  refresh token after a year, a commit whose outcome is unknown.
- **Not modelled**, planned: one-time codes and consents, migrations.
- **Not modelled**, not planned: access control (queries over permission bits), the CRUD of
  servers, agents and skills apart from the writes that reach the vectors, the MCP gateway
  and the proxies (I/O), the frontend.
