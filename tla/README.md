# Verification of the Marin execution stack

TLA+ models of the parts of this repository in which several processes,
threads or machines work on shared state, the TLC runs that check them on
small instances, and TLAPS proofs of what matters most for every instance.
Paths are relative to the repository; `execution.py` without a directory is
`lib/zephyr/src/zephyr/execution.py`.

## 1. The system

The repository trains language models. Its own concurrent logic is in a few
packages of `lib/`; the rest is numerical code, data transformations,
experiments and deployment.

| Part | State it keeps | Operations | Hard behaviour |
|---|---|---|---|
| **Zephyr coordinator** (`ZephyrCoordinator`) | task queue, results, in-flight table, three attempt counters per shard, stage epoch, worker states | `register_worker`, `deregister_worker`, `pull_task`, `report_result`, `report_error`, `heartbeat`; `run_pipeline` with `_start_stage`/`_wait_for_stage`; background `check_heartbeats`, `_check_worker_group` | handlers from many workers interleave with the main thread between its critical sections; late, repeated and lost calls |
| **Zephyr workers** (`ZephyrWorker`) | stage epoch, current task, shutdown flag | `_stage_manager`, `_poll_loop`, `_heartbeat_loop` | crash, restart under the same worker id, replacement while still running, RPC retries |
| **Distributed lease** (`rigging/distributed_lock.py`) | one object in a store; per thread a generation or etag | `try_acquire`, `refresh`, `release`, `has_active_holder` on GCS, S3 or a local file | read, then conditional write, with anything in between; expiry |
| **Step status and lock** (`executor_step_status.py`) | status file, heartbeat thread, two events | `should_run`, `step_lock` | crashes while RUNNING, paused holders, heartbeat threads that die or outlive the join |
| **Step runner** (`step_runner.py`) | sets scheduled, completed, failed, running, waiting | `StepRunner.run`, `_launch_step`, `run_step` | futures end at any time; other executors write the same status files |
| **Iris controller** (`lib/iris/.../controller`) | jobs, tasks, attempts, workers and budgets in SQL; health counters in memory | the control tick: schedule, reconcile, commit, fold health, fail workers; cancel, register | decisions and replies from snapshots that are old when they are applied; co-scheduled siblings, retry budgets, worker loss, restarts |
| Iris autoscaler, scheduler | slices, demand, backoff | scale up and down, assign | races of scale-down with assignment |
| **Iris worker daemon** (`lib/iris/.../worker`) | task attempts, containers | `handle_reconcile`, attempts that run and are killed, restart, registration | late requests, restarts with or without adopted containers |
| **Finelog namespace** (`lib/finelog/rust/src/store`) | RAM buffer, segment files, SQL catalog, deque of segments, bucket | `append_*`, `flush_once`, `compaction_step`, `sync_step`, `eviction_step`, `boot_reconcile`, queries, `shutdown` | a flusher, a maintenance task, writers and queries at once; a crash between two of the file, the catalog and the deque; a lost volume |
| Marin RL | rollouts, weights, replay buffer | rollout and train workers | weight transfer concurrent with sampling |
| Levanter inference | page table, sequences | admit, decode, free | page accounting |
| Everything else | - | numerics, data pipelines, configuration, deployment | - |

How they interact. An experiment gives steps to the **step runner**, whose pool
threads each call `run_step`. That takes the **lease** of the step through
`step_lock`, so that many executors can be started on the same experiment, and
runs the step's function or submits it to **Fray**, which submits a job to
**Iris**. A data step runs a **Zephyr** pipeline: a coordinator actor and a
group of worker actors, all Iris tasks, which talk by RPC with retries
(`iris/actor`, `iris/rpc/errors.py`). Iris restarts a worker whose task fails, and
sends the logs and statistics of all of them to a **Finelog** server, which keeps
each table in a namespace: recent segments on its disk, the archive in a bucket.

What makes each part correct:

- Zephyr: a stage starts after every shard of the stage before has a result of
  that stage; no shard is forgotten or recorded twice; a shard is handed to one
  slot at a time; the pipeline ends, if only with an error.
- Lease and step lock: a step's function runs on one worker at a time, never
  again after a SUCCESS, and no worker waits for ever.
- Step runner: dependencies first; every step is accounted for exactly once;
  a failure reaches its dependents and nothing else; the run ends.
- Iris: a task and its attempts agree; a worker is promised to one attempt at a
  time; a gang runs as a whole; what has ended is never revived by a late report;
  a job ends exactly when its tasks do; an attempt that has ended gives its
  worker back.
- Finelog: a row whose writer was told it is durable stays on the disk or in the
  bucket and where queries look for it; a query keeps the files it has
  snapshotted and sees each row once; within a process rows appear in the order of
  their seqs; a seq that is on the disk or in the bucket is not given to a new row;
  writers are answered and maintenance goes on.

## 2. Modules

| Module | What it is |
|---|---|
| `ZephyrCoordinator` | the coordinator actor: one action per handler, per critical section of the main thread and per step of the background loop |
| `ZephyrPool` | worker processes, RPC faults and the Iris job, composed with the coordinator |
| `ZephyrStages` | abstract specification: sequential stages of shards and an outcome |
| `MC_ZephyrPool` | definitions for TLC: which calls may be lost, slot symmetry |
| `ZephyrCoordinatorProofs`, `ZephyrPoolProofs` | theorems: the coordinator alone; the pool and what its stages compute |
| `DistributedLock` | the lease and its three backends: one action per access to the store |
| `StepLock` | `should_run`, `step_lock`, the heartbeat thread and the status file, for several workers |
| `StepOnce` | abstract specification: one runner at a time, never after SUCCESS |
| `MC_StepLock`, `StepLockProofs` | worker symmetry for TLC; theorems |
| `StepRunner` | `StepRunner.run`, the pool, and other executors of the same steps |
| `MC_StepRunner`, `StepRunnerProofs` | a diamond-shaped graph for TLC; theorems |
| `IrisKernel` | the reconcile kernel: rules from the rows of a job's tasks and an outcome to new rows; no state of its own |
| `IrisController` | the control loop, the Reconcile RPCs and the worker daemons, composed with the kernel |
| `MC_Iris`, `IrisControllerProofs`, `IrisJobProofs` | slices and symmetry for TLC; theorems about rows and workers; about jobs, budgets and gangs |
| `FinelogPlanner` | the leveled-compaction policy: a function from the segments to the next job |
| `FinelogStore` | one namespace: writers, flusher, maintenance task, queries, reopening and reconcile, composed with the planner |
| `MC_Finelog`, `FinelogProofs`, `FinelogRowProofs` | byte targets of the levels and sets of failing calls for TLC; theorems about files and the lock; about rows |

An operator whose comment begins with `Bug:` is not part of the model. It is a
plausible mistake in the definition that follows it; putting it in that
definition's place makes TLC report the property it is paired with.

### 2.1 Zephyr

*Correspondence.* The variables of `ZephyrCoordinator` are the attributes of the
actor; the comments at their declarations name them. Every handler holds
`self._lock` from the first to the last statement that matters here, so a handler
is one action. `pull_task` is split by its four answers (`PullShutdown`,
`PullStageCompleted`, `PullNoWorkBackoff`, `PullTask`), whose guards are its
cascade of early returns. The main thread releases the lock between publishing a
stage (`OpenStage`), loading it (`StartStage`), the end of the wait
(`StageCompletes`, `StageFails`), `MarkStageComplete` and `CollectResults`, and
these are separate actions. `_check_worker_group` asks Iris outside the lock,
hence `CheckWorkerGroup` and `WorkerGroupAnswer`.

In `ZephyrPool` a process is a pair of a slot and an incarnation. The slot's name
is the worker id, which the next incarnation uses again, as `_host_actor` and
the worker's name give it. `pc` is the place in `_stage_manager` or `_poll_loop`.
A call and its handler are one step; a fault separates them:

| Fault | What happens |
|---|---|
| `crash` | a process dies at any place |
| `replaced` | Iris starts a successor while the process still runs |
| `lost` | a handler has run, its reply is lost and `call_with_retry` calls again |
| `giveup` | a call fails after its last retry, or five heartbeats in a row do |
| `slow` | a running process misses its heartbeats for `heartbeat_timeout` |

*Data.* A shard is its index; a result is the number of the stage that computed
it, so that a result of the wrong stage is visible. Counter snapshots, retries for
display, status pushes and logging are left out. So are: several slots per
process, the sub-stages of a join (one more `_run_worker_stage` each), resharding
(a regrouping of references between stages), the empty pipeline and
`ZephyrContext.execute`.

*Time.* `HeartbeatTimesOut` may happen as soon as nobody sends heartbeats for the
slot; for a slot whose process is alive it is the fault `slow`. The
no-live-workers timeout of `_wait_for_stage` may expire whenever no worker is
READY or BUSY.

### 2.2 Lease and step lock

*Correspondence.* `DistributedLock` has the lock file (`lease`) and what each
thread of each worker knows about its generation (`known`). `try_acquire` is a
read (`AcquireReads`) and a conditional write (`AcquireWrites` or
`AcquireRaced`; `AcquireRaises` where S3 answers 404, because the object was deleted
in between), `refresh` and `release` likewise, and `has_active_holder` is
`Active`. The backends differ in two operators:
`ReadersOf` (S3Lease keeps the last etag in the object, which the main thread and
the heartbeat thread share) and `WriteMatches` (GCS and S3 compare generation or
etag; the local file is read again under `flock`). `_delete` has no precondition
on any backend.

`StepLock` adds the status file and the two threads of a worker: `at` is the
next statement of the main thread in `should_run` and `step_lock`, `beat` the state
of the heartbeat thread. `WritesStatus` is the function's end together with the
write of SUCCESS or FAILED.

| Fault | What happens |
|---|---|
| `crash` | a worker dies with both threads |
| `error` | a store call of the main thread raises; where `run_step` has a handler the model follows it, elsewhere the worker ends without a release |
| `resent` | an acquiring write is applied, its answer lost, and the client's second try rejected |
| `unsure` | the write of SUCCESS is applied and raises; the handler then writes FAILED |
| `beat` | a refresh raises something other than `LeaseLostError`; the heartbeat thread is gone |
| `pause` | the lease of a live worker goes stale |

*Time.* A lease is fresh or stale. `LeaseExpires` makes it stale; for a holder
that still refreshes this is the fault `pause`, because `HEARTBEAT_TIMEOUT` is
three times `HEARTBEAT_INTERVAL`; for a crashed holder, a holder that left
without release, or a dead heartbeat thread it just happens.

*Left out.* `FsspecLease` (a read and an unconditional write, best effort by its
docstring), the unlink of a local lock file under a writer that has already
opened it, the two requests of one GCS read (the second is pinned to the
generation of the first or finds nothing), torn reads of the status file, and a
worker id used again by a later thread of the same process.

### 2.3 Step runner

The thread of `run` is `main` with the step it is at (`current`); its statements
are `Pulls` (the post-order of `_expand_unseen`), `Harvest`, the scan of
`_flush_waiting`, and the placement of the pulled step. `_launch_step` is
`LaunchSkips`, `LaunchSubmits` or `LaunchRaises`. `job` is the future of each
step, `disk` its status file. Jobs end between any two statements, and
`PeerEnds` is another executor that ends the same step. A status that says
SUCCESS is not overwritten by a peer; that is what `StepLock` is for, and holds
there as long as no holder is paused past the timeout.
`dryRun`, `force` and the initial `disk` take every value.

### 2.4 Iris

*Correspondence.* The kernel of `lib/iris/src/iris/cluster/controller/reconcile` is
already pure, and `IrisKernel` keeps its shape: `Transition`, `Dropped` and `Ended`
are the early returns and the transition of `apply_one_transition`; `Evict` with
`Resolve` is what preemption, worker loss and an out-of-band KILLED share;
`Cascade` is `_cascade_to_peers`; `Recompute` and `Settle` are `recompute_state`
and `_finalize_terminal_job`. A row is a task with its attempts, of which the last
is `current_attempt_id`. Every rule takes the overlay (`rows`) and, where the code
reads the snapshot, the snapshot as well (`old`, `snap`).

`IrisController` is `Controller._control_tick`: `TickStart` reads the database and
takes the scheduler's decision, `RpcReplies` and `RpcFails` are the answers of the
daemons, `CommitSchedule`, one `ApplyObservation` per reply and `CommitReconcile`
are the transaction at the end of the tick, and `FoldHealth`, `FailWorkers` (the
dead workers, then the rest of their slices) and `Forget` follow it. The replies
are applied in any order; that the transaction is atomic is modelled by letting
nothing else happen while `phase = "apply"`. `CancelJob`, `Registers`,
`ControllerRestarts` and the daemons go on between the other steps. `registered` are
the worker rows of the database, `known` the workers of the health tracker: a restart
fills the tracker from the rows, also with a worker that `Forget` had dropped although
it had registered again.
`handle_reconcile` is `Handled` (start what is asked for and unknown, stop what is
asked for, stop every live attempt that is not named) and `Observed`.

| Fault | What happens |
|---|---|
| `lost` | a Reconcile request does not arrive; the controller sees an error |
| `late` | the controller sees an error and the request arrives later |
| `sick` | a daemon answers that it is unhealthy |
| `fails` | a process fails, by its own fault or its host's |
| `restart` | a daemon restarts and adopts any of its running containers |
| `preempt`, `expire`, `timeout` | the scheduler preempts a task, finds the deadline passed, or an execution timeout is due |
| `cancel` | a user cancels the job |
| `crash` | the controller restarts: the database stays, the health counters start anew |

*Data.* One job; a worker has room for one task, so that capacity is whether an
unfinished attempt is bound to it. The scheduler may choose any free and reached
worker, a gang any set of them in one slice; why it preempts or which task it
prefers is left out. Errors, exit codes, logs, endpoints and statistics are left out;
that only failures carry an error, which decides whether a repeated report is
dropped, is in `Dropped`. Attempts are named by task and number, as their UIDs are
unique per attempt.

*Time.* An unreachable worker is given up after `MinUnreachable` failed reconciles
*and* a minimum time, hence the choice of `quiet` in `FoldHealth`. Deadlines and
timeouts fall due at any time, as faults. Processes move between ticks only: the
controller reads them through replies alone, so what a process does during a tick
is as if done right before or after it. Daemons restart and register at any time
outside the transaction. In a tick at most one kind of
preemption, deadline and timeout is decided, and at most one task is preempted.

*Left out.* Child jobs and their cascades, resubmission of a job, direct (Kubernetes)
providers, restoring an old checkpoint of the database, recycled addresses (the
identity guard of `handle_reconcile`), evictions asked for when a worker registers
at an address in use, the autoscaler beyond the teardown of a slice, and a
transaction that raises.

### 2.5 Finelog

*Correspondence.* `disk`, `bucket` and `cat` are what survives a process: the
namespace directory, the objects under the namespace's prefix and the rows of
the `segments` table. `ram`, `sealed`, `local_segments`, `next_seq` and
`persisted_seq` are the fields of `Namespace` and `RamBuffers`. A row is its seq, a
file the set of rows in it, under the name `<<level, min_seq>>` that
`seg_filename` gives it; `FooterMax` is the `max_seq` that
`read_segment_footer` computes from name and row count, not from the rows.

Two tasks work on a namespace. The flusher is `fpc`: `Seal`, `WriteSegment`,
`UpsertSegment`, `CommitFlush` and `Publish` are the five statements of
`flush_once` that others can see between, and `RestoreFlush` its error path; the
maintenance cycle calls the same function under the same lock. The maintenance
task is `mpc`: `run_maintenance` is flush, the drain of `compaction_step`
(`PlanJob`, then `Merge` with `CommitSwap` and `UnlinkInput`, or `BumpRename` with
`CommitSwap`), `sync_step` (`ListBucket`, one `Upload` and `MarkUploaded` per
segment, `EndUploads`, `DeleteOrphan`) and `eviction_step`. A task that has just
been opened does `boot_reconcile` first; a namespace that is registered at run
time does it before it is served (`mode = "register"`), one that is rehydrated at
boot does it in the background (`mode = "boot"`). `Open` is `adopt_local_segments`
with both versions of `recover_next_seq` and the upserts that follow. A query
holds the read side of `query_visibility` from the snapshot to the end of its
scan (`snap`); the `swap`, `bump` and `evict` steps take the write side. The lock
is tokio's, which is fair: `StartQuery` waits behind a writer that waits.

| Fault | What happens |
|---|---|
| `write` | `write_segment_to_dir` fails |
| `catalog` | `upsert_segment` of a flush or `replace_segments` of a merge fails |
| `locate` | `set_location` fails, or the deletion of a row by an eviction |
| `upload` | a put fails, or is applied and reported as failed |
| `list`, `delete` | a call to the bucket fails |
| `timeout` | a join or the final sync of a shutdown takes too long |

`shutdown` is `StartStop`, a cycle in `mode = "stop"` that flushes and syncs, and
`Stopped`. Its timeouts cut it short: `AbortTask` ends the maintenance task where it
awaits the bucket, `CutSync` the final sync.

A crash (`MaxCrashes`) may come between any two steps; `LoseDisk` is a volume that
is gone when the process starts again (`MaxLosses`), after which the promise of
durability is about what was in the bucket.

*Data.* One row is one byte, so that the byte targets of the levels are lengths of
seq intervals; batches of several rows are several appends. What is in a row,
key bounds, timestamps (an age trim may take any copied segment), byte caps,
trigram sidecars and statistics are left out.

*Left out.* `drop_table` and re-registration with an evolved schema, which close and
reopen the namespace under the same locks; readers of the `log` namespace; the
in-memory mode; `force_compact_l0` and `backdate_segment` (tests only);
several queries at once, which the lock treats as one; torn files (segments are
written to a staging name, and a footer that cannot be read hides its file);
a merge or an eviction on a blocking thread that outlives its aborted task and
runs beside the final flush or the next engine.

## 3. What the runs check

Bounds are named in each `.cfg`. All counters are bounded by caps of the code
(failures per shard), by the number of stages, or by `MaxFaults` and
`MaxIncarnations`; attempts and retries of Iris by `MaxFaults`, because a task is
assigned again only after a fault.

| Run | Instance | Shows |
|---|---|---|
| `zephyr_stages` | 2 slots, 2 stages of 2 shards, 2 incarnations, 1 fault of `crash` or `lost` for register, error, deregister | `TypeOK`, `NoShardLost`, `StageBarrier`; with fairness `SequentialStages`, the refinement of `ZephyrStages` |
| `zephyr_faults` | 2 slots, 1 stage of 2 shards, 2 incarnations, any one fault on any call but `report_result` | `DispatchExclusive`; `FirstResultWins`: the late result of a slot declared dead is rejected |
| `step_s3` | 3 workers, S3, 2 faults of `crash`, `error`, `resent` | `TypeOK`, `MutualExclusion`, `RunnersStayActive`, `RunsOnce` (the refinement of `StepOnce`) |
| `step_settles` | 2 workers, GCS, 2 faults of any kind, `force_run_failed` false, fairness | `FreshNotOverwritten`, `AllSettle` |
| `runner_diamond` | a diamond of 4 steps on 2 threads, every argument and initial status, fairness | `TypeOK`, `DepsFirst`, `OnePlace`, `FailedForCause`, `Accounted`, `Drains` |
| `iris_gang` | a gang of 2 tasks, 1 slice of 2 workers, a preemption budget of 1, 2 faults of `lost`, `preempt`, `timeout`, `expire` | `JobSettled`, `GangTogether` |
| `iris_retry` | 1 task, 2 workers in slices of their own, a failure budget of 1, no preemption budget, 2 faults of any kind but `timeout`, fairness | `TypeOK`, `Agree`, `OneSlot`, `JobSettled`, `ChargedOnce`, `EndsAreFinal`, `CurrentSlotReturns`, `JobStops` |
| `finelog_crash` | 5 rows, levels of 3 and 4 bytes or 2 segments, 1 fault of any kind, 1 crash, no eviction | `TypeOK`, `AckedReachable`, `FreshSeqs`, `TailMonotone` |
| `finelog_offload` | 4 rows, levels of 2 and 4 bytes, evictions above 1 local segment and by age, 1 fault of `write`, `upload`, `delete`, 1 lost volume, no crash, fairness | `AckedDurable`, `ReadSafe`, `SeenOnce`, `ArchivedHeld`, `FreshSeqs`, `ArchiveGrows`, `EventuallyAcked`, `CycleEnds` |

Why these bounds are enough for the interesting cases. Two slots, two shards and
two stages are the least with a shard that moves from one slot to another, a
queue that is empty while a peer still works, and a boundary that a slot can
sleep through; two failures per cap distinguish a requeue from an abort; two
incarnations let a successor meet the traces of its predecessor. Three workers
let one acquire between two others' read and write. The diamond has a step with two
dependencies, of which one may fail while the other runs, and a queue
longer than the pool. Two workers let a task move while its first attempt is still
unfinished; two tasks are the least gang; two faults let the second hit what the
first has left half done (a lost stop after a preemption, a worker lost while a
retry is under way), and a budget of one distinguishes retry from end: of failures
in `iris_retry`, of preemptions in `iris_gang`. Five rows
fill two levels by merges and leave one in RAM, so that a merge, a level bump and a
flush can all be under way when the process dies; four are enough for two objects
in the bucket of which one is merged into the other's successor.

Where the runs differ in their faults the reason is a disagreement listed below:
`zephyr_faults` has one stage because a late result that crosses a stage boundary
is accepted (`zephyr_stale_result`); no run repeats `report_result`, which is
counted twice, and `zephyr_stages` does not repeat `pull_task`, which overwrites the
slot's shard in `_in_flight`, nor let a slot give up, whose shard stays there.
`finelog_crash` does not evict and `finelog_offload` does not crash, because the two
together lose rows. `timeout` is kept out of `iris_retry` because it can charge an
attempt a second time. That run has no preemption budget only to keep its state graph
small enough for liveness; tasks that are assigned again after a preemption are in
`iris_gang` and `iris_slot_leak`, and in the theorems, which hold for every budget.

Deadlock checking is on for Iris and Finelog, whose loops never end. It is off elsewhere: those
systems stop by design when the pipeline, the step or the run has ended.

### Fairness

- `ZephyrPool.FairSpec`: weak fairness of the main thread and the background loop
  (threads of the coordinator, which poll with bounded waits), of each process's next
  step (its calls return, its shard ends; a shard's error, a fault or a heartbeat
  need not happen), of `HeartbeatTimesOut` for a slot nobody beats for, and of
  Iris's restart of a dead task. Nothing is assumed of faults.
- `StepLock.FairSpec`: weak fairness of each worker's main thread (the function
  returns or raises), of a heartbeat that is under way, and of the expiry of a lease
  nobody refreshes. Waiting for the heartbeat interval (`BeatIsDue`) is not fair: the
  function may end first.
- `StepRunner.FairSpec`: weak fairness of the runner's thread and of each job.
- `IrisController.FairSpec`: the loop goes on (weak fairness of the steps of a tick)
  and reconciles again and again (strong fairness of `TickStart(TRUE)`: wake-ups in
  between may be scheduling only, and the limiter, once due, stays due); a killed
  container exits, a daemon nobody calls resets itself and registers. The last
  three are strong because the model holds processes still during a tick (`Idle`) and
  daemons during a transaction, again and again; the code does not, so what a daemon
  can do infinitely often it does. Nothing is assumed of processes, which may run
  for ever, and nothing of faults.
- `FinelogStore.FairSpec`: weak fairness of the flush task and of the maintenance
  task (timers wake both again and again, calls to the bucket return) and of the end
  of a query. Nothing is assumed of writers, of new queries or of a restart.

### Where the code and its documentation disagree

Each of these is a run that TLC finds violated, with one property that says
what the documentation does.

| Run | Documentation | What the code does |
|---|---|---|
| `zephyr_stale_result` | "_task_attempts: monotonic generation for stale-result rejection" (execution.py:260) | `_start_stage` sets the attempts back to 0; a slot declared dead in one stage reports in the next, with the right attempt, and its result is recorded |
| `iris_slot_leak` | "its terminal observation finalizes the attempt and releases capacity (the reserved-until-heartbeats contract)" (lib/iris/src/iris/cluster/controller/reconcile/worker.py:206-208) | only the current attempt is reconciled and reports of earlier ones are dropped; a preempted task that is assigned elsewhere before its first worker has answered leaves that worker reserved for ever |

| `iris_preempt_gang` | "unlike `WORKER_FAILED` reported via Reconcile, PREEMPT decisions do not directly cascade coscheduled siblings - the cascade only occurs through job finalization" (lib/iris/docs/task-states.md:210-213) | `_apply_preempt_decision` calls `_fan_out` and so `_cascade_to_peers` (reconcile/batches.py:115-124, 508): the siblings go back to the queue, or end, in the transaction of the preemption, while the job goes on |

Of the last one the code is right and the page is not: test_preemption.py:1335-1397
(lib/iris/tests/cluster/controller) asserts the direct cascade, and without it a gang
would run in part. `GangTogether` therefore states what the code and its tests do.

The same models show more consequences that are not runs of their own.

- Zephyr: after a failed `report_error` the slot deregisters, which leaves its shard
  in `_in_flight` (execution.py:388); the next registration is one of an unknown
  worker and requeues nothing, against "re-registering a worker that had an
  in-flight task requeues that task" (lib/zephyr/tests/test_execution.py:276-277). With
  `giveup` among the faults of `zephyr_stages` TLC finds `NoShardLost` violated.
- Zephyr: a repeated `report_result` increments `_completed_shards` twice, and the
  stage ends with a shard missing, against "all shards in a stage must complete
  before the next starts" (lib/zephyr/OPS.md:9); and `_check_worker_group` releases
  the lock between the count and `is_done()`, so a last stage that completes in
  between is aborted, against execution.py:435-436.
- Lease: a contender on S3 that read a stale lease gets a 404 for its conditional
  write when the lease has been released meanwhile; `_write` raises it again
  (distributed_lock.py:312-315), `try_acquire` does not catch it, and the contender's
  step ends with an error where on GCS it would try again.
- Lease: `release` reads and then deletes without a precondition, so a worker
  paused in between deletes its successor's lease. One transient error of a
  refresh ends the heartbeat thread, and the lease goes stale under a running
  function (add `beat` to the faults of `step_s3`).
- Step: a worker that has lost its lease runs to its end and writes its status
  (`lease_lost_event` is looked at after the body); a worker that read no status
  before the first one failed runs the FAILED step although `force_run_failed` is
  false (the re-read looks only for SUCCESS); and `step_lock` as `run_step` calls
  it always forces. A write of SUCCESS that is applied but raises is followed by
  FAILED (step_runner.py:348-352), and the next worker runs the step again (with `unsure` in `step_s3`,
  TLC finds `RunsOnce` violated).
- Iris: a timeout read at the start of a tick ends a task that a report of the
  same tick has put back in the queue, and charges its attempt again;
  lib/iris/docs/task-states.md:83 says that a task that times out is KILLED, the code makes
  it FAILED.
- Finelog, a merge cut short (paths in `lib/finelog/rust/src/store`). A process that
  dies after the rename of a merged output and before `commit_swap`, or restarts
  after `replace_segments` failed, adopts the inputs and the output, and a query
  sees the rows of both until the next merge (`SeenOnce`). That merge writes over
  the adopted output, and the deque then has two entries with one path.
  `mark_uploaded` marks the first as copied, `evict_segment` believes the last, which
  is LOCAL, and drops the catalog row with the file; the next sync deletes the
  object as an orphan. With `MaxCrashes = 1` in `finelog_offload` TLC finds
  `AckedDurable` violated so, against "a LOCAL-only segment is never destroyed by the
  offload path" (namespace.rs:893-894).
- Finelog, an ignored error. `evict_segment` ignores a failed `set_location`; the row
  stays BOTH without a deque entry, the next eviction takes the missing entry for a
  local-only segment and drops the row, and the next sync deletes the object (add
  `locate` to the faults of `finelog_offload`).
- Finelog, the archive. `boot_reconcile` deletes objects that a higher level covers
  although that level may not have been uploaded yet, against the ordering that
  `sync_step` calls its data-safety invariant (namespace.rs:805-812); `ArchiveGrows` is
  violated with a crash, and without one when two uploads of the merged segment
  fail, in its cycle and in the last sync before a restart (`MaxFaults = 2`). Until
  the next sync the local file is the only copy.
- Finelog, a lost volume. A registration reconciles before it returns, but the
  namespace is already in the catalog (store.rs:309): if the process dies in
  between, the next boot rehydrates it and reconciles in the background, while
  writers are given seqs that the bucket already has, against "Rehydrated
  namespaces are backed by local segments, so `next_seq` is already recovered
  locally" (store.rs:135-137). A failed listing, which is logged and taken for an
  empty bucket, does the same. The `log` namespace always reconciles in the background.
- Finelog, `drop_table` holds the write side of the visibility lock while it waits for
  the maintenance task, which may itself be waiting for that side: the join
  times out, the task is aborted, but a blocking commit goes on afterwards.

## 4. What is proved

| Theorem | Statement |
|---|---|
| `CoordTypeCorrect`, `CoordDispatchExclusive` | `CoordSpec => []CoordTypeOK`, `=> []DispatchExclusive`: the coordinator alone, whose handlers anyone calls with any arguments in any order |
| `PoolTypeCorrect` | `Spec => []TypeOK` for the pool |
| `PoolImplementsCoordinator` | `Spec => CoordSpec`: every step of the pool is one of the coordinator or leaves its state alone |
| `PoolDispatchExclusive` | `Spec => []DispatchExclusive`, from the two above: under every set and number of faults |
| `PoolFirstResultWins`, `PoolStageBarrier` | `Spec => FirstResultWins`, `=> []StageBarrier`, with `PromptResults`, or with `SingleStage` and every fault |
| `PoolNoShardLost` | `Spec => []NoShardLost`, with `PromptResults` |
| `PoolImplementsStages` | `Spec => Abstract!Safety`, with `PromptResults`: the safety part of `SequentialStages` |
| `StepTypeCorrect` | `Spec => []TypeOK` for the step lock |
| `StepMutualExclusion`, `StepRunnersActive` | `Spec => []MutualExclusion`, `=> []RunnersStayActive`, with `Reliable` |
| `StepImplementsOnce` | `Spec => RunsOnce`, with `Reliable` and without `unsure` |
| `StepFreshNotOverwritten` | `Spec => FreshNotOverwritten`: every fault on GCS and the local file, `Reliable` on S3 |
| `RunnerTypeCorrect`, `RunnerDepsFirst`, `RunnerOnePlace`, `RunnerFailedForCause`, `RunnerAccounted` | `Spec => []...` for any set of steps and any `Deps` |
| `IrisTypeCorrect`, `IrisAgree`, `IrisEndsAreFinal`, `IrisOneSlot` | `Spec => []TypeOK`, `=> []Agree`, `=> EndsAreFinal`, `=> []OneSlot` for any tasks, workers, slices, budgets, thresholds and any set and number of faults, gang or not |
| `IrisJobSettled`, `IrisGangTogether` | `Spec => []JobSettled`, `=> []GangTogether`, under the same generality |
| `IrisChargedOnce` | `Spec => []ChargedOnce`, without `timeout` |
| `FinelogTypeCorrect`, `FinelogReadSafe` | `Spec => []TypeOK`, `=> []ReadSafe` for any levels, targets and bounds, under every fault, any number of crashes and lost volumes |
| `FinelogTailMonotone` | `Spec => TailMonotone` under the same generality. It compares the steps of one process only: across a crash, a lost volume or a reopening it says nothing, and after a lost volume seqs can in fact start again below what a reader has seen |
| `FinelogSeenOnce`, `FinelogArchivedHeld`, `FinelogAckedReachable`, `FinelogAckedDurable`, `FinelogFreshSeqs` | `Spec => []SeenOnce`, `=> []ArchivedHeld`, `=> []AckedReachable`, `=> []AckedDurable`, `=> FreshSeqs`, with `Tidy`, under the same generality |
| `FinelogArchiveGrows` | `Spec => ArchiveGrows`, with `Tidy` and no failing upload |

Where a theorem has a hypothesis it is a property of the code, not of the proof:
without it TLC finds a counterexample.

- `Reliable`: neither `pause` nor `beat` is among `Faults`. A holder that is paused
  past the timeout, or whose heartbeat thread is gone, loses its lease and goes on.
  With `unsure` a step that a peer has seen succeed is run again.
- `StepFreshNotOverwritten` on S3: a refresh of the heartbeat thread that is under
  way when the join times out writes under the etag of the shared `S3Lease`
  object, and `release` of the main thread has just read the successor's etag into
  it. After a pause the refresh so matches the successor's fresh lease.
- `PromptResults`: only crashes and lost replies, and these not of `pull_task` or
  `report_result`. A slot that is declared dead or replaced while it runs can
  report into the next stage (`zephyr_stale_result`), a repeated `report_result` is
  counted twice, a repeated `pull_task` overwrites a shard in flight, and a slot that
  gives up leaves its shard there. With one stage (`SingleStage`) only the
  repeated report matters to what is recorded.
- `IrisChargedOnce`: an execution timeout is judged by a snapshot and charges an
  attempt that a report of the same tick has charged already.
- `Tidy`: a process ends by a shutdown that is not cut short by its timeouts, and of
  the calls only segment writes, uploads and deletions fail, any number of times;
  catalog calls and listings do not. Volumes may be lost. A crash
  between the rename and the commit of a merge, or a failing `replace_segments`,
  breaks `SeenOnce` and then `AckedDurable`; a failing `set_location` breaks
  `AckedDurable`; a crash during a registration, or a failing listing, breaks
  `FreshSeqs` (Section 3, Finelog).
- `FinelogArchiveGrows`: the last sync of a process goes on without what it could not
  upload, and the reconcile of the next deletes what that covers.

*Dispatch.* `DispatchExclusive` is inductive together with the type invariant: the
queue has no duplicates, a shard is in flight in one slot, never also queued,
and in flight under the current attempt. Every handler takes a shard from where
it is before it puts it elsewhere; the proof has one step per handler, and rests
on what `Head`, `Tail` and `Append` do to the set of queued shards.

*Stages.* What a process will report is not visible at the coordinator, so the
invariant is about the processes. A process *claims* a shard when it carries it
under the current attempt of the running stage; `OneClaim` says that a claimed
shard has no result, is not queued, is in flight at most in the claimant's slot and
has no other claimant. A report is accepted only from a claimant, hence a result
is the first, is of this stage (`OwnResults`), and `_completed_shards` is the number
of results (`Counted`); the wait ends when it reaches the number of shards. That
nothing is lost needs the converse: what a process carries is what the coordinator has
in flight for its slot, a slot whose process polls or leaves has nothing in flight
(`HandInv`), and while a stage runs every shard is queued, in flight or has a result
(`Covered`). Between two stages nobody carries anything (`Rest`), which is where late
results break the proof. The
refinement of `ZephyrStages` then maps each step to a step of the abstract stages or
to a stutter.

*Step lock.* Mutual exclusion is not inductive. What is added says, for a worker
between acquisition and release, that the lease is its own and fresh; for a
worker that may still delete, that nobody can have taken over; and for every
generation a thread remembers, whether it can still match: a "current"
generation belongs to the holder's own reads or to a contender's read of a stale
or absent lease. The refinement adds that a worker past its re-read knows that
the status is not SUCCESS. `FreshNotOverwritten` needs less and holds under more
faults: a generation a thread is about to write over and that still matches (`Token`) is of a
lease that was stale when it was read, or of its own.

*Runner.* `DepsFirst` needs that `completed` contains only steps whose status
file says SUCCESS, and that this status is not taken back. `OnePlace` needs that
the step the loop is at is in none of the sets and that a step is submitted only
from there or from `waiting`. `FailedForCause` adds that the first failed step had
a reason of its own; `Accounted` that every step the loop has passed is in one of
the sets, that the drain starts after the last step, and that the loop ends only
with `running` and `waiting` empty.

*Iris.* `Agree` is not inductive, because a report is judged against the snapshot
taken earlier in the transaction. What is added (`IInv`): every row is good (an
active task has a live current attempt in its state, all others have ended);
what is active is on a known worker; and, inside the transaction, the overlay is a
*tame* successor of the snapshot: no attempt is revived, no end taken back, and a
task that is still active is on the same worker. Every rule of the kernel except
the assignment is tame, which is one lemma per rule, so that a reply that is not
dropped meets the attempt that it was asked about. `OneSlot` adds that the
assignment of the tick was to free workers and that nobody else has taken them
(`Reserved`), which holds since only the commit binds attempts to workers.
`EndsAreFinal` follows from tameness. `JobSettled` adds that a job that has ended has no task that has not, also inside the
transaction, where the other direction waits for the recompute; `ChargedOnce` that
a task has been charged for at most its attempts, one less while it is active (`Thrift`),
and that a rule charges only what it takes away; `GangTogether` that a rule puts a
task back in the queue only together with all that are placed (`Requeues`), which is
what the cascade is for, and that a decision for a gang is for all its waiting tasks
on one slice (`Whole`).

*Finelog.* `ReadSafe` needs that a path leaves the disk only when no query can hold
it. `StoreInv` has four parts: `Data`, names, footers and rows are in range, and the
deque is ordered by its names; `Buffered`, rows in RAM, in the sealed batch and the
files that are being written are apart, so that a flush never writes over a file of
the deque; `Tasks`, what the maintenance task holds (its job, its victims, the lock);
and `Files`, every entry of the deque and every file of a query is on the disk. The
lock is used where the code uses it: a swap, a bump or an eviction removes files only while no
snapshot is taken, and a merge may write over a file only if that file is
one of its inputs. The lemmas below them are about the operators: `RanksTaken` and
`PickedElements` say what `Picked` returns (the members of a set in the order of their
places), and the `...Deque` lemmas what appending, splicing, marking, evicting and
adopting do to the entries and to their order.

*Finelog, rows.* `TailMonotone` needs `Older`: the rows of the deque are below `next_seq`,
below everything in RAM and below the batch being flushed, and the interval of a merged
output is covered by its inputs, because a job takes adjacent segments
(`PlannedRows`). The theorems under `Tidy` rest on one invariant, `TidyInv`, with
a lemma per part. `Extents`, `Younger`, `Mirrored` and `Content` describe the local
side: the rows of the catalog are disjoint intervals, all older than what is in RAM, each
LOCAL or BOTH row is an entry of the deque, and its file holds exactly its interval.
`Archive` and `Orphans` describe the bucket: an object holds the interval of its name,
it holds what a BOTH or REMOTE row claims, and an object without a row is covered
by a higher level, in the catalog or, while a namespace is registered (`Registering`), in the
bucket. `Acknowledged` says where an acknowledged row is in each mode; `Planned` that
the job at hand is about entries that are still there; `Stages` what an upload, a mark or an
eviction was decided on. Only the maintenance task takes files, objects and
catalog rows away, which is why what it decided on stays true until it
acts, and why a process that dies half-way needs more than this invariant.
`ArchiveGrows` adds `Archived`: what is to be uploaded is in the hands of the sync
until it is up, and nothing is left to upload where objects are deleted.

Only model-checked: everything under fairness (`SequentialStages`'s outcome,
`AllSettle`, `Drains`, `CurrentSlotReturns`, `JobStops`, `EventuallyAcked`,
`CycleEnds`), which is out of the prover's reach; `AckedReachable` and `FreshSeqs` with the
crash and the failing catalog calls of `finelog_crash`; and `ArchiveGrows` with the one
failing upload of `finelog_offload`.

## 5. Hazards

`PROJECT.json` lists at its line what in this code is hard to test. The ones no
property covers are there with the reason.

## 6. Plan

1. Finelog: `AckedReachable` and `FreshSeqs` with crashes, which need `TidyInv` weakened
   by the files and rows a crash leaves behind, and what has to be assumed for
   `AckedDurable` then.
2. Iris: child jobs and their cascade; two slots per worker.
3. Zephyr: several slots per process; `ZephyrContext.execute`.
4. Scheduler and autoscaler as pure functions and as a slice lifecycle.
5. Finelog: `drop_table` and re-registration.
6. Levanter's page table, the RL weight transfer.
