------------------------- MODULE ZephyrCoordinator -------------------------
(***************************************************************************)
(* The ZephyrCoordinator actor of lib/zephyr/src/zephyr/execution.py: its  *)
(* state, the handlers the worker slots call by RPC, the main thread that  *)
(* drives one pipeline (run_pipeline) and the background loop.             *)
(*                                                                         *)
(* Every handler holds self._lock from its first to its last statement, so *)
(* a handler is one action.  The main thread takes the lock several times  *)
(* per stage, and each of those critical sections is an action of its own. *)
(* The processes that call the handlers are in ZephyrPool.                 *)
(*                                                                         *)
(* An operator whose comment begins with "Bug:" is a mutant: a plausible    *)
(* mistake in the definition after it, which the properties must notice.   *)
(*                                                                         *)
(* Data is abstracted: a shard is its index, and a shard's result is the   *)
(* number of the stage that computed it.  A plan has NumStages worker      *)
(* stages of NumShards shards each; the n-th call of _start_stage makes    *)
(* `epoch' n, so the epoch is also the number of the running stage.        *)
(***************************************************************************)
EXTENDS Naturals, Sequences, FiniteSets

CONSTANTS
  Slots,                  \* worker ids: one slot per worker actor (the default)
  NumShards,              \* tasks per stage
  NumStages,              \* worker stages of the plan
  MaxShardFailures,       \* explicit errors of one shard before the abort
  MaxShardInfraFailures,  \* infra failures of one shard before the abort
  NoTask                  \* an absent entry of _in_flight

Shards == 0 .. NumShards - 1
Task == [shard : Shards, attempt : Nat]
Empty == 0                               \* the "stage" of a result that is missing

ASSUME CoordinatorAssumption ==
  /\ NumShards \in Nat \ {0}
  /\ NumStages \in Nat \ {0}
  /\ MaxShardFailures \in Nat \ {0}
  /\ MaxShardInfraFailures \in Nat \ {0}
  /\ NoTask \notin Task

VARIABLES
  taskQueue,      \* _task_queue
  results,        \* _results: the stage that computed each result, or Empty
  completed,      \* _completed_shards
  inFlight,       \* _in_flight
  attempts,       \* _task_attempts
  errorAttempts,  \* _task_error_attempts
  infraAttempts,  \* _task_infra_attempts
  fatal,          \* _fatal_error: "none" or what raised it
  epoch,          \* _stage_epoch
  totalShards,    \* _total_shards
  isLastStage,    \* _is_last_stage
  stageComplete,  \* _stage_complete
  stageOpen,      \* _current_stage is not None
  workerState,    \* _worker_states
  registered,     \* the keys of _worker_handles
  seen,           \* the keys of _last_seen
  shutdown,       \* _shutdown_event
  main,           \* where the thread of run_pipeline is
  inputs,         \* its local `shards': the input of the next or current stage
  loop            \* where the thread of _coordinator_loop is

taskVars == <<taskQueue, results, completed, inFlight, attempts, errorAttempts,
              infraAttempts>>
stageVars == <<epoch, totalShards, isLastStage, stageComplete, stageOpen>>
workerVars == <<workerState, registered, seen>>
threadVars == <<main, inputs, loop, shutdown>>
coordVars == <<taskVars, fatal, stageVars, workerVars, threadVars>>

Alive == {w \in Slots : workerState[w] \in {"READY", "BUSY"}}

CoordInit ==
  /\ taskQueue = <<>>
  /\ results = [s \in Shards |-> Empty]
  /\ completed = 0
  /\ inFlight = [w \in Slots |-> NoTask]
  /\ attempts = [s \in Shards |-> 0]
  /\ errorAttempts = [s \in Shards |-> 0]
  /\ infraAttempts = [s \in Shards |-> 0]
  /\ fatal = "none"
  /\ epoch = 0
  /\ totalShards = 0
  /\ isLastStage = FALSE
  /\ stageComplete = FALSE
  /\ stageOpen = FALSE
  /\ workerState = [w \in Slots |-> "absent"]
  /\ registered = {}
  /\ seen = {}
  /\ shutdown = FALSE
  /\ main = "next"
  /\ inputs = [s \in Shards |-> Empty]
  /\ loop = "idle"

-----------------------------------------------------------------------------
(* _record_shard_failure: the slot's shard goes back to the queue, or the  *)
(* pipeline is aborted when the shard has used up the cap of this kind of  *)
(* failure.  Nothing happens when the slot has no shard in flight.         *)

CapReached(w, kind) ==
  /\ inFlight[w] # NoTask
  /\ LET s == inFlight[w].shard
     IN  \/ kind = "task"  /\ errorAttempts[s] + 1 >= MaxShardFailures
         \/ kind = "infra" /\ infraAttempts[s] + 1 >= MaxShardInfraFailures

\* Bug: the generation of a requeued shard is not bumped.
CountFailureKeepsAttempt(s, kind) ==
  /\ errorAttempts' = IF kind = "task" THEN [errorAttempts EXCEPT ![s] = @ + 1]
                                       ELSE errorAttempts
  /\ infraAttempts' = IF kind = "infra" THEN [infraAttempts EXCEPT ![s] = @ + 1]
                                        ELSE infraAttempts
  /\ UNCHANGED attempts

CountFailure(s, kind) ==
  /\ attempts' = [attempts EXCEPT ![s] = @ + 1]
  /\ errorAttempts' = IF kind = "task" THEN [errorAttempts EXCEPT ![s] = @ + 1]
                                       ELSE errorAttempts
  /\ infraAttempts' = IF kind = "infra" THEN [infraAttempts EXCEPT ![s] = @ + 1]
                                        ELSE infraAttempts

\* Bug: the shard is looked up in _in_flight and not popped.
RecordShardFailureKeepsInFlight(w, kind) ==
  /\ \/ inFlight[w] = NoTask /\ UNCHANGED <<attempts, errorAttempts, infraAttempts, taskQueue>>
     \/ /\ inFlight[w] # NoTask
        /\ CountFailure(inFlight[w].shard, kind)
        /\ taskQueue' = Append(taskQueue, inFlight[w].shard)
  /\ UNCHANGED <<inFlight, fatal, results, completed>>

RecordShardFailure(w, kind) ==
  /\ \/ /\ inFlight[w] = NoTask
        /\ UNCHANGED <<inFlight, attempts, errorAttempts, infraAttempts,
                       taskQueue, fatal>>
     \/ /\ inFlight[w] # NoTask
        /\ inFlight' = [inFlight EXCEPT ![w] = NoTask]
        /\ CountFailure(inFlight[w].shard, kind)
        /\ \/ /\ CapReached(w, kind)
              /\ fatal' = kind
              /\ UNCHANGED taskQueue
           \/ /\ ~CapReached(w, kind)
              /\ taskQueue' = Append(taskQueue, inFlight[w].shard)
              /\ UNCHANGED fatal
  /\ UNCHANGED <<results, completed>>

-----------------------------------------------------------------------------
(* The handlers the worker slots call.                                     *)

\* Bug: a slot that registers again keeps its shard in flight.
RegisterWorkerKeepsTask(w) ==
  /\ registered' = registered \cup {w}
  /\ workerState' = [workerState EXCEPT ![w] = "READY"]
  /\ seen' = seen \cup {w}
  /\ UNCHANGED <<taskVars, fatal, stageVars, threadVars>>

\* register_worker: only a slot that is already known has its shard requeued.
RegisterWorker(w) ==
  /\ registered' = registered \cup {w}
  /\ workerState' = [workerState EXCEPT ![w] = "READY"]
  /\ seen' = seen \cup {w}
  /\ \/ w \in registered /\ RecordShardFailure(w, "infra")
     \/ w \notin registered /\ UNCHANGED <<taskVars, fatal>>
  /\ UNCHANGED <<stageVars, threadVars>>

\* deregister_worker leaves _in_flight as it is.
DeregisterWorker(w) ==
  /\ registered' = registered \ {w}
  /\ workerState' = [workerState EXCEPT ![w] = "absent"]
  /\ seen' = seen \ {w}
  /\ UNCHANGED <<taskVars, fatal, stageVars, threadVars>>

\* The part of heartbeat that this model keeps: _last_seen[worker_id] = now.
Heartbeat(w) ==
  /\ seen' = seen \cup {w}
  /\ UNCHANGED <<taskVars, fatal, stageVars, workerState, registered, threadVars>>

(* pull_task answers in one of four ways; the guards are its cascade of    *)
(* early returns.                                                          *)

QueueDrained(e) == e = epoch /\ fatal = "none" /\ taskQueue = <<>>

PullSeen(w, state) ==
  /\ seen' = seen \cup {w}
  /\ workerState' = [workerState EXCEPT ![w] = state]
  /\ UNCHANGED <<registered, results, completed, attempts, errorAttempts,
                 infraAttempts, fatal, stageVars, threadVars>>

PullShutdown(w, e) ==
  /\ shutdown \/ (QueueDrained(e) /\ isLastStage)
  /\ PullSeen(w, "DEAD")
  /\ UNCHANGED <<taskQueue, inFlight>>

PullStageCompleted(w, e) ==
  /\ ~shutdown
  /\ e # epoch \/ (QueueDrained(e) /\ ~isLastStage /\ stageComplete)
  /\ PullSeen(w, "DEAD")
  /\ UNCHANGED <<taskQueue, inFlight>>

PullNoWorkBackoff(w, e) ==
  /\ ~shutdown
  /\ e = epoch
  /\ fatal # "none" \/ (QueueDrained(e) /\ ~isLastStage /\ ~stageComplete)
  /\ PullSeen(w, "READY")
  /\ UNCHANGED <<taskQueue, inFlight>>

Assigned == [shard |-> Head(taskQueue), attempt |-> attempts[Head(taskQueue)]]

\* Bug: the head of the queue is read and not popped.
PullTaskPeeks(w, e) ==
  /\ ~shutdown /\ e = epoch /\ fatal = "none" /\ taskQueue # <<>>
  /\ inFlight' = [inFlight EXCEPT ![w] = Assigned]
  /\ PullSeen(w, "BUSY")
  /\ UNCHANGED taskQueue

PullTask(w, e) ==
  /\ ~shutdown
  /\ e = epoch
  /\ fatal = "none"
  /\ taskQueue # <<>>
  /\ taskQueue' = Tail(taskQueue)
  /\ inFlight' = [inFlight EXCEPT ![w] = Assigned]
  /\ PullSeen(w, "BUSY")

\* _assert_in_flight_consistent raises unless this holds.
InFlightConsistent(w, s) == inFlight[w] # NoTask => inFlight[w].shard = s

ReportAsserts(w, s) ==
  /\ ~InFlightConsistent(w, s)
  /\ seen' = seen \cup {w}
  /\ UNCHANGED <<taskVars, fatal, stageVars, workerState, registered, threadVars>>

\* report_result of a shard computed in stage k under attempt a.
ReportStaleResult(w, s, a) ==
  /\ InFlightConsistent(w, s)
  /\ a # attempts[s]
  /\ seen' = seen \cup {w}
  /\ UNCHANGED <<taskVars, fatal, stageVars, workerState, registered, threadVars>>

\* Bug: the attempt is not compared.
ReportAcceptsAnyAttempt(w, s, a, k) ==
  /\ InFlightConsistent(w, s)
  /\ seen' = seen \cup {w}
  /\ results' = [results EXCEPT ![s] = k]
  /\ completed' = completed + 1
  /\ inFlight' = [inFlight EXCEPT ![w] = NoTask]
  /\ workerState' = [workerState EXCEPT ![w] = "READY"]
  /\ UNCHANGED <<taskQueue, attempts, errorAttempts, infraAttempts, fatal,
                 stageVars, registered, threadVars>>

ReportAccepted(w, s, a, k) ==
  /\ InFlightConsistent(w, s)
  /\ a = attempts[s]
  /\ seen' = seen \cup {w}
  /\ results' = [results EXCEPT ![s] = k]
  /\ completed' = completed + 1
  /\ inFlight' = [inFlight EXCEPT ![w] = NoTask]
  /\ workerState' = [workerState EXCEPT ![w] = "READY"]
  /\ UNCHANGED <<taskQueue, attempts, errorAttempts, infraAttempts, fatal,
                 stageVars, registered, threadVars>>

ReportResult(w, s, a, k) == ReportStaleResult(w, s, a) \/ ReportAccepted(w, s, a, k)

ReportError(w, s) ==
  /\ InFlightConsistent(w, s)
  /\ seen' = seen \cup {w}
  /\ RecordShardFailure(w, "task")
  /\ workerState' = [workerState EXCEPT
                       ![w] = IF CapReached(w, "task") THEN "DEAD" ELSE "READY"]
  /\ UNCHANGED <<stageVars, registered, threadVars>>

-----------------------------------------------------------------------------
(* The background loop: check_heartbeats and _check_worker_group.          *)

\* One slot whose last heartbeat is older than heartbeat_timeout.
CheckHeartbeats(w) ==
  /\ ~shutdown
  /\ w \in seen
  /\ workerState[w] \notin {"FAILED", "DEAD"}
  /\ workerState' = [workerState EXCEPT ![w] = "FAILED"]
  /\ RecordShardFailure(w, "infra")
  /\ UNCHANGED <<registered, seen, stageVars, threadVars>>

\* _check_worker_group up to the release of the lock.
CheckWorkerGroup ==
  /\ ~shutdown
  /\ loop = "idle"
  /\ fatal = "none"
  /\ ~(totalShards > 0 /\ completed >= totalShards)
  /\ loop' = "asking"
  /\ UNCHANGED <<taskVars, fatal, stageVars, workerVars, main, inputs, shutdown>>

\* is_done() has answered; abort() keeps an earlier error.
WorkerGroupAnswer(isDone) ==
  /\ loop = "asking"
  /\ loop' = "idle"
  /\ fatal' = IF isDone /\ fatal = "none" THEN "group" ELSE fatal
  /\ UNCHANGED <<taskVars, stageVars, workerVars, main, inputs, shutdown>>

-----------------------------------------------------------------------------
(* The main thread: run_pipeline, _run_worker_stage, _wait_for_stage.      *)

\* _run_worker_stage publishes the stage before its tasks are loaded.
OpenStage ==
  /\ main = "next"
  /\ main' = "opened"
  /\ stageOpen' = TRUE
  /\ UNCHANGED <<taskVars, fatal, epoch, totalShards, isLastStage, stageComplete,
                 workerVars, inputs, loop, shutdown>>

\* Bug: shards are counted from one.
QueueFromOne == [i \in 1 .. NumShards |-> i]
InitialQueue == [i \in 1 .. NumShards |-> i - 1]

StartStage ==
  /\ main = "opened"
  /\ main' = "waiting"
  /\ taskQueue' = InitialQueue
  /\ results' = [s \in Shards |-> Empty]
  /\ completed' = 0
  /\ inFlight' = [w \in Slots |-> NoTask]
  /\ attempts' = [s \in Shards |-> 0]
  /\ errorAttempts' = [s \in Shards |-> 0]
  /\ infraAttempts' = [s \in Shards |-> 0]
  /\ fatal' = "none"
  /\ epoch' = epoch + 1
  /\ totalShards' = NumShards
  /\ isLastStage' = (epoch + 1 = NumStages)
  /\ stageComplete' = FALSE
  /\ UNCHANGED <<stageOpen, workerVars, inputs, loop, shutdown>>

\* Bug: the stage ends one shard early.
StageCompletesEarly ==
  /\ main = "waiting" /\ fatal = "none" /\ completed + 1 >= totalShards
  /\ main' = "completed"
  /\ UNCHANGED <<taskVars, fatal, stageVars, workerVars, inputs, loop, shutdown>>

\* _wait_for_stage returns.
StageCompletes ==
  /\ main = "waiting"
  /\ fatal = "none"
  /\ completed >= totalShards
  /\ main' = "completed"
  /\ UNCHANGED <<taskVars, fatal, stageVars, workerVars, inputs, loop, shutdown>>

\* _wait_for_stage raises: a fatal error, or no live worker for too long.
StageFails ==
  /\ main = "waiting"
  /\ fatal # "none" \/ (completed < totalShards /\ Alive = {})
  /\ main' = "failed"
  /\ UNCHANGED <<taskVars, fatal, stageVars, workerVars, inputs, loop, shutdown>>

MarkStageComplete ==
  /\ main = "completed"
  /\ main' = "marked"
  /\ stageComplete' = TRUE
  /\ stageOpen' = FALSE
  /\ UNCHANGED <<taskVars, fatal, epoch, totalShards, isLastStage, workerVars,
                 inputs, loop, shutdown>>

\* _collect_results and _regroup_map_refs: a missing result is an empty shard.
CollectResults ==
  /\ main = "marked"
  /\ main' = IF epoch = NumStages THEN "finished" ELSE "next"
  /\ inputs' = results
  /\ UNCHANGED <<taskVars, fatal, stageVars, workerVars, loop, shutdown>>

\* coordinator.shutdown, from the finally block of _run_coordinator_job.
Shutdown ==
  /\ main \in {"finished", "failed"}
  /\ ~shutdown
  /\ shutdown' = TRUE
  /\ UNCHANGED <<taskVars, fatal, stageVars, workerVars, main, inputs, loop>>

\* A second run_pipeline while one is running poisons the running one.
RunPipelineAgain ==
  /\ main \notin {"finished", "failed"}
  /\ fatal' = "rerun"
  /\ UNCHANGED <<taskVars, stageVars, workerVars, threadVars>>

MainThread ==
  \/ OpenStage \/ StartStage \/ StageCompletes \/ StageFails
  \/ MarkStageComplete \/ CollectResults \/ Shutdown

-----------------------------------------------------------------------------
(* The coordinator for itself: whoever calls its handlers, with whatever   *)
(* arguments.                                                              *)

HandlerCall(w) ==
  \/ RegisterWorker(w) \/ DeregisterWorker(w) \/ Heartbeat(w)
  \/ \E e \in Nat : \/ PullShutdown(w, e) \/ PullStageCompleted(w, e)
                   \/ PullNoWorkBackoff(w, e) \/ PullTask(w, e)
  \/ \E s \in Shards : \/ ReportAsserts(w, s) \/ ReportError(w, s)
                      \/ \E a, k \in Nat : ReportResult(w, s, a, k)

BackgroundThread ==
  \/ CheckWorkerGroup
  \/ \E isDone \in BOOLEAN : WorkerGroupAnswer(isDone)
  \/ \E w \in Slots : CheckHeartbeats(w)

CoordNext ==
  \/ MainThread \/ RunPipelineAgain \/ BackgroundThread
  \/ \E w \in Slots : HandlerCall(w)

CoordSpec == CoordInit /\ [][CoordNext]_coordVars

TaskTypeOK ==
  /\ taskQueue \in Seq(Shards)
  /\ results \in [Shards -> Nat]
  /\ completed \in Nat
  /\ inFlight \in [Slots -> Task \cup {NoTask}]
  /\ attempts \in [Shards -> Nat]
  /\ errorAttempts \in [Shards -> Nat]
  /\ infraAttempts \in [Shards -> Nat]
  /\ fatal \in {"none", "task", "infra", "group", "rerun"}

StageTypeOK ==
  /\ epoch \in Nat /\ totalShards \in Nat
  /\ isLastStage \in BOOLEAN /\ stageComplete \in BOOLEAN /\ stageOpen \in BOOLEAN
  /\ workerState \in [Slots -> {"absent", "READY", "BUSY", "FAILED", "DEAD"}]
  /\ registered \subseteq Slots /\ seen \subseteq Slots
  /\ shutdown \in BOOLEAN
  /\ main \in {"next", "opened", "waiting", "completed", "marked", "finished", "failed"}
  /\ inputs \in [Shards -> Nat]
  /\ loop \in {"idle", "asking"}

\* Every variable of the coordinator holds a value of its kind.
CoordTypeOK == TaskTypeOK /\ StageTypeOK

Queued(s) == \E i \in 1 .. Len(taskQueue) : taskQueue[i] = s
Holds(w, s) == inFlight[w] # NoTask /\ inFlight[w].shard = s

QueueDistinct == \A i, j \in 1 .. Len(taskQueue) : taskQueue[i] = taskQueue[j] => i = j
HeldOnce == \A v, w \in Slots, s \in Shards : Holds(v, s) /\ Holds(w, s) => v = w
HeldNotQueued == \A w \in Slots, s \in Shards : Holds(w, s) => ~Queued(s)
HeldIsCurrent ==
  \A w \in Slots, s \in Shards : Holds(w, s) => inFlight[w].attempt = attempts[s]

\* A shard is handed out at most once at a time (pull_task pops it, every other
\* handler puts it back only after taking it from its slot), and the attempt of
\* a slot's task is the one that report_result will compare with.
DispatchExclusive == QueueDistinct /\ HeldOnce /\ HeldNotQueued /\ HeldIsCurrent
=============================================================================
