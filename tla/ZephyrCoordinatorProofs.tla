---------------------- MODULE ZephyrCoordinatorProofs ----------------------
(***************************************************************************)
(* What the coordinator keeps true of its own state whoever calls its      *)
(* handlers, in whatever order and with whatever arguments.                *)
(***************************************************************************)
EXTENDS ZephyrCoordinator, TLAPS

USE DEF Empty

-----------------------------------------------------------------------------
(* Types.                                                                  *)

\* _record_shard_failure keeps the types of what it writes.
LEMMA RecordShardFailureType ==
  ASSUME TaskTypeOK, NEW w \in Slots, NEW kind \in {"task", "infra"},
         RecordShardFailure(w, kind)
  PROVE  TaskTypeOK'
<1>1. CASE inFlight[w] = NoTask
  BY <1>1 DEF RecordShardFailure, TaskTypeOK
<1>2. CASE inFlight[w] # NoTask
  <2> DEFINE s == inFlight[w].shard
  <2>1. inFlight[w] \in Task /\ s \in Shards
    BY <1>2 DEF TaskTypeOK, Task
  <2> HIDE DEF s
  <2>2. CountFailure(s, kind)
    BY <1>2 DEF RecordShardFailure, s
  <2>3. /\ attempts' \in [Shards -> Nat]
        /\ errorAttempts' \in [Shards -> Nat]
        /\ infraAttempts' \in [Shards -> Nat]
    BY <2>1, <2>2 DEF CountFailure, TaskTypeOK
  <2>4. taskQueue' = taskQueue \/ taskQueue' = Append(taskQueue, s)
    BY <1>2 DEF RecordShardFailure, s
  <2>5. taskQueue' \in Seq(Shards)
    <3>1. taskQueue \in Seq(Shards)
      BY DEF TaskTypeOK
    <3> QED
      BY <2>1, <2>4, <3>1
  <2>6. fatal' \in {"none", "task", "infra", "group", "rerun"}
    BY <1>2 DEF RecordShardFailure, TaskTypeOK
  <2>7. inFlight' \in [Slots -> Task \cup {NoTask}]
    BY <1>2 DEF RecordShardFailure, TaskTypeOK
  <2> QED
    BY <1>2, <2>3, <2>5, <2>6, <2>7 DEF RecordShardFailure, TaskTypeOK
<1> QED
  BY <1>1, <1>2

\* A call of a handler keeps the types.
LEMMA HandlerType ==
  ASSUME CoordTypeOK, NEW w \in Slots, HandlerCall(w)
  PROVE  CoordTypeOK'
<1> USE DEF CoordTypeOK, stageVars, threadVars, workerVars, taskVars
<1>1. CASE RegisterWorker(w)
  <2>1. TaskTypeOK'
    BY <1>1, RecordShardFailureType DEF RegisterWorker, TaskTypeOK
  <2>2. StageTypeOK'
    BY <1>1 DEF RegisterWorker, StageTypeOK
  <2> QED
    BY <2>1, <2>2
<1>2. CASE DeregisterWorker(w) \/ Heartbeat(w)
  <2>1. TaskTypeOK'
    BY <1>2 DEF DeregisterWorker, Heartbeat, TaskTypeOK
  <2>2. StageTypeOK'
    BY <1>2 DEF DeregisterWorker, Heartbeat, StageTypeOK
  <2> QED
    BY <2>1, <2>2
<1>3. ASSUME NEW e \in Nat,
             PullShutdown(w, e) \/ PullStageCompleted(w, e) \/ PullNoWorkBackoff(w, e)
      PROVE  CoordTypeOK'
  <2> USE <1>3 DEF PullShutdown, PullStageCompleted, PullNoWorkBackoff, PullSeen
  <2>1. TaskTypeOK'
    BY DEF TaskTypeOK
  <2>2. StageTypeOK'
    BY DEF StageTypeOK
  <2> QED
    BY <2>1, <2>2
<1>4. ASSUME NEW e \in Nat, PullTask(w, e)
      PROVE  CoordTypeOK'
  <2>1. Assigned \in Task
    BY <1>4 DEF PullTask, Assigned, Task, TaskTypeOK
  <2>2. taskQueue' \in Seq(Shards)
    BY <1>4 DEF PullTask, TaskTypeOK
  <2>3. inFlight' \in [Slots -> Task \cup {NoTask}]
    BY <1>4, <2>1 DEF PullTask, TaskTypeOK
  <2>4. TaskTypeOK'
    BY <1>4, <2>2, <2>3 DEF PullTask, PullSeen, TaskTypeOK
  <2>5. StageTypeOK'
    BY <1>4 DEF PullTask, PullSeen, StageTypeOK
  <2> QED
    BY <2>4, <2>5
<1>5. ASSUME NEW s \in Shards, ReportAsserts(w, s)
      PROVE  CoordTypeOK'
  <2>1. TaskTypeOK'
    BY <1>5 DEF ReportAsserts, TaskTypeOK
  <2>2. StageTypeOK'
    BY <1>5 DEF ReportAsserts, StageTypeOK
  <2> QED
    BY <2>1, <2>2
<1>6. ASSUME NEW s \in Shards, ReportError(w, s)
      PROVE  CoordTypeOK'
  <2>1. TaskTypeOK'
    BY <1>6, RecordShardFailureType DEF ReportError
  <2>2. StageTypeOK'
    BY <1>6 DEF ReportError, StageTypeOK
  <2> QED
    BY <2>1, <2>2
<1>7. ASSUME NEW s \in Shards, NEW a \in Nat, NEW k \in Nat, ReportResult(w, s, a, k)
      PROVE  CoordTypeOK'
  <2>1. CASE ReportStaleResult(w, s, a)
    <3>1. TaskTypeOK'
      BY <2>1 DEF ReportStaleResult, TaskTypeOK
    <3>2. StageTypeOK'
      BY <2>1 DEF ReportStaleResult, StageTypeOK
    <3> QED
      BY <3>1, <3>2
  <2>2. CASE ReportAccepted(w, s, a, k)
    <3>1. results' \in [Shards -> Nat]
      BY <2>2, <1>7 DEF ReportAccepted, TaskTypeOK
    <3>2. inFlight' \in [Slots -> Task \cup {NoTask}]
      BY <2>2, <1>7 DEF ReportAccepted, TaskTypeOK
    <3>3. TaskTypeOK'
      BY <2>2, <3>1, <3>2 DEF ReportAccepted, TaskTypeOK
    <3>4. StageTypeOK'
      BY <2>2 DEF ReportAccepted, StageTypeOK
    <3> QED
      BY <3>3, <3>4
  <2> QED
    BY <1>7, <2>1, <2>2 DEF ReportResult
<1> QED
  BY <1>1, <1>2, <1>3, <1>4, <1>5, <1>6, <1>7 DEF HandlerCall

\* Every step of the coordinator keeps the types.
LEMMA CoordStepType ==
  CoordTypeOK /\ [CoordNext]_coordVars => CoordTypeOK'
<1> SUFFICES ASSUME CoordTypeOK, [CoordNext]_coordVars
             PROVE  CoordTypeOK'
  OBVIOUS
<1> USE DEF CoordTypeOK, stageVars, threadVars, workerVars, taskVars
<1>1. CASE StartStage
  <2>1. taskQueue' \in Seq(Shards)
    <3>1. NumShards \in Nat
      BY CoordinatorAssumption
    <3>2. \A i \in 1 .. NumShards : i - 1 \in Shards
      BY <3>1 DEF Shards
    <3> QED
      BY <1>1, <3>1, <3>2 DEF StartStage, InitialQueue
  <2>2. TaskTypeOK'
    BY <1>1, <2>1 DEF StartStage, TaskTypeOK
  <2>3. StageTypeOK'
    <3>1. NumShards \in Nat
      BY CoordinatorAssumption
    <3>2. isLastStage' \in BOOLEAN
      BY <1>1, Zenon DEF StartStage
    <3>3. epoch' \in Nat /\ totalShards' \in Nat
      BY <1>1, <3>1 DEF StartStage, StageTypeOK
    <3>4. main' = "waiting" /\ stageComplete' = FALSE
      BY <1>1 DEF StartStage
    <3>5. UNCHANGED <<stageOpen, workerState, registered, seen, inputs, loop, shutdown>>
      BY <1>1 DEF StartStage
    <3> QED
      BY <3>2, <3>3, <3>4, <3>5 DEF StageTypeOK
  <2> QED
    BY <2>2, <2>3
<1>2. CASE OpenStage \/ StageCompletes \/ StageFails \/ MarkStageComplete \/ CollectResults
             \/ Shutdown
  <2> USE <1>2 DEF OpenStage, StageCompletes, StageFails, MarkStageComplete, CollectResults,
                   Shutdown
  <2>1. TaskTypeOK'
    BY DEF TaskTypeOK
  <2>2. StageTypeOK'
    BY DEF StageTypeOK, TaskTypeOK
  <2> QED
    BY <2>1, <2>2
<1>3. CASE RunPipelineAgain
  <2>1. TaskTypeOK'
    BY <1>3 DEF RunPipelineAgain, TaskTypeOK
  <2>2. StageTypeOK'
    BY <1>3 DEF RunPipelineAgain, StageTypeOK
  <2> QED
    BY <2>1, <2>2
<1>4. CASE CheckWorkerGroup \/ \E isDone \in BOOLEAN : WorkerGroupAnswer(isDone)
  <2>1. TaskTypeOK'
    BY <1>4 DEF CheckWorkerGroup, WorkerGroupAnswer, TaskTypeOK
  <2>2. StageTypeOK'
    BY <1>4 DEF CheckWorkerGroup, WorkerGroupAnswer, StageTypeOK
  <2> QED
    BY <2>1, <2>2
<1>5. ASSUME NEW w \in Slots, CheckHeartbeats(w)
      PROVE  CoordTypeOK'
  <2>1. TaskTypeOK'
    BY <1>5, RecordShardFailureType DEF CheckHeartbeats
  <2>2. StageTypeOK'
    BY <1>5 DEF CheckHeartbeats, StageTypeOK
  <2> QED
    BY <2>1, <2>2
<1>6. CASE \E w \in Slots : HandlerCall(w)
  BY <1>6, HandlerType
<1>7. CASE UNCHANGED coordVars
  <2>1. TaskTypeOK'
    BY <1>7 DEF coordVars, TaskTypeOK
  <2>2. StageTypeOK'
    BY <1>7 DEF coordVars, StageTypeOK
  <2> QED
    BY <2>1, <2>2
<1> QED
  BY <1>1, <1>2, <1>3, <1>4, <1>5, <1>6, <1>7 DEF CoordNext, MainThread, BackgroundThread

\* The initial state has them.
LEMMA CoordInitType == CoordInit => CoordTypeOK
<1> SUFFICES ASSUME CoordInit
             PROVE  TaskTypeOK /\ StageTypeOK
  BY DEF CoordTypeOK
<1>1. TaskTypeOK
  BY DEF CoordInit, TaskTypeOK
<1>2. StageTypeOK
  BY DEF CoordInit, StageTypeOK
<1> QED
  BY <1>1, <1>2

\* The types hold in every state, for any number of slots, shards and stages.
THEOREM CoordTypeCorrect == CoordSpec => []CoordTypeOK
BY CoordInitType, CoordStepType, PTL DEF CoordSpec

-----------------------------------------------------------------------------
(* A shard is handed out at most once at a time.                           *)

\* A slot that gives up its shard and leaves the queue and the other slots'
\* attempts alone disturbs nothing.
LEMMA ReleaseExclusive ==
  ASSUME TaskTypeOK, DispatchExclusive, NEW w \in Slots,
         inFlight' = [inFlight EXCEPT ![w] = NoTask],
         taskQueue' = taskQueue,
         \A s \in Shards : ~Holds(w, s) => attempts'[s] = attempts[s]
  PROVE  DispatchExclusive'
<1>1. \A v \in Slots, s \in Shards : Holds(v, s)' => v # w /\ Holds(v, s) /\ inFlight'[v] = inFlight[v]
  BY DEF Holds, TaskTypeOK
<1>2. \A s \in Shards : Queued(s)' <=> Queued(s)
  BY DEF Queued
<1>3. QueueDistinct'
  BY DEF DispatchExclusive, QueueDistinct
<1>4. HeldOnce'
  BY <1>1 DEF DispatchExclusive, HeldOnce
<1>5. HeldNotQueued'
  BY <1>1, <1>2 DEF DispatchExclusive, HeldNotQueued
<1>6. HeldIsCurrent'
  <2> SUFFICES ASSUME NEW v \in Slots, NEW s \in Shards, Holds(v, s)'
               PROVE  inFlight'[v].attempt = attempts'[s]
    BY DEF HeldIsCurrent
  <2>1. v # w /\ Holds(v, s) /\ inFlight'[v] = inFlight[v]
    BY <1>1
  <2>2. ~Holds(w, s)
    BY <2>1 DEF DispatchExclusive, HeldOnce
  <2> QED
    BY <2>1, <2>2 DEF DispatchExclusive, HeldIsCurrent
<1> QED
  BY <1>3, <1>4, <1>5, <1>6 DEF DispatchExclusive

\* A shard that no slot holds may join the end of the queue once.
LEMMA RequeueExclusive ==
  ASSUME TaskTypeOK, DispatchExclusive, NEW w \in Slots, NEW s \in Shards, Holds(w, s),
         inFlight' = [inFlight EXCEPT ![w] = NoTask],
         attempts' = [attempts EXCEPT ![s] = @ + 1],
         taskQueue' = Append(taskQueue, s)
  PROVE  DispatchExclusive'
<1>1. \A v \in Slots, t \in Shards : Holds(v, t)' => v # w /\ Holds(v, t) /\ inFlight'[v] = inFlight[v]
  BY DEF Holds, TaskTypeOK
<1>2. \A v \in Slots, t \in Shards : Holds(v, t)' => t # s
  BY <1>1 DEF DispatchExclusive, HeldOnce
<1>3. /\ Len(taskQueue) \in Nat /\ Len(taskQueue') = Len(taskQueue) + 1
      /\ \A i \in 1 .. Len(taskQueue) : taskQueue'[i] = taskQueue[i]
      /\ taskQueue'[Len(taskQueue) + 1] = s
  BY DEF TaskTypeOK
<1>4. \A t \in Shards : Queued(t)' => t = s \/ Queued(t)
  BY <1>3 DEF Queued
<1>5. ~Queued(s)
  BY DEF DispatchExclusive, HeldNotQueued
<1>6. QueueDistinct'
  BY <1>3, <1>5 DEF DispatchExclusive, QueueDistinct, Queued
<1>7. HeldOnce'
  BY <1>1 DEF DispatchExclusive, HeldOnce
<1>8. HeldNotQueued'
  BY <1>1, <1>2, <1>4 DEF DispatchExclusive, HeldNotQueued
<1>9. HeldIsCurrent'
  <2> SUFFICES ASSUME NEW v \in Slots, NEW t \in Shards, Holds(v, t)'
               PROVE  inFlight'[v].attempt = attempts'[t]
    BY DEF HeldIsCurrent
  <2>1. Holds(v, t) /\ inFlight'[v] = inFlight[v] /\ t # s
    BY <1>1, <1>2
  <2>2. attempts'[t] = attempts[t]
    BY <2>1 DEF TaskTypeOK
  <2> QED
    BY <2>1, <2>2 DEF DispatchExclusive, HeldIsCurrent
<1> QED
  BY <1>6, <1>7, <1>8, <1>9 DEF DispatchExclusive

\* _record_shard_failure requeues or drops a shard, and never duplicates it.
LEMMA RecordShardFailureExclusive ==
  ASSUME TaskTypeOK, DispatchExclusive, NEW w \in Slots, NEW kind,
         RecordShardFailure(w, kind)
  PROVE  DispatchExclusive'
<1>1. CASE inFlight[w] = NoTask
  BY <1>1 DEF RecordShardFailure, DispatchExclusive, QueueDistinct, HeldOnce, HeldNotQueued,
              HeldIsCurrent, Holds, Queued
<1>2. CASE inFlight[w] # NoTask
  <2> DEFINE s == inFlight[w].shard
  <2>1. s \in Shards /\ Holds(w, s) /\ \A t \in Shards : ~Holds(w, t) => t # s
    BY <1>2 DEF TaskTypeOK, Task, Holds
  <2>2. /\ inFlight' = [inFlight EXCEPT ![w] = NoTask]
        /\ attempts' = [attempts EXCEPT ![s] = @ + 1]
        /\ taskQueue' = taskQueue \/ taskQueue' = Append(taskQueue, s)
    BY <1>2 DEF RecordShardFailure, CountFailure
  <2> HIDE DEF s
  <2>3. \A t \in Shards : ~Holds(w, t) => attempts'[t] = attempts[t]
    BY <2>1, <2>2 DEF TaskTypeOK
  <2> QED
    BY <2>1, <2>2, <2>3, ReleaseExclusive, RequeueExclusive
<1> QED
  BY <1>1, <1>2

\* pull_task moves the head of the queue to the slot.
LEMMA PullTaskExclusive ==
  ASSUME TaskTypeOK, DispatchExclusive, NEW w \in Slots, NEW e, PullTask(w, e)
  PROVE  DispatchExclusive'
<1> DEFINE h == Head(taskQueue)
<1>1. /\ h \in Shards /\ taskQueue[1] = h /\ taskQueue' = Tail(taskQueue)
      /\ Len(taskQueue) \in Nat \ {0} /\ Len(taskQueue') = Len(taskQueue) - 1
      /\ \A i \in 1 .. Len(taskQueue') : taskQueue'[i] = taskQueue[i + 1]
  BY DEF PullTask, TaskTypeOK
<1>2. /\ attempts' = attempts
      /\ inFlight' = [inFlight EXCEPT ![w] = [shard |-> h, attempt |-> attempts[h]]]
  BY DEF PullTask, PullSeen, Assigned
<1> HIDE DEF h
<1>3. Queued(h)
  BY <1>1 DEF Queued
<1>4. \A t \in Shards : Queued(t)' => Queued(t) /\ t # h
  <2> SUFFICES ASSUME NEW t \in Shards, Queued(t)'
               PROVE  Queued(t) /\ t # h
    OBVIOUS
  <2>1. PICK i \in 1 .. Len(taskQueue') : taskQueue'[i] = t
    BY DEF Queued
  <2>2. i + 1 \in 1 .. Len(taskQueue) /\ 1 \in 1 .. Len(taskQueue) /\ i + 1 # 1
    BY <1>1
  <2>3. taskQueue[i + 1] = t
    BY <1>1, <2>1
  <2> QED
    BY <1>1, <2>2, <2>3 DEF DispatchExclusive, QueueDistinct, Queued
<1>5. inFlight'[w] = [shard |-> h, attempt |-> attempts[h]]
  BY <1>2 DEF TaskTypeOK
<1>6. \A v \in Slots : v # w => inFlight'[v] = inFlight[v]
  BY <1>2 DEF TaskTypeOK
<1>7. \A v \in Slots, t \in Shards : Holds(v, t)' =>
         \/ v = w /\ t = h
         \/ v # w /\ Holds(v, t) /\ t # h
  <2>1. \A v \in Slots, t \in Shards : Holds(v, t) => t # h
    BY <1>3 DEF DispatchExclusive, HeldNotQueued
  <2> QED
    BY <1>5, <1>6, <2>1 DEF Holds
<1>8. QueueDistinct'
  <2> SUFFICES ASSUME NEW i \in 1 .. Len(taskQueue'), NEW j \in 1 .. Len(taskQueue'),
                      taskQueue'[i] = taskQueue'[j]
               PROVE  i = j
    BY DEF QueueDistinct
  <2>1. i + 1 \in 1 .. Len(taskQueue) /\ j + 1 \in 1 .. Len(taskQueue)
    BY <1>1
  <2>2. taskQueue[i + 1] = taskQueue[j + 1]
    BY <1>1
  <2>3. i + 1 = j + 1
    BY <2>1, <2>2 DEF DispatchExclusive, QueueDistinct
  <2> QED
    BY <2>3
<1>9. HeldOnce'
  <2>1. HeldOnce
    BY DEF DispatchExclusive
  <2> QED
    BY <1>7, <2>1 DEF HeldOnce
<1>10. HeldNotQueued'
  <2>1. HeldNotQueued
    BY DEF DispatchExclusive
  <2> QED
    BY <1>4, <1>7, <2>1 DEF HeldNotQueued
<1>11. HeldIsCurrent'
  <2> SUFFICES ASSUME NEW v \in Slots, NEW t \in Shards, Holds(v, t)'
               PROVE  inFlight'[v].attempt = attempts[t]
    BY <1>2 DEF HeldIsCurrent
  <2>1. CASE v = w /\ t = h
    BY <1>5, <2>1
  <2>2. CASE v # w /\ Holds(v, t)
    BY <1>6, <2>2 DEF DispatchExclusive, HeldIsCurrent
  <2> QED
    BY <1>7, <2>1, <2>2
<1> QED
  BY <1>8, <1>9, <1>10, <1>11 DEF DispatchExclusive

\* A step that leaves the queue, the slots' shards and the attempts alone.
LEMMA IdleExclusive ==
  ASSUME DispatchExclusive, UNCHANGED <<taskQueue, inFlight, attempts>>
  PROVE  DispatchExclusive'
BY DEF DispatchExclusive, QueueDistinct, HeldOnce, HeldNotQueued, HeldIsCurrent, Holds, Queued

\* _start_stage queues every shard once and takes every shard from the slots.
LEMMA StartStageExclusive ==
  ASSUME StartStage
  PROVE  DispatchExclusive'
<1>1. NumShards \in Nat
  BY CoordinatorAssumption
<1>2. taskQueue' = [i \in 1 .. NumShards |-> i - 1] /\ inFlight' = [w \in Slots |-> NoTask]
  BY DEF StartStage, InitialQueue
<1>3. Len(taskQueue') = NumShards
  BY <1>1, <1>2
<1>4. QueueDistinct'
  BY <1>1, <1>2, <1>3 DEF QueueDistinct
<1>5. \A w \in Slots, s \in Shards : ~Holds(w, s)'
  BY <1>2 DEF Holds
<1> QED
  BY <1>4, <1>5 DEF DispatchExclusive, HeldOnce, HeldNotQueued, HeldIsCurrent

\* A call of a handler keeps dispatch exclusive.
LEMMA HandlerExclusive ==
  ASSUME TaskTypeOK, DispatchExclusive, NEW w \in Slots, HandlerCall(w)
  PROVE  DispatchExclusive'
<1> USE DEF taskVars
<1>1. CASE RegisterWorker(w)
  BY <1>1, RecordShardFailureExclusive, IdleExclusive DEF RegisterWorker
<1>2. CASE DeregisterWorker(w) \/ Heartbeat(w)
  BY <1>2, IdleExclusive DEF DeregisterWorker, Heartbeat
<1>3. ASSUME NEW e \in Nat,
             PullShutdown(w, e) \/ PullStageCompleted(w, e) \/ PullNoWorkBackoff(w, e)
      PROVE  DispatchExclusive'
  BY <1>3, IdleExclusive DEF PullShutdown, PullStageCompleted, PullNoWorkBackoff, PullSeen
<1>4. ASSUME NEW e \in Nat, PullTask(w, e)
      PROVE  DispatchExclusive'
  BY <1>4, PullTaskExclusive
<1>5. ASSUME NEW s \in Shards, ReportAsserts(w, s)
      PROVE  DispatchExclusive'
  BY <1>5, IdleExclusive DEF ReportAsserts
<1>6. ASSUME NEW s \in Shards, ReportError(w, s)
      PROVE  DispatchExclusive'
  BY <1>6, RecordShardFailureExclusive DEF ReportError
<1>7. ASSUME NEW s \in Shards, NEW a \in Nat, NEW k \in Nat, ReportResult(w, s, a, k)
      PROVE  DispatchExclusive'
  <2>1. CASE ReportStaleResult(w, s, a)
    BY <2>1, IdleExclusive DEF ReportStaleResult
  <2>2. CASE ReportAccepted(w, s, a, k)
    BY <2>2, ReleaseExclusive DEF ReportAccepted
  <2> QED
    BY <1>7, <2>1, <2>2 DEF ReportResult
<1> QED
  BY <1>1, <1>2, <1>3, <1>4, <1>5, <1>6, <1>7 DEF HandlerCall

\* Every step of the coordinator keeps dispatch exclusive.
LEMMA CoordStepExclusive ==
  CoordTypeOK /\ DispatchExclusive /\ [CoordNext]_coordVars => DispatchExclusive'
<1> SUFFICES ASSUME TaskTypeOK, DispatchExclusive, [CoordNext]_coordVars
             PROVE  DispatchExclusive'
  BY DEF CoordTypeOK
<1> USE DEF taskVars
<1>1. CASE StartStage
  BY <1>1, StartStageExclusive
<1>2. CASE OpenStage \/ StageCompletes \/ StageFails \/ MarkStageComplete \/ CollectResults
             \/ Shutdown
  BY <1>2, IdleExclusive DEF OpenStage, StageCompletes, StageFails, MarkStageComplete,
                             CollectResults, Shutdown
<1>3. CASE RunPipelineAgain
  BY <1>3, IdleExclusive DEF RunPipelineAgain
<1>4. CASE CheckWorkerGroup \/ \E isDone \in BOOLEAN : WorkerGroupAnswer(isDone)
  BY <1>4, IdleExclusive DEF CheckWorkerGroup, WorkerGroupAnswer
<1>5. ASSUME NEW w \in Slots, CheckHeartbeats(w)
      PROVE  DispatchExclusive'
  BY <1>5, RecordShardFailureExclusive DEF CheckHeartbeats
<1>6. CASE \E w \in Slots : HandlerCall(w)
  BY <1>6, HandlerExclusive
<1>7. CASE UNCHANGED coordVars
  BY <1>7, IdleExclusive DEF coordVars
<1> QED
  BY <1>1, <1>2, <1>3, <1>4, <1>5, <1>6, <1>7 DEF CoordNext, MainThread, BackgroundThread

\* Whatever calls arrive, in whatever order, and whatever the numbers of slots,
\* shards and stages: no shard is in two hands, or in a hand and in the queue.
THEOREM CoordDispatchExclusive == CoordSpec => []DispatchExclusive
<1>1. CoordInit => DispatchExclusive
  <2> SUFFICES ASSUME CoordInit
               PROVE  DispatchExclusive
    OBVIOUS
  <2>1. taskQueue = <<>> /\ inFlight = [w \in Slots |-> NoTask]
    BY DEF CoordInit
  <2>2. Len(taskQueue) = 0 /\ \A w \in Slots : inFlight[w] = NoTask
    BY <2>1
  <2> QED
    BY <2>2 DEF DispatchExclusive, QueueDistinct, HeldOnce, HeldNotQueued, HeldIsCurrent, Holds
<1> QED
  BY <1>1, CoordTypeCorrect, CoordStepExclusive, PTL DEF CoordSpec
=============================================================================
