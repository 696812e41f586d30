-------------------------- MODULE ZephyrPoolProofs --------------------------
(***************************************************************************)
(* The pool of workers, with all of its faults, is one of the callers that *)
(* the coordinator of ZephyrCoordinatorProofs copes with.  And what it     *)
(* computes: no shard of a stage is counted twice, none is forgotten, and  *)
(* the stages are barriers.                                                *)
(*                                                                         *)
(* The latter does not hold under every fault, and the runs on ZephyrPool  *)
(* show the counterexamples; two hypotheses say where it does.             *)
(***************************************************************************)
EXTENDS ZephyrPool, ZephyrCoordinatorProofs, FiniteSetTheorems

\* The types of the processes' own variables.
ProcTypeOK ==
  /\ pc \in [Procs -> Places]
  /\ ep \in [Procs -> Nat]
  /\ job \in [Procs -> Job]
  /\ quit \in [Procs -> {"no", "done", "fail"}]
  /\ faults \in Nat

LEMMA ProcArguments ==
  ASSUME ProcTypeOK, NEW p \in Procs
  PROVE  /\ Id(p) \in Slots /\ ep[p] \in Nat /\ job[p].shard \in Shards
         /\ job[p].attempt \in Nat /\ job[p].stage \in Nat
BY DEF ProcTypeOK, Procs, Id, Job

\* What a worker does by itself is a call of a handler, or nothing to the
\* coordinator.
LEMMA WorkerStepCalls ==
  ASSUME ProcTypeOK, NEW p \in Procs, WorkerStep(p)
  PROVE  HandlerCall(Id(p)) \/ UNCHANGED coordVars
<1> USE ProcArguments
<1>1. CASE SeesStage(p) \/ LeavesPollLoop(p) \/ RunsShard(p) \/ LeavesIdle(p)
  BY <1>1 DEF SeesStage, LeavesPollLoop, RunsShard, LeavesIdle
<1>2. CASE Register(p) \/ Deregisters(p) \/ HeartbeatArrives(p)
  BY <1>2 DEF Register, Deregisters, HeartbeatArrives, HandlerCall
<1>3. CASE PullsTask(p) \/ PullsNothing(p)
  BY <1>3 DEF PullsTask, PullsNothing, HandlerCall
<1>4. CASE Reports(p) \/ ReportsError(p)
  BY <1>4 DEF Reports, ReportsError, HandlerCall
<1> QED
  BY <1>1, <1>2, <1>3, <1>4 DEF WorkerStep

\* So is what a fault does.
LEMMA FaultCalls ==
  ASSUME ProcTypeOK, NEW p \in Procs,
         Crash(p) \/ LosesReply(p) \/ GivesUp(p) \/ HeartbeatLoopFails(p)
           \/ Restart(p) \/ KilledByJob(p)
  PROVE  HandlerCall(Id(p)) \/ UNCHANGED coordVars
<1> USE ProcArguments
<1>1. CASE LosesReply(p)
  <2>1. CASE RegisterWorker(Id(p)) \/ DeregisterWorker(Id(p))
    BY <2>1 DEF HandlerCall
  <2>2. CASE \/ PullTask(Id(p), ep[p]) \/ PullNoWorkBackoff(Id(p), ep[p])
             \/ PullStageCompleted(Id(p), ep[p]) \/ PullShutdown(Id(p), ep[p])
    BY <2>2 DEF HandlerCall
  <2>3. CASE \/ ReportResult(Id(p), job[p].shard, job[p].attempt, job[p].stage)
             \/ ReportAsserts(Id(p), job[p].shard) \/ ReportError(Id(p), job[p].shard)
    BY <2>3 DEF HandlerCall
  <2> QED
    BY <1>1, <2>1, <2>2, <2>3 DEF LosesReply
<1>2. CASE Crash(p) \/ GivesUp(p) \/ HeartbeatLoopFails(p) \/ Restart(p) \/ KilledByJob(p)
  BY <1>2 DEF Crash, GivesUp, HeartbeatLoopFails, Restart, KilledByJob
<1> QED
  BY <1>1, <1>2

\* A step of the pool is a step of the coordinator, or none.
LEMMA PoolStepIsCoordStep ==
  ProcTypeOK /\ [Next]_vars => [CoordNext]_coordVars
<1> SUFFICES ASSUME ProcTypeOK, [Next]_vars
             PROVE  [CoordNext]_coordVars
  OBVIOUS
<1>1. CASE RunsPipeline
  BY <1>1 DEF RunsPipeline, CoordNext
<1>2. CASE BackgroundLoop
  <2>1. GroupDone \in BOOLEAN
    BY DEF GroupDone, JobFailed, JobSucceeded
  <2> QED
    BY <1>2, <2>1 DEF BackgroundLoop, CoordNext, BackgroundThread
<1>3. CASE StartsPipelineAgain
  BY <1>3 DEF StartsPipelineAgain, CoordNext
<1>4. ASSUME NEW w \in Slots, HeartbeatTimesOut(w)
      PROVE  CoordNext
  BY <1>4 DEF HeartbeatTimesOut, CoordNext, BackgroundThread
<1>5. ASSUME NEW p \in Procs,
             \/ WorkerStep(p) \/ Restart(p) \/ KilledByJob(p)
             \/ Crash(p) \/ LosesReply(p) \/ GivesUp(p) \/ HeartbeatLoopFails(p)
      PROVE  CoordNext \/ UNCHANGED coordVars
  BY <1>5, WorkerStepCalls, FaultCalls, ProcArguments DEF CoordNext
<1>6. CASE UNCHANGED vars
  BY <1>6 DEF vars
<1> QED
  BY <1>1, <1>2, <1>3, <1>4, <1>5, <1>6 DEF Next

\* Each step of a process keeps the types of the processes.
LEMMA WorkerStepType ==
  ASSUME CoordTypeOK, ProcTypeOK, NEW p \in Procs, WorkerStep(p)
  PROVE  ProcTypeOK'
<1> USE DEF ProcTypeOK, Places, Calls, GoTo
<1>1. NoJob \in Job
  <2>1. 0 \in Shards
    BY CoordinatorAssumption DEF Shards
  <2> QED
    BY <2>1 DEF NoJob, Job
<1>2. CASE SeesStage(p) \/ LeavesPollLoop(p) \/ RunsShard(p) \/ LeavesIdle(p)
             \/ HeartbeatArrives(p)
  BY <1>2 DEF SeesStage, LeavesPollLoop, RunsShard, LeavesIdle, HeartbeatArrives, procVars
<1>3. CASE Register(p)
  BY <1>3 DEF Register, CoordTypeOK, StageTypeOK
<1>4. CASE PullsTask(p)
  <2>1. Assigned \in Task
    BY <1>4 DEF PullsTask, PullTask, Assigned, Task, CoordTypeOK, TaskTypeOK
  <2>2. epoch \in Nat
    BY DEF CoordTypeOK, StageTypeOK
  <2>3. [shard |-> Assigned.shard, attempt |-> Assigned.attempt, stage |-> epoch] \in Job
    BY <2>1, <2>2 DEF Task, Job
  <2> QED
    BY <1>4, <2>3 DEF PullsTask
<1>5. CASE PullsNothing(p)
  BY <1>5 DEF PullsNothing
<1>6. CASE Reports(p)
  BY <1>1, <1>6 DEF Reports
<1>7. CASE ReportsError(p)
  BY <1>1, <1>7 DEF ReportsError
<1>8. CASE Deregisters(p)
  BY <1>8 DEF Deregisters, AfterStage
<1> QED
  BY <1>2, <1>3, <1>4, <1>5, <1>6, <1>7, <1>8 DEF WorkerStep

\* So does each fault.
LEMMA FaultType ==
  ASSUME ProcTypeOK, NEW p \in Procs,
         Crash(p) \/ LosesReply(p) \/ GivesUp(p) \/ HeartbeatLoopFails(p)
           \/ Restart(p) \/ KilledByJob(p)
  PROVE  ProcTypeOK'
<1> USE DEF ProcTypeOK, Places, Calls, GoTo, Fault
<1>1. NoJob \in Job
  <2>1. 0 \in Shards
    BY CoordinatorAssumption DEF Shards
  <2> QED
    BY <2>1 DEF NoJob, Job
<1>2. CASE Crash(p) \/ KilledByJob(p)
  BY <1>1, <1>2 DEF Crash, KilledByJob, Die
<1>3. CASE LosesReply(p)
  BY <1>3 DEF LosesReply, procVars
<1>4. CASE GivesUp(p)
  BY <1>4 DEF GivesUp, AfterStage
<1>5. CASE HeartbeatLoopFails(p)
  BY <1>5 DEF HeartbeatLoopFails
<1>6. CASE Restart(p)
  <2>1. Successor(p) \in Procs
    BY <1>6, PoolAssumption DEF Restart, Successor, Procs
  <2> QED
    BY <1>6, <2>1 DEF Restart
<1> QED
  BY <1>2, <1>3, <1>4, <1>5, <1>6

\* Every step of the pool keeps the types of the processes.
LEMMA PoolStepType ==
  CoordTypeOK /\ ProcTypeOK /\ [Next]_vars => ProcTypeOK'
<1> SUFFICES ASSUME CoordTypeOK, ProcTypeOK, [Next]_vars
             PROVE  ProcTypeOK'
  OBVIOUS
<1>1. CASE RunsPipeline \/ BackgroundLoop \/ StartsPipelineAgain
             \/ \E w \in Slots : HeartbeatTimesOut(w)
  BY <1>1 DEF RunsPipeline, BackgroundLoop, StartsPipelineAgain, HeartbeatTimesOut, Fault,
              procVars, ProcTypeOK
<1>2. ASSUME NEW p \in Procs,
             \/ WorkerStep(p) \/ Restart(p) \/ KilledByJob(p)
             \/ Crash(p) \/ LosesReply(p) \/ GivesUp(p) \/ HeartbeatLoopFails(p)
      PROVE  ProcTypeOK'
  BY <1>2, WorkerStepType, FaultType
<1>3. CASE UNCHANGED vars
  BY <1>3 DEF vars, procVars, ProcTypeOK
<1> QED
  BY <1>1, <1>2, <1>3 DEF Next

\* Every variable of the pool keeps its type, for any number of slots, shards,
\* stages, incarnations and faults.
THEOREM PoolTypeCorrect == Spec => []TypeOK
<1>1. TypeOK <=> CoordTypeOK /\ ProcTypeOK
  BY DEF TypeOK, ProcTypeOK
<1>2. Init => CoordTypeOK /\ ProcTypeOK
  <2> SUFFICES ASSUME Init
               PROVE  CoordTypeOK /\ ProcTypeOK
    OBVIOUS
  <2>1. CoordTypeOK
    BY CoordInitType DEF Init
  <2>2. 0 \in Shards
    BY CoordinatorAssumption DEF Shards
  <2>3. ProcTypeOK
    BY <2>2 DEF Init, ProcTypeOK, Places, NoJob, Job
  <2> QED
    BY <2>1, <2>3
<1>3. CoordTypeOK /\ ProcTypeOK /\ [Next]_vars => (CoordTypeOK /\ ProcTypeOK)'
  BY PoolStepIsCoordStep, CoordStepType, PoolStepType
<1> QED
  BY <1>1, <1>2, <1>3, PTL DEF Spec

\* The pool implements the coordinator: no behaviour of the workers, of Iris or of
\* the RPC layer calls a handler in a way that CoordSpec leaves out.
THEOREM PoolImplementsCoordinator == Spec => CoordSpec
<1>1. Init => CoordInit
  BY DEF Init
<1>2. TypeOK => ProcTypeOK
  BY DEF TypeOK, ProcTypeOK
<1> QED
  BY <1>1, <1>2, PoolTypeCorrect, PoolStepIsCoordStep, PTL DEF Spec, CoordSpec

\* However many faults happen, a shard is never in two hands, or in a hand and in
\* the queue, and a slot's attempt is current.
THEOREM PoolDispatchExclusive == Spec => []DispatchExclusive
BY PoolImplementsCoordinator, CoordDispatchExclusive, PTL

-----------------------------------------------------------------------------
(* What the stages compute. *)

USE DEF Empty

\* A pipeline of a single worker stage.  All faults may happen, and the reply to
\* any call but report_result may be lost.
SingleStage == NumStages = 1 /\ "report" \notin LossyCalls

\* Any number of stages, when processes crash, and when the replies get lost of
\* the calls that may safely run twice.  Then a result is never late.
PromptResults ==
  /\ Faults \subseteq {"crash", "lost"}
  /\ LossyCalls \subseteq {"register", "error", "dereg", "pipeline"}

-----------------------------------------------------------------------------
(* The inductive invariant behind FirstResultWins: at most one process can *)
(* still have its result of a shard accepted, and only while the shard has *)
(* none and is not waiting for somebody else.                              *)

Carries(p) == pc[p] \in {"run", "report"}
Claims(p, s) == Carries(p) /\ job[p].shard = s /\ job[p].attempt = attempts[s]

\* The thread of run_pipeline counts its stages.
StageCount ==
  /\ epoch <= NumStages
  /\ main \in {"next", "opened"} => epoch < NumStages
  /\ main \notin {"next", "opened"} => epoch > 0 /\ totalShards = NumShards

\* Between two stages there is nothing to do.
Rest ==
  main \in {"next", "opened"} =>
    /\ taskQueue = <<>>
    /\ \A w \in Slots : inFlight[w] = NoTask
    /\ \A p \in Procs : ~Carries(p)

\* A process never executes a shard of another stage than the running one.
Timely ==
  \A p \in Procs : Carries(p) =>
    job[p].stage = epoch /\ job[p].attempt <= attempts[job[p].shard]

OneClaim ==
  \A p \in Procs, s \in Shards : Claims(p, s) =>
    /\ results[s] = Empty
    /\ ~Queued(s)
    /\ \A w \in Slots : Holds(w, s) => w = Id(p)
    /\ \A q \in Procs : Claims(q, s) => q = p

Pending ==
  \A s \in Shards : Queued(s) \/ (\E w \in Slots : Holds(w, s)) => results[s] = Empty

OwnResults == \A s \in Shards : results[s] \in {Empty, epoch}
Counted == completed = Cardinality(Done)

ClaimInv == Timely /\ OneClaim /\ Pending /\ OwnResults /\ Counted
OnceInv == StageCount /\ Rest /\ ClaimInv

-----------------------------------------------------------------------------
(* What the operations do to the tasks.                                    *)

\* _record_shard_failure for a slot that has a shard in flight.
LEMMA FailureEffect ==
  ASSUME TaskTypeOK, NEW w \in Slots, NEW kind \in {"task", "infra"},
         RecordShardFailure(w, kind), inFlight[w] # NoTask,
         NEW s, s = inFlight[w].shard
  PROVE  /\ s \in Shards /\ Holds(w, s)
         /\ inFlight' = [inFlight EXCEPT ![w] = NoTask]
         /\ attempts' = [attempts EXCEPT ![s] = @ + 1]
         /\ \A t \in Shards : Queued(t)' => Queued(t) \/ t = s
         /\ \A t \in Shards : Queued(t) => Queued(t)'
         /\ fatal' # "none" \/ (Queued(s)' /\ fatal' = fatal)
         /\ results' = results /\ completed' = completed
<1>1. s \in Shards /\ Holds(w, s)
  BY DEF TaskTypeOK, Task, Holds
<1>2. /\ inFlight' = [inFlight EXCEPT ![w] = NoTask]
      /\ attempts' = [attempts EXCEPT ![s] = @ + 1]
      /\ results' = results /\ completed' = completed
  BY DEF RecordShardFailure, CountFailure
<1>3. CASE CapReached(w, kind)
  <2>1. taskQueue' = taskQueue /\ fatal' = kind
    BY <1>3 DEF RecordShardFailure
  <2> QED
    BY <1>1, <1>2, <2>1 DEF Queued
<1>4. CASE ~CapReached(w, kind)
  <2>1. taskQueue' = Append(taskQueue, s) /\ fatal' = fatal
    BY <1>4 DEF RecordShardFailure
  <2>2. /\ Len(taskQueue) \in Nat /\ Len(taskQueue') = Len(taskQueue) + 1
        /\ \A i \in 1 .. Len(taskQueue) : taskQueue'[i] = taskQueue[i]
        /\ taskQueue'[Len(taskQueue) + 1] = s
    BY <1>1, <2>1 DEF TaskTypeOK
  <2>3. Queued(s)'
    BY <2>2 DEF Queued
  <2>4. \A t \in Shards : Queued(t)' => Queued(t) \/ t = s
    BY <2>2 DEF Queued
  <2>5. \A t \in Shards : Queued(t) => Queued(t)'
    BY <2>2 DEF Queued
  <2> QED
    BY <1>1, <1>2, <2>1, <2>3, <2>4, <2>5
<1> QED
  BY <1>3, <1>4

\* pull_task when there is a task to give away.
LEMMA PullEffect ==
  ASSUME TaskTypeOK, DispatchExclusive, NEW w \in Slots, NEW e, PullTask(w, e),
         NEW h, h = Head(taskQueue)
  PROVE  /\ h \in Shards /\ Queued(h) /\ taskQueue # <<>>
         /\ \A t \in Shards : Queued(t)' <=> Queued(t) /\ t # h
         /\ inFlight' = [inFlight EXCEPT ![w] = [shard |-> h, attempt |-> attempts[h]]]
         /\ Assigned = [shard |-> h, attempt |-> attempts[h]]
         /\ UNCHANGED <<attempts, results, completed, fatal, epoch, main, registered>>
<1>1. /\ h \in Shards /\ taskQueue[1] = h /\ taskQueue' = Tail(taskQueue)
      /\ Len(taskQueue) \in Nat \ {0} /\ Len(taskQueue') = Len(taskQueue) - 1
      /\ \A i \in 1 .. Len(taskQueue') : taskQueue'[i] = taskQueue[i + 1]
  BY DEF PullTask, TaskTypeOK
<1>2. Queued(h)
  BY <1>1 DEF Queued
<1>3. ASSUME NEW t \in Shards, Queued(t)'
      PROVE  Queued(t) /\ t # h
  <2>1. PICK i \in 1 .. Len(taskQueue') : taskQueue'[i] = t
    BY <1>3 DEF Queued
  <2>2. i + 1 \in 1 .. Len(taskQueue) /\ 1 \in 1 .. Len(taskQueue) /\ i + 1 # 1
    BY <1>1
  <2>3. taskQueue[i + 1] = t
    BY <1>1, <2>1
  <2> QED
    BY <1>1, <2>2, <2>3 DEF DispatchExclusive, QueueDistinct, Queued
<1>4. ASSUME NEW t \in Shards, Queued(t), t # h
      PROVE  Queued(t)'
  <2>1. PICK i \in 1 .. Len(taskQueue) : taskQueue[i] = t
    BY <1>4 DEF Queued
  <2>2. i - 1 \in 1 .. Len(taskQueue') /\ (i - 1) + 1 = i
    BY <1>1, <1>4, <2>1
  <2>3. taskQueue'[i - 1] = t
    BY <1>1, <2>1, <2>2
  <2> QED
    BY <2>2, <2>3 DEF Queued
<1>5. inFlight' = [inFlight EXCEPT ![w] = [shard |-> h, attempt |-> attempts[h]]]
  BY DEF PullTask, Assigned
<1>6. UNCHANGED <<attempts, results, completed, fatal, epoch, main, registered>>
  BY DEF PullTask, PullSeen, stageVars, threadVars
<1>7. Assigned = [shard |-> h, attempt |-> attempts[h]]
  BY DEF Assigned
<1>8. taskQueue # <<>>
  BY DEF PullTask
<1> QED
  BY <1>1, <1>2, <1>3, <1>4, <1>5, <1>6, <1>7, <1>8

\* An accepted result of a process with a claim is the shard's first one.
LEMMA DoneGrows ==
  ASSUME TaskTypeOK, NEW s \in Shards, NEW k \in Nat \ {0}, results[s] = Empty,
         results' = [results EXCEPT ![s] = k], Counted, completed' = completed + 1
  PROVE  Counted' /\ Done' = Done \cup {s} /\ s \notin Done
<1>1. Done' = Done \cup {s} /\ s \notin Done
  BY DEF Done, TaskTypeOK
<1>2. IsFiniteSet(Shards)
  BY FS_Interval, CoordinatorAssumption DEF Shards
<1>3. Done \in SUBSET Shards
  BY DEF Done
<1>4. IsFiniteSet(Done)
  BY <1>2, <1>3, FS_Subset
<1>5. Cardinality(Done \cup {s}) = Cardinality(Done) + 1
  BY <1>1, <1>4, FS_AddElement
<1> QED
  BY <1>1, <1>5 DEF Counted

-----------------------------------------------------------------------------
(* Each effect keeps ClaimInv.                                             *)

\* No process begins to carry a shard in this step.
Shrinks == \A p \in Procs : Carries(p)' => Carries(p) /\ job'[p] = job[p]

\* A step that changes neither the tasks nor the stage.
LEMMA QuietClaims ==
  ASSUME ClaimInv, Shrinks,
         UNCHANGED <<taskQueue, inFlight, attempts, results, completed, epoch>>
  PROVE  ClaimInv'
<1> USE DEF Shrinks
<1>1. \A s \in Shards : Queued(s)' <=> Queued(s)
  BY DEF Queued
<1>2. \A w \in Slots, s \in Shards : Holds(w, s)' <=> Holds(w, s)
  BY DEF Holds
<1>3. \A p \in Procs, s \in Shards : Claims(p, s)' => Claims(p, s)
  BY DEF Claims
<1>4. Timely'
  BY DEF ClaimInv, Timely
<1>5. OneClaim'
  BY <1>1, <1>2, <1>3 DEF ClaimInv, OneClaim
<1>6. Pending'
  BY <1>1, <1>2 DEF ClaimInv, Pending
<1>7. OwnResults' /\ Counted'
  BY DEF ClaimInv, OwnResults, Counted, Done
<1> QED
  BY <1>4, <1>5, <1>6, <1>7 DEF ClaimInv

\* A failure of the slot's shard ends the claims to it.
LEMMA FailureClaims ==
  ASSUME TaskTypeOK, ProcTypeOK, DispatchExclusive, ClaimInv, Shrinks, epoch' = epoch,
         NEW w \in Slots, NEW kind \in {"task", "infra"}, RecordShardFailure(w, kind)
  PROVE  ClaimInv'
<1>1. CASE inFlight[w] = NoTask
  <2>1. UNCHANGED <<taskQueue, inFlight, attempts, results, completed>>
    BY <1>1 DEF RecordShardFailure
  <2> QED
    BY <2>1, QuietClaims
<1>2. CASE inFlight[w] # NoTask
  <2> DEFINE s == inFlight[w].shard
  <2>1. /\ s \in Shards /\ Holds(w, s)
        /\ inFlight' = [inFlight EXCEPT ![w] = NoTask]
        /\ attempts' = [attempts EXCEPT ![s] = @ + 1]
        /\ \A t \in Shards : Queued(t)' => Queued(t) \/ t = s
        /\ results' = results /\ completed' = completed
    BY <1>2, FailureEffect
  <2> HIDE DEF s
  <2>2. attempts'[s] = attempts[s] + 1 /\ attempts[s] \in Nat
    BY <2>1 DEF TaskTypeOK
  <2>3. \A t \in Shards : t # s => attempts'[t] = attempts[t]
    BY <2>1 DEF TaskTypeOK
  <2>4. \A v \in Slots, t \in Shards : Holds(v, t)' => Holds(v, t)
    BY <2>1 DEF TaskTypeOK, Holds
  <2>5. \A p \in Procs : Carries(p)' =>
           /\ Carries(p) /\ job'[p] = job[p] /\ job[p].shard \in Shards
           /\ job[p].attempt \in Nat /\ job[p].attempt <= attempts[job[p].shard]
           /\ attempts[job[p].shard] \in Nat
    BY DEF Shrinks, ClaimInv, Timely, ProcTypeOK, Job, TaskTypeOK
  <2>6. Timely'
    <3>1. \A p \in Procs : Carries(p)' => job'[p].attempt <= attempts'[job'[p].shard]
      BY <2>2, <2>3, <2>5
    <3> QED
      BY <3>1 DEF Shrinks, ClaimInv, Timely
  <2>7. \A p \in Procs, t \in Shards : Claims(p, t)' => Claims(p, t) /\ t # s
    <3>1. \A p \in Procs : Carries(p)' /\ job'[p].shard = s => job'[p].attempt # attempts'[s]
      BY <2>2, <2>5
    <3> QED
      BY <2>3, <2>5, <3>1 DEF Claims
  <2>8. OneClaim'
    BY <2>1, <2>4, <2>7 DEF ClaimInv, OneClaim
  <2>9. Pending'
    BY <2>1, <2>4 DEF ClaimInv, Pending
  <2>10. OwnResults' /\ Counted'
    BY <2>1 DEF ClaimInv, OwnResults, Counted, Done
  <2> QED
    BY <2>6, <2>8, <2>9, <2>10 DEF ClaimInv
<1> QED
  BY <1>1, <1>2

\* A task whose reply is lost stays with the slot, and no process claims it.
LEMMA LostPullClaims ==
  ASSUME TaskTypeOK, DispatchExclusive, ClaimInv, Shrinks,
         NEW w \in Slots, NEW e, PullTask(w, e)
  PROVE  ClaimInv'
<1> DEFINE h == Head(taskQueue)
<1>1. /\ h \in Shards /\ Queued(h)
      /\ \A t \in Shards : Queued(t)' <=> Queued(t) /\ t # h
      /\ inFlight' = [inFlight EXCEPT ![w] = [shard |-> h, attempt |-> attempts[h]]]
      /\ UNCHANGED <<attempts, results, completed, epoch>>
  BY PullEffect
<1> HIDE DEF h
<1>2. \A v \in Slots, t \in Shards : Holds(v, t)' => Holds(v, t) \/ t = h
  BY <1>1 DEF TaskTypeOK, Holds
<1>3. \A p \in Procs, t \in Shards : Claims(p, t)' => Claims(p, t) /\ t # h
  BY <1>1 DEF Shrinks, Claims, ClaimInv, OneClaim
<1>4. Timely'
  BY <1>1 DEF Shrinks, ClaimInv, Timely
<1>5. OneClaim'
  BY <1>1, <1>2, <1>3 DEF ClaimInv, OneClaim
<1>6. Pending'
  BY <1>1, <1>2 DEF ClaimInv, Pending
<1>7. OwnResults' /\ Counted'
  BY <1>1 DEF ClaimInv, OwnResults, Counted, Done
<1> QED
  BY <1>4, <1>5, <1>6, <1>7 DEF ClaimInv

\* A task that arrives gives its process the one claim to the shard.
LEMMA PullsTaskClaims ==
  ASSUME CoordTypeOK, ProcTypeOK, DispatchExclusive, ClaimInv, NEW p \in Procs, PullsTask(p)
  PROVE  ClaimInv'
<1> DEFINE h == Head(taskQueue)
           w == Id(p)
<1>1. /\ h \in Shards /\ Queued(h)
      /\ \A t \in Shards : Queued(t)' <=> Queued(t) /\ t # h
      /\ inFlight' = [inFlight EXCEPT ![w] = [shard |-> h, attempt |-> attempts[h]]]
      /\ Assigned = [shard |-> h, attempt |-> attempts[h]]
      /\ UNCHANGED <<attempts, results, completed, epoch>>
  BY PullEffect, ProcArguments DEF PullsTask, CoordTypeOK
<1>2. pc'[p] = "run" /\ job'[p] = [shard |-> h, attempt |-> attempts[h], stage |-> epoch]
  BY <1>1 DEF PullsTask, GoTo, ProcTypeOK
<1>3. \A q \in Procs : q # p => pc'[q] = pc[q] /\ job'[q] = job[q]
  BY DEF PullsTask, GoTo, ProcTypeOK
<1>4. w \in Slots /\ attempts[h] \in Nat
  BY <1>1, ProcArguments DEF CoordTypeOK, TaskTypeOK
<1>5. \A q \in Procs, t \in Shards : Claims(q, t) => t # h
  BY <1>1 DEF ClaimInv, OneClaim
<1>6. \A v \in Slots, t \in Shards : Holds(v, t)' => (Holds(v, t) /\ t # h) \/ (v = w /\ t = h)
  <2>1. \A v \in Slots, t \in Shards : Holds(v, t) => t # h
    BY <1>1 DEF DispatchExclusive, HeldNotQueued
  <2> QED
    BY <1>1, <1>4, <2>1 DEF CoordTypeOK, TaskTypeOK, Holds
<1> HIDE DEF h, w
<1>7. \A q \in Procs, t \in Shards : Claims(q, t)' =>
         (q # p /\ Claims(q, t) /\ t # h) \/ (q = p /\ t = h)
  BY <1>1, <1>2, <1>3, <1>5 DEF Claims, Carries
<1>8. Timely'
  <2> SUFFICES ASSUME NEW q \in Procs, Carries(q)'
               PROVE  job'[q].stage = epoch' /\ job'[q].attempt <= attempts'[job'[q].shard]
    BY DEF Timely
  <2>1. CASE q = p
    BY <1>1, <1>2, <1>4, <2>1
  <2>2. CASE q # p
    BY <1>1, <1>3, <2>2 DEF ClaimInv, Timely, Carries
  <2> QED
    BY <2>1, <2>2
<1>9. OneClaim'
  <2> SUFFICES ASSUME NEW q \in Procs, NEW t \in Shards, Claims(q, t)'
               PROVE  /\ results'[t] = Empty /\ ~Queued(t)'
                      /\ \A v \in Slots : Holds(v, t)' => v = Id(q)
                      /\ \A r \in Procs : Claims(r, t)' => r = q
    BY DEF OneClaim
  <2>1. CASE q # p /\ Claims(q, t) /\ t # h
    BY <1>1, <1>6, <1>7, <2>1 DEF ClaimInv, OneClaim
  <2>2. CASE q = p /\ t = h
    <3>1. results'[h] = Empty
      BY <1>1 DEF ClaimInv, Pending
    <3> QED
      BY <1>1, <1>6, <1>7, <2>2, <3>1 DEF w
  <2> QED
    BY <1>7, <2>1, <2>2
<1>10. Pending'
  BY <1>1, <1>6 DEF ClaimInv, Pending
<1>11. OwnResults' /\ Counted'
  BY <1>1 DEF ClaimInv, OwnResults, Counted, Done
<1> QED
  BY <1>8, <1>9, <1>10, <1>11 DEF ClaimInv

\* An accepted result ends the claim it rests on, and is the shard's first.
LEMMA AcceptedClaims ==
  ASSUME CoordTypeOK, ProcTypeOK, OnceInv, NEW p \in Procs, Reports(p),
         ReportAccepted(Id(p), job[p].shard, job[p].attempt, job[p].stage)
  PROVE  /\ Rest' /\ ClaimInv' /\ epoch' = epoch
         /\ results[job[p].shard] = Empty /\ epoch > 0
         /\ results' = [results EXCEPT ![job[p].shard] = epoch]
<1> DEFINE s == job[p].shard
           w == Id(p)
<1>1. s \in Shards /\ w \in Slots /\ Carries(p) /\ pc[p] = "report"
  BY ProcArguments DEF Reports, Carries
<1>2. job[p].stage = epoch /\ epoch \in Nat \ {0} /\ main \notin {"next", "opened"}
  BY <1>1 DEF OnceInv, ClaimInv, Timely, Rest, StageCount, CoordTypeOK, StageTypeOK
<1>3. Claims(p, s)
  BY <1>1 DEF Claims, ReportAccepted
<1>4. /\ results' = [results EXCEPT ![s] = epoch] /\ completed' = completed + 1
      /\ inFlight' = [inFlight EXCEPT ![w] = NoTask]
      /\ UNCHANGED <<taskQueue, attempts, epoch, main>>
  BY <1>2 DEF ReportAccepted, stageVars, threadVars
<1>5. Carries(p)' => FALSE
  <2>1. pc'[p] \in {"poll", "error"}
    BY DEF Reports, GoTo, ProcTypeOK
  <2> QED
    BY <2>1 DEF Carries
<1>6. \A q \in Procs : q # p => pc'[q] = pc[q] /\ job'[q] = job[q]
  BY DEF Reports, GoTo, ProcTypeOK
<1> HIDE DEF s, w
<1>7. results[s] = Empty /\ ~Queued(s) /\ \A v \in Slots : Holds(v, s) => v = w
  BY <1>1, <1>3 DEF OnceInv, ClaimInv, OneClaim, w
<1>8. \A v \in Slots, t \in Shards : Holds(v, t)' => Holds(v, t) /\ t # s
  BY <1>1, <1>4, <1>7 DEF CoordTypeOK, TaskTypeOK, Holds
<1>9. \A t \in Shards : Queued(t)' <=> Queued(t)
  BY <1>4 DEF Queued
<1>10. \A q \in Procs : Carries(q)' => q # p /\ Carries(q) /\ job'[q] = job[q]
  BY <1>5, <1>6 DEF Carries
<1>11. \A q \in Procs, t \in Shards : Claims(q, t)' => Claims(q, t) /\ t # s
  <2>1. \A q \in Procs : Claims(q, s) => q = p
    BY <1>1, <1>3 DEF OnceInv, ClaimInv, OneClaim
  <2>2. \A q \in Procs, t \in Shards : Claims(q, t)' => Claims(q, t) /\ q # p
    BY <1>4, <1>10 DEF Claims
  <2> QED
    BY <2>1, <2>2
<1>12. \A t \in Shards : t # s => results'[t] = results[t]
  BY <1>4 DEF CoordTypeOK, TaskTypeOK
<1>13. Timely'
  BY <1>4, <1>10 DEF OnceInv, ClaimInv, Timely
<1>14. OneClaim'
  BY <1>8, <1>9, <1>11, <1>12 DEF OnceInv, ClaimInv, OneClaim
<1>15. Pending'
  BY <1>7, <1>8, <1>9, <1>12 DEF OnceInv, ClaimInv, Pending
<1>16. OwnResults'
  <2>1. results'[s] = epoch
    BY <1>1, <1>4 DEF CoordTypeOK, TaskTypeOK
  <2> QED
    BY <1>4, <1>12, <2>1 DEF OnceInv, ClaimInv, OwnResults
<1>17. Counted'
  BY <1>1, <1>2, <1>4, <1>7, DoneGrows DEF CoordTypeOK, OnceInv, ClaimInv
<1>18. Rest'
  BY <1>2, <1>4 DEF Rest
<1> QED
  BY <1>2, <1>4, <1>7, <1>13, <1>14, <1>15, <1>16, <1>17, <1>18 DEF ClaimInv, s

\* _start_stage begins with no result and no claim.
LEMMA StartStageClaims ==
  ASSUME Rest, StartStage, UNCHANGED procVars
  PROVE  ClaimInv'
<1>1. \A p \in Procs : ~Carries(p)'
  BY DEF Rest, StartStage, Carries, procVars
<1>2. \A s \in Shards : results'[s] = Empty
  BY DEF StartStage
<1>3. Timely' /\ OneClaim'
  BY <1>1 DEF Timely, OneClaim, Claims
<1>4. Pending' /\ OwnResults'
  BY <1>2 DEF Pending, OwnResults
<1>5. Counted'
  <2>1. Done' = {}
    BY <1>2 DEF Done
  <2>2. completed' = 0
    BY DEF StartStage
  <2> QED
    BY <2>1, <2>2, FS_EmptySet DEF Counted
<1> QED
  BY <1>3, <1>4, <1>5 DEF ClaimInv

-----------------------------------------------------------------------------
(* Each step keeps OnceInv.                                                *)

\* A call of a handler that gives away no task and accepts no result.
OtherCall(w) ==
  \/ RegisterWorker(w) \/ DeregisterWorker(w) \/ Heartbeat(w)
  \/ \E e \in Nat : PullShutdown(w, e) \/ PullStageCompleted(w, e) \/ PullNoWorkBackoff(w, e)
  \/ \E s \in Shards : \/ ReportAsserts(w, s) \/ ReportError(w, s)
                       \/ \E a \in Nat : ReportStaleResult(w, s, a)

Accepted(p) ==
  Reports(p) /\ ReportAccepted(Id(p), job[p].shard, job[p].attempt, job[p].stage)

LostPull(p) == "poll" \in LossyCalls /\ PullTask(Id(p), ep[p])

\* Such a call changes nothing of the tasks, or fails the slot's shard.
LEMMA OtherCallEffect ==
  ASSUME NEW w \in Slots, OtherCall(w) \/ CheckHeartbeats(w)
  PROVE  /\ UNCHANGED <<stageVars, main, inputs>>
         /\ \/ UNCHANGED <<taskVars, fatal>>
            \/ \E kind \in {"task", "infra"} : RecordShardFailure(w, kind)
<1>1. UNCHANGED <<stageVars, main, inputs>>
  BY DEF OtherCall, CheckHeartbeats, RegisterWorker, DeregisterWorker, Heartbeat, PullShutdown,
         PullStageCompleted, PullNoWorkBackoff, PullSeen, ReportAsserts, ReportError,
         ReportStaleResult, stageVars, threadVars
<1>2. CASE RegisterWorker(w) \/ CheckHeartbeats(w)
  BY <1>1, <1>2 DEF RegisterWorker, CheckHeartbeats
<1>3. CASE DeregisterWorker(w) \/ Heartbeat(w)
  BY <1>1, <1>3 DEF DeregisterWorker, Heartbeat
<1>4. CASE \E e \in Nat : PullShutdown(w, e) \/ PullStageCompleted(w, e) \/ PullNoWorkBackoff(w, e)
  BY <1>1, <1>4 DEF PullShutdown, PullStageCompleted, PullNoWorkBackoff, PullSeen, taskVars
<1>5. CASE \E s \in Shards : ReportAsserts(w, s) \/ \E a \in Nat : ReportStaleResult(w, s, a)
  BY <1>1, <1>5 DEF ReportAsserts, ReportStaleResult
<1>6. CASE \E s \in Shards : ReportError(w, s)
  BY <1>1, <1>6 DEF ReportError
<1> QED
  BY <1>2, <1>3, <1>4, <1>5, <1>6 DEF OtherCall

\* A process takes a task, has its result accepted, or makes some other call.
LEMMA WorkerStepKinds ==
  ASSUME ProcTypeOK, NEW p \in Procs, WorkerStep(p)
  PROVE  \/ PullsTask(p) \/ Accepted(p)
         \/ Shrinks /\ (OtherCall(Id(p)) \/ UNCHANGED coordVars)
<1> USE ProcArguments
<1>1. CASE SeesStage(p) \/ LeavesPollLoop(p) \/ RunsShard(p) \/ LeavesIdle(p)
  <2>1. Shrinks
    BY <1>1 DEF SeesStage, LeavesPollLoop, RunsShard, LeavesIdle, GoTo, Shrinks, Carries, ProcTypeOK
  <2> QED
    BY <1>1, <2>1 DEF SeesStage, LeavesPollLoop, RunsShard, LeavesIdle
<1>2. CASE Register(p) \/ Deregisters(p) \/ HeartbeatArrives(p)
  <2>1. Shrinks
    BY <1>2 DEF Register, Deregisters, AfterStage, HeartbeatArrives, GoTo, Shrinks, Carries,
                ProcTypeOK, procVars
  <2>2. OtherCall(Id(p))
    BY <1>2 DEF Register, Deregisters, HeartbeatArrives, OtherCall
  <2> QED
    BY <2>1, <2>2
<1>3. CASE PullsNothing(p)
  <2>1. Shrinks
    BY <1>3 DEF PullsNothing, GoTo, Shrinks, Carries, ProcTypeOK
  <2>2. OtherCall(Id(p))
    BY <1>3 DEF PullsNothing, OtherCall
  <2> QED
    BY <2>1, <2>2
<1>4. CASE Reports(p) /\ ~Accepted(p)
  <2>1. Shrinks
    BY <1>4 DEF Reports, GoTo, Shrinks, Carries, ProcTypeOK
  <2>2. OtherCall(Id(p))
    BY <1>4 DEF Reports, ReportResult, Accepted, OtherCall
  <2> QED
    BY <2>1, <2>2
<1>5. CASE ReportsError(p)
  <2>1. Shrinks
    BY <1>5 DEF ReportsError, GoTo, Shrinks, Carries, ProcTypeOK
  <2>2. OtherCall(Id(p))
    BY <1>5 DEF ReportsError, OtherCall
  <2> QED
    BY <2>1, <2>2
<1> QED
  BY <1>1, <1>2, <1>3, <1>4, <1>5 DEF WorkerStep

\* A fault makes some other call, or none, or loses a task, unless it loses the
\* reply to a report.
LEMMA FaultKindsOfStep ==
  ASSUME ProcTypeOK, "report" \notin LossyCalls, NEW p \in Procs,
         Crash(p) \/ LosesReply(p) \/ GivesUp(p) \/ HeartbeatLoopFails(p)
           \/ Restart(p) \/ KilledByJob(p)
  PROVE  Shrinks /\ (OtherCall(Id(p)) \/ LostPull(p) \/ UNCHANGED coordVars)
<1> USE ProcArguments
<1>1. CASE Crash(p) \/ KilledByJob(p)
  <2>1. Shrinks
    BY <1>1 DEF Crash, KilledByJob, Die, GoTo, Shrinks, Carries, ProcTypeOK
  <2> QED
    BY <1>1, <2>1 DEF Crash, KilledByJob
<1>2. CASE GivesUp(p) \/ HeartbeatLoopFails(p)
  <2>1. Shrinks
    BY <1>2 DEF GivesUp, HeartbeatLoopFails, AfterStage, GoTo, Shrinks, Carries, ProcTypeOK
  <2> QED
    BY <1>2, <2>1 DEF GivesUp, HeartbeatLoopFails
<1>3. CASE Restart(p)
  <2>1. Shrinks
    BY <1>3 DEF Restart, GoTo, Shrinks, Carries, ProcTypeOK
  <2> QED
    BY <1>3, <2>1 DEF Restart
<1>4. CASE LosesReply(p)
  <2>1. Shrinks
    BY <1>4 DEF LosesReply, procVars, Shrinks, Carries
  <2>2. OtherCall(Id(p)) \/ LostPull(p)
    <3>1. CASE RegisterWorker(Id(p)) \/ DeregisterWorker(Id(p))
      BY <3>1 DEF OtherCall
    <3>2. CASE \/ PullNoWorkBackoff(Id(p), ep[p]) \/ PullStageCompleted(Id(p), ep[p])
               \/ PullShutdown(Id(p), ep[p])
      BY <3>2 DEF OtherCall
    <3>3. CASE ReportError(Id(p), job[p].shard) \/ ReportAsserts(Id(p), job[p].shard)
      BY <3>3 DEF OtherCall
    <3> QED
      BY <1>4, <3>1, <3>2, <3>3 DEF LosesReply, LostPull
  <2> QED
    BY <2>1, <2>2
<1> QED
  BY <1>1, <1>2, <1>3, <1>4

\* Such a call keeps the claims, the results and the stage.
LEMMA OtherCallOnce ==
  ASSUME CoordTypeOK, ProcTypeOK, DispatchExclusive, OnceInv, Shrinks,
         NEW w \in Slots, OtherCall(w) \/ CheckHeartbeats(w)
  PROVE  Rest' /\ ClaimInv' /\ results' = results
<1>1. epoch' = epoch /\ main' = main
  BY OtherCallEffect DEF stageVars
<1>2. CASE UNCHANGED taskVars
  <2>1. ClaimInv'
    BY <1>1, <1>2, QuietClaims DEF taskVars, OnceInv
  <2>2. Rest'
    BY <1>1, <1>2 DEF taskVars, OnceInv, Rest, Shrinks
  <2> QED
    BY <1>2, <2>1, <2>2 DEF taskVars
<1>3. ASSUME NEW kind \in {"task", "infra"}, RecordShardFailure(w, kind)
      PROVE  Rest' /\ ClaimInv' /\ results' = results
  <2>1. ClaimInv'
    BY <1>1, <1>3, FailureClaims DEF CoordTypeOK, OnceInv
  <2>2. Rest'
    <3>1. inFlight[w] = NoTask => UNCHANGED <<taskQueue, inFlight>>
      BY <1>3 DEF RecordShardFailure
    <3> QED
      BY <1>1, <3>1 DEF OnceInv, Rest, Shrinks
  <2> QED
    BY <1>3, <2>1, <2>2 DEF RecordShardFailure
<1> QED
  BY <1>2, <1>3, OtherCallEffect

\* So does a task that gets lost on its way.
LEMMA LostPullOnce ==
  ASSUME CoordTypeOK, DispatchExclusive, OnceInv, Shrinks, NEW p \in Procs, LostPull(p),
         Id(p) \in Slots
  PROVE  Rest' /\ ClaimInv' /\ results' = results
<1>1. ClaimInv'
  BY LostPullClaims DEF LostPull, CoordTypeOK, OnceInv
<1>2. taskQueue # <<>> /\ results' = results /\ main' = main
  BY DEF LostPull, PullTask, PullSeen, threadVars
<1>3. Rest'
  BY <1>2 DEF OnceInv, Rest
<1> QED
  BY <1>1, <1>2, <1>3

\* run_pipeline numbers its stages from 1 to NumStages.
LEMMA StageCountStep ==
  ASSUME CoordTypeOK, StageCount, [CoordNext]_coordVars
  PROVE  StageCount'
<1>1. NumStages \in Nat \ {0} /\ epoch \in Nat
  BY CoordinatorAssumption DEF CoordTypeOK, StageTypeOK
<1>2. ASSUME UNCHANGED <<epoch, totalShards, main>>
      PROVE  StageCount'
  BY <1>2 DEF StageCount
<1>3. CASE MainThread
  BY <1>1, <1>3 DEF MainThread, OpenStage, StartStage, StageCompletes, StageFails,
     MarkStageComplete, CollectResults, Shutdown, StageCount, stageVars
<1>4. CASE RunPipelineAgain \/ BackgroundThread
  BY <1>2, <1>4 DEF RunPipelineAgain, BackgroundThread, CheckWorkerGroup, WorkerGroupAnswer,
     CheckHeartbeats, stageVars, threadVars
<1>5. CASE \E w \in Slots : HandlerCall(w)
  BY <1>2, <1>5 DEF HandlerCall, RegisterWorker, DeregisterWorker, Heartbeat, PullShutdown,
     PullStageCompleted, PullNoWorkBackoff, PullTask, PullSeen, ReportAsserts, ReportError,
     ReportResult, ReportStaleResult, ReportAccepted, stageVars, threadVars
<1>6. CASE UNCHANGED coordVars
  BY <1>2, <1>6 DEF coordVars, stageVars, threadVars
<1> QED
  BY <1>3, <1>4, <1>5, <1>6 DEF CoordNext

\* What a step may do to the results that are there.
KeepsResults ==
  epoch' = epoch => \A s \in Shards : results[s] # Empty => results'[s] = results[s]

\* run_pipeline's own steps, when a stage is over only once nothing is left to do.
LEMMA MainThreadOnce ==
  ASSUME CoordTypeOK, OnceInv, RunsPipeline, CollectResults /\ main' = "next" => Rest'
  PROVE  Rest' /\ ClaimInv' /\ KeepsResults
<1> USE DEF RunsPipeline
<1>1. CASE StartStage
  <2>1. ClaimInv'
    BY <1>1, StartStageClaims DEF OnceInv
  <2>2. Rest' /\ epoch' # epoch
    BY <1>1 DEF StartStage, Rest, CoordTypeOK, StageTypeOK
  <2> QED
    BY <2>1, <2>2 DEF KeepsResults
<1>2. CASE OpenStage \/ StageCompletes \/ StageFails \/ MarkStageComplete \/ CollectResults \/ Shutdown
  <2>1. /\ UNCHANGED <<taskQueue, inFlight, attempts, results, completed, epoch>>
        /\ \/ main' \notin {"next", "opened"} \/ main \in {"next", "opened"}
           \/ CollectResults /\ main' = "next"
    BY <1>2 DEF OpenStage, StageCompletes, StageFails, MarkStageComplete, CollectResults, Shutdown,
       taskVars, stageVars
  <2>2. Shrinks
    BY DEF Shrinks, Carries, procVars
  <2>3. ClaimInv'
    BY <2>1, <2>2, QuietClaims DEF OnceInv
  <2>4. Rest'
    BY <2>1, <2>2 DEF OnceInv, Rest, Shrinks
  <2> QED
    BY <2>1, <2>3, <2>4 DEF KeepsResults
<1> QED
  BY <1>1, <1>2 DEF MainThread

\* Every step of the pool, unless a reply to a report is lost.
LEMMA StepOnce ==
  ASSUME CoordTypeOK, ProcTypeOK, DispatchExclusive, OnceInv, "report" \notin LossyCalls,
         RunsPipeline /\ CollectResults /\ main' = "next" => Rest', [Next]_vars
  PROVE  OnceInv' /\ KeepsResults
<1>1. StageCount'
  BY StageCountStep, PoolStepIsCoordStep DEF OnceInv
<1>2. CASE RunsPipeline
  BY <1>1, <1>2, MainThreadOnce DEF OnceInv
<1>3. CASE BackgroundLoop \/ StartsPipelineAgain \/ UNCHANGED vars
  <2>1. UNCHANGED <<taskQueue, inFlight, attempts, results, completed, epoch, main>>
    BY <1>3 DEF BackgroundLoop, StartsPipelineAgain, CheckWorkerGroup, WorkerGroupAnswer,
       RunPipelineAgain, vars, coordVars, taskVars, stageVars, threadVars
  <2>2. Shrinks
    BY <1>3 DEF BackgroundLoop, StartsPipelineAgain, vars, procVars, Shrinks, Carries
  <2>3. ClaimInv'
    BY <2>1, <2>2, QuietClaims DEF OnceInv
  <2>4. Rest'
    BY <2>1, <2>2 DEF OnceInv, Rest, Shrinks
  <2> QED
    BY <1>1, <2>1, <2>3, <2>4 DEF KeepsResults, OnceInv
<1>4. ASSUME NEW w \in Slots, HeartbeatTimesOut(w)
      PROVE  Rest' /\ ClaimInv' /\ KeepsResults
  <2>1. Shrinks /\ CheckHeartbeats(w)
    BY <1>4 DEF HeartbeatTimesOut, procVars, Shrinks, Carries
  <2> QED
    BY <2>1, OtherCallOnce DEF KeepsResults
<1>5. ASSUME NEW p \in Procs, PullsTask(p)
      PROVE  Rest' /\ ClaimInv' /\ KeepsResults
  <2>1. ClaimInv'
    BY <1>5, PullsTaskClaims DEF OnceInv
  <2>2. taskQueue # <<>> /\ main' = main /\ results' = results
    BY <1>5 DEF PullsTask, PullTask, PullSeen, threadVars
  <2>3. Rest'
    BY <2>2 DEF OnceInv, Rest
  <2> QED
    BY <2>1, <2>2, <2>3 DEF KeepsResults
<1>6. ASSUME NEW p \in Procs, Accepted(p)
      PROVE  Rest' /\ ClaimInv' /\ KeepsResults
  <2>1. Rest' /\ ClaimInv'
    BY <1>6, AcceptedClaims DEF Accepted
  <2>2. /\ results[job[p].shard] = Empty
        /\ results' = [results EXCEPT ![job[p].shard] = epoch]
    BY <1>6, AcceptedClaims DEF Accepted
  <2>3. \A s \in Shards : s # job[p].shard => results'[s] = results[s]
    BY <2>2 DEF CoordTypeOK, TaskTypeOK
  <2> QED
    BY <2>1, <2>2, <2>3 DEF KeepsResults
<1>7. ASSUME NEW p \in Procs, Shrinks, OtherCall(Id(p)) \/ LostPull(p) \/ UNCHANGED coordVars
      PROVE  Rest' /\ ClaimInv' /\ KeepsResults
  <2>1. CASE OtherCall(Id(p)) \/ LostPull(p)
    BY <1>7, <2>1, ProcArguments, OtherCallOnce, LostPullOnce DEF KeepsResults
  <2>2. CASE UNCHANGED coordVars
    <3>1. UNCHANGED <<taskQueue, inFlight, attempts, results, completed, epoch, main>>
      BY <2>2 DEF coordVars, taskVars, stageVars, threadVars
    <3>2. ClaimInv'
      BY <1>7, <3>1, QuietClaims DEF OnceInv
    <3>3. Rest'
      BY <1>7, <3>1 DEF OnceInv, Rest, Shrinks
    <3> QED
      BY <3>1, <3>2, <3>3 DEF KeepsResults
  <2> QED
    BY <1>7, <2>1, <2>2
<1>8. ASSUME NEW p \in Procs, WorkerStep(p)
      PROVE  Rest' /\ ClaimInv' /\ KeepsResults
  BY <1>5, <1>6, <1>7, <1>8, WorkerStepKinds
<1>9. ASSUME NEW p \in Procs,
             Crash(p) \/ LosesReply(p) \/ GivesUp(p) \/ HeartbeatLoopFails(p)
               \/ Restart(p) \/ KilledByJob(p)
      PROVE  Rest' /\ ClaimInv' /\ KeepsResults
  BY <1>7, <1>9, FaultKindsOfStep
<1> QED
  BY <1>1, <1>2, <1>3, <1>4, <1>8, <1>9 DEF Next, OnceInv

\* The pool starts at rest.
LEMMA InitOnce == Init => OnceInv
<1> SUFFICES ASSUME Init
             PROVE  OnceInv
  OBVIOUS
<1>1. \A p \in Procs : ~Carries(p)
  BY DEF Init, Carries
<1>2. StageCount
  BY CoordinatorAssumption DEF Init, CoordInit, StageCount
<1>3. Rest
  BY <1>1 DEF Init, CoordInit, Rest
<1>4. Timely /\ OneClaim
  BY <1>1 DEF Timely, OneClaim, Claims
<1>5. Pending /\ OwnResults
  BY DEF Init, CoordInit, Pending, OwnResults
<1>6. Counted
  <2>1. Done = {} /\ completed = 0
    BY DEF Init, CoordInit, Done
  <2> QED
    BY <2>1, FS_EmptySet DEF Counted
<1> QED
  BY <1>2, <1>3, <1>4, <1>5, <1>6 DEF OnceInv, ClaimInv

\* FirstResultWins in terms of the step.
LEMMA FirstResultStep ==
  ASSUME KeepsResults \/ UNCHANGED vars, Counted'
  PROVE  [/\ epoch' = epoch =>
               \A s \in Shards : results[s] # Empty => results'[s] = results[s]
          /\ completed' = Cardinality({s \in Shards : results'[s] # Empty})]_vars
BY DEF KeepsResults, Counted, Done

-----------------------------------------------------------------------------
(* With PromptResults: the inductive invariant behind NoShardLost and      *)
(* StageBarrier.  A slot has one process at a time, and what _in_flight    *)
(* says of the slot is what that process does.                             *)

\* A process between pull_task and report_result holds its shard, one that asks
\* for a task or deregisters holds none, and one that reports an error may have
\* reported it before.
HandOK(p) ==
  /\ Carries(p) => inFlight[Id(p)] = [shard |-> job[p].shard, attempt |-> job[p].attempt]
  /\ pc[p] \in {"poll", "dereg"} => inFlight[Id(p)] = NoTask
  /\ pc[p] = "error" => inFlight[Id(p)] = NoTask \/ inFlight[Id(p)].shard = job[p].shard
  /\ pc[p] \in {"poll", "run", "report", "error"} => Id(p) \in registered

SlotOK(w) == w \notin registered => inFlight[w] = NoTask

\* Iris starts the next process of a slot when the one before is dead.
Succession ==
  \A p, q \in Procs : Id(p) = Id(q) /\ p[2] < q[2] /\ pc[q] # "unborn" => pc[p] = "dead"

HandInv ==
  /\ \A p \in Procs : HandOK(p)
  /\ \A w \in Slots : SlotOK(w)
  /\ Succession
  /\ \A p \in Procs : quit[p] # "fail"

\* The part of NoShardLost that Pending and DispatchExclusive do not say.
Covered ==
  main = "waiting" /\ fatal = "none" =>
    \A s \in Shards : Queued(s) \/ results[s] # Empty \/ \E w \in Slots : Holds(w, s)

\* StageBarrier, also while the next stage is being opened.
Barrier ==
  /\ main \notin {"waiting", "failed"} /\ epoch > 0 => \A s \in Shards : results[s] = epoch
  /\ main \in {"next", "finished"} => \A s \in Shards : inputs[s] = epoch

StageInv == OnceInv /\ HandInv /\ Covered /\ Barrier

\* _record_shard_failure empties its slot and no other.
LEMMA FailureSlot ==
  ASSUME TaskTypeOK, NEW w \in Slots, NEW kind, RecordShardFailure(w, kind)
  PROVE  /\ inFlight'[w] = NoTask
         /\ \A v \in Slots : v # w => inFlight'[v] = inFlight[v]
BY DEF RecordShardFailure, TaskTypeOK

\* A process that executes a shard has the one claim to it.
LEMMA CarrierClaims ==
  ASSUME TaskTypeOK, ProcTypeOK, DispatchExclusive, HandInv, NEW p \in Procs, Carries(p)
  PROVE  /\ Holds(Id(p), job[p].shard) /\ Claims(p, job[p].shard)
         /\ InFlightConsistent(Id(p), job[p].shard) /\ job[p].attempt = attempts[job[p].shard]
<1>1. inFlight[Id(p)] = [shard |-> job[p].shard, attempt |-> job[p].attempt]
  BY DEF HandInv, HandOK
<1>2. inFlight[Id(p)] # NoTask
  BY <1>1, ProcArguments, CoordinatorAssumption DEF Task
<1>3. Holds(Id(p), job[p].shard)
  BY <1>1, <1>2 DEF Holds
<1>4. job[p].attempt = attempts[job[p].shard]
  BY <1>1, <1>3, ProcArguments DEF DispatchExclusive, HeldIsCurrent
<1> QED
  BY <1>1, <1>3, <1>4 DEF Claims, InFlightConsistent

\* A slot is its one process's own: a step that concerns no other slot keeps
\* HandInv when it keeps the process in order.
LEMMA OwnSlot ==
  ASSUME ProcTypeOK, HandInv, NEW p \in Procs, pc[p] \notin {"unborn", "dead"},
         \A q \in Procs : q # p => pc'[q] = pc[q] /\ job'[q] = job[q] /\ quit'[q] = quit[q],
         \A v \in Slots : v # Id(p) =>
           inFlight'[v] = inFlight[v] /\ (v \in registered' <=> v \in registered),
         HandOK(p)', SlotOK(Id(p))', quit'[p] # "fail"
  PROVE  HandInv'
<1>1. \A q \in Procs : Id(q) \in Slots
  BY ProcArguments
<1>2. ASSUME NEW q \in Procs, q # p, Id(q) = Id(p)
      PROVE  pc[q] \in {"unborn", "dead"}
  <2>1. q[2] # p[2] /\ q[2] \in Nat /\ p[2] \in Nat
    BY <1>2 DEF Id, Procs
  <2>2. CASE q[2] < p[2]
    BY <1>2, <2>2 DEF HandInv, Succession
  <2>3. CASE p[2] < q[2]
    BY <1>2, <2>3 DEF HandInv, Succession
  <2> QED
    BY <2>1, <2>2, <2>3
<1>3. \A q \in Procs : HandOK(q)'
  <2> SUFFICES ASSUME NEW q \in Procs, q # p
               PROVE  HandOK(q)'
    OBVIOUS
  <2>1. CASE Id(q) = Id(p)
    BY <1>2, <2>1 DEF HandOK, Carries
  <2>2. CASE Id(q) # Id(p)
    BY <1>1, <2>2 DEF HandInv, HandOK, Carries
  <2> QED
    BY <2>1, <2>2
<1>4. \A w \in Slots : SlotOK(w)'
  BY DEF HandInv, SlotOK
<1>5. Succession'
  BY DEF HandInv, Succession
<1>6. \A q \in Procs : quit'[q] # "fail"
  BY DEF HandInv
<1> QED
  BY <1>3, <1>4, <1>5, <1>6 DEF HandInv

\* What a process does by itself.
LEMMA WorkerStepHands ==
  ASSUME CoordTypeOK, ProcTypeOK, DispatchExclusive, HandInv, NEW p \in Procs, WorkerStep(p)
  PROVE  HandInv'
<1> DEFINE w == Id(p)
<1>1. w \in Slots /\ quit[p] # "fail" /\ HandOK(p) /\ SlotOK(w)
  BY ProcArguments DEF HandInv
<1>2. ~LeavesPollLoop(p) /\ ~LeavesIdle(p)
  BY <1>1 DEF LeavesPollLoop, LeavesIdle
<1>3. CASE SeesStage(p) \/ RunsShard(p) \/ HeartbeatArrives(p)
  <2>1. UNCHANGED <<inFlight, registered, job, quit>>
    BY <1>3 DEF SeesStage, RunsShard, HeartbeatArrives, Heartbeat, coordVars, taskVars, workerVars,
       procVars
  <2>2. pc[p] \notin {"unborn", "dead"} /\ HandOK(p)'
    BY <1>1, <1>3, <2>1 DEF SeesStage, RunsShard, HeartbeatArrives, Live, GoTo, procVars, HandOK,
       Carries, ProcTypeOK
  <2>3. \A q \in Procs : q # p => pc'[q] = pc[q]
    BY <1>3 DEF SeesStage, RunsShard, HeartbeatArrives, GoTo, procVars, ProcTypeOK
  <2> QED
    BY <1>1, <2>1, <2>2, <2>3, OwnSlot DEF SlotOK
<1>4. CASE Register(p)
  <2>1. /\ inFlight'[w] = NoTask /\ w \in registered'
        /\ \A v \in Slots : v # w =>
             inFlight'[v] = inFlight[v] /\ (v \in registered' <=> v \in registered)
    <3>1. registered' = registered \cup {w}
      BY <1>4 DEF Register, RegisterWorker
    <3>2. CASE w \in registered
      BY <1>1, <1>4, <3>1, <3>2, FailureSlot DEF Register, RegisterWorker, CoordTypeOK
    <3>3. CASE w \notin registered
      BY <1>1, <1>4, <3>1, <3>3 DEF Register, RegisterWorker, SlotOK, taskVars
    <3> QED
      BY <3>2, <3>3
  <2>2. pc[p] = "register" /\ pc'[p] = "poll" /\ UNCHANGED <<job, quit>>
    BY <1>4 DEF Register, GoTo, ProcTypeOK
  <2>3. \A q \in Procs : q # p => pc'[q] = pc[q]
    BY <1>4 DEF Register, GoTo, ProcTypeOK
  <2>4. HandOK(p)' /\ SlotOK(w)'
    BY <2>1, <2>2 DEF HandOK, SlotOK, Carries
  <2> QED
    BY <1>1, <2>1, <2>2, <2>3, <2>4, OwnSlot
<1>5. CASE PullsTask(p)
  <2>1. pc[p] = "poll" /\ pc'[p] = "run" /\ quit' = quit /\ w \in registered
    BY <1>1, <1>5 DEF PullsTask, GoTo, ProcTypeOK, HandOK
  <2>2. \A q \in Procs : q # p => pc'[q] = pc[q] /\ job'[q] = job[q]
    BY <1>5 DEF PullsTask, GoTo, ProcTypeOK
  <2>3. /\ inFlight'[w] = Assigned /\ registered' = registered
        /\ \A v \in Slots : v # w => inFlight'[v] = inFlight[v]
    BY <1>1, <1>5 DEF PullsTask, PullTask, PullSeen, CoordTypeOK, TaskTypeOK
  <2>4. Assigned = [shard |-> job'[p].shard, attempt |-> job'[p].attempt]
    <3>1. job'[p] = [shard |-> Assigned.shard, attempt |-> Assigned.attempt, stage |-> epoch]
      BY <1>5 DEF PullsTask, ProcTypeOK
    <3> QED
      BY <3>1 DEF Assigned
  <2>5. HandOK(p)' /\ SlotOK(w)'
    BY <2>1, <2>3, <2>4 DEF HandOK, SlotOK
  <2> QED
    BY <1>1, <2>1, <2>2, <2>3, <2>5, OwnSlot
<1>6. CASE PullsNothing(p)
  <2>1. pc[p] = "poll" /\ pc'[p] \in {"poll", "dereg"} /\ quit'[p] # "fail" /\ job' = job
    BY <1>1, <1>6 DEF PullsNothing, GoTo, ProcTypeOK
  <2>2. \A q \in Procs : q # p => pc'[q] = pc[q] /\ quit'[q] = quit[q]
    BY <1>6 DEF PullsNothing, GoTo, ProcTypeOK
  <2>3. UNCHANGED <<inFlight, registered>>
    BY <1>6 DEF PullsNothing, PullNoWorkBackoff, PullStageCompleted, PullShutdown, PullSeen
  <2>4. HandOK(p)' /\ SlotOK(w)'
    BY <1>1, <2>1, <2>3 DEF HandOK, SlotOK, Carries
  <2> QED
    BY <1>1, <2>1, <2>2, <2>3, <2>4, OwnSlot
<1>7. CASE Reports(p)
  <2>1. pc[p] = "report" /\ Carries(p) /\ w \in registered
    BY <1>1, <1>7 DEF Reports, Carries, HandOK
  <2>2. Accepted(p)
    BY <1>7, <2>1, CarrierClaims DEF Reports, ReportResult, ReportStaleResult, ReportAsserts,
       Accepted, CoordTypeOK
  <2>3. pc'[p] = "poll" /\ quit' = quit
    <3>1. ~ReportAsserts(Id(p), job[p].shard)
      BY <2>1, CarrierClaims DEF ReportAsserts, CoordTypeOK
    <3> QED
      BY <1>7, <3>1 DEF Reports, GoTo, ProcTypeOK
  <2>4. \A q \in Procs : q # p => pc'[q] = pc[q] /\ job'[q] = job[q]
    BY <1>7 DEF Reports, GoTo, ProcTypeOK
  <2>5. /\ inFlight'[w] = NoTask /\ registered' = registered
        /\ \A v \in Slots : v # w => inFlight'[v] = inFlight[v]
    BY <1>1, <2>2 DEF Accepted, ReportAccepted, CoordTypeOK, TaskTypeOK
  <2>6. HandOK(p)' /\ SlotOK(w)'
    BY <2>1, <2>3, <2>5 DEF HandOK, SlotOK, Carries
  <2> QED
    BY <1>1, <2>1, <2>3, <2>4, <2>5, <2>6, OwnSlot
<1>8. CASE ReportsError(p)
  <2>1. pc[p] = "error" /\ w \in registered /\ InFlightConsistent(w, job[p].shard)
    BY <1>1, <1>8 DEF ReportsError, HandOK, InFlightConsistent
  <2>2. ReportError(w, job[p].shard) /\ pc'[p] = "poll" /\ quit' = quit
    BY <1>8, <2>1 DEF ReportsError, ReportAsserts, GoTo, ProcTypeOK
  <2>3. \A q \in Procs : q # p => pc'[q] = pc[q] /\ job'[q] = job[q]
    BY <1>8 DEF ReportsError, GoTo, ProcTypeOK
  <2>4. /\ inFlight'[w] = NoTask /\ registered' = registered
        /\ \A v \in Slots : v # w => inFlight'[v] = inFlight[v]
    BY <1>1, <2>2, FailureSlot DEF ReportError, CoordTypeOK
  <2>5. HandOK(p)' /\ SlotOK(w)'
    BY <2>1, <2>2, <2>4 DEF HandOK, SlotOK, Carries
  <2> QED
    BY <1>1, <2>1, <2>2, <2>3, <2>4, <2>5, OwnSlot
<1>9. CASE Deregisters(p)
  <2>1. pc[p] = "dereg" /\ pc'[p] \in {"idle", "exited", "dead"} /\ UNCHANGED <<job, quit>>
    BY <1>9 DEF Deregisters, AfterStage, GoTo, ProcTypeOK
  <2>2. \A q \in Procs : q # p => pc'[q] = pc[q]
    BY <1>9 DEF Deregisters, AfterStage, GoTo, ProcTypeOK
  <2>3. inFlight' = inFlight /\ registered' = registered \ {w} /\ inFlight[w] = NoTask
    BY <1>1, <1>9, <2>1 DEF Deregisters, DeregisterWorker, taskVars, HandOK
  <2>4. HandOK(p)' /\ SlotOK(w)'
    BY <2>1, <2>3 DEF HandOK, SlotOK, Carries
  <2> QED
    BY <1>1, <2>1, <2>2, <2>3, <2>4, OwnSlot
<1> QED
  BY <1>2, <1>3, <1>4, <1>5, <1>6, <1>7, <1>8, <1>9 DEF WorkerStep

\* What a fault does, when it is one of those of PromptResults.
LEMMA FaultHands ==
  ASSUME PromptResults, CoordTypeOK, ProcTypeOK, HandInv, NEW p \in Procs,
         Crash(p) \/ LosesReply(p) \/ GivesUp(p) \/ HeartbeatLoopFails(p)
           \/ Restart(p) \/ KilledByJob(p)
  PROVE  HandInv'
<1> DEFINE w == Id(p)
<1>1. w \in Slots /\ quit[p] # "fail" /\ HandOK(p) /\ SlotOK(w)
  BY ProcArguments DEF HandInv
<1>2. ~GivesUp(p) /\ ~HeartbeatLoopFails(p)
  BY DEF PromptResults, GivesUp, HeartbeatLoopFails, Fault
<1>3. CASE Crash(p) \/ KilledByJob(p)
  <2>1. pc[p] \notin {"unborn", "dead"} /\ pc'[p] = "dead" /\ quit'[p] = "no"
    BY <1>3 DEF Crash, KilledByJob, Live, Die, GoTo, ProcTypeOK
  <2>2. \A q \in Procs : q # p => pc'[q] = pc[q] /\ job'[q] = job[q] /\ quit'[q] = quit[q]
    BY <1>3 DEF Crash, KilledByJob, Die, GoTo, ProcTypeOK
  <2>3. UNCHANGED <<inFlight, registered>>
    BY <1>3 DEF Crash, KilledByJob, coordVars, taskVars, workerVars
  <2>4. HandOK(p)' /\ SlotOK(w)'
    BY <1>1, <2>1, <2>3 DEF HandOK, SlotOK, Carries
  <2> QED
    BY <1>1, <2>1, <2>2, <2>3, <2>4, OwnSlot
<1>4. CASE Restart(p)
  <2> DEFINE n == Successor(p)
  <2>1. pc[p] = "dead" /\ pc[n] = "unborn"
    BY <1>4 DEF Restart, PromptResults, Fault
  <2>2. n \in Procs /\ Id(n) = w /\ n[2] = p[2] + 1 /\ p[2] \in Nat
    BY <1>4, PoolAssumption DEF Restart, Successor, Procs, Id
  <2>3. pc' = [pc EXCEPT ![n] = "idle"] /\ UNCHANGED <<inFlight, registered, job, quit>>
    BY <1>4 DEF Restart, GoTo, coordVars, taskVars, workerVars
  <2> HIDE DEF n, w
  <2>4. pc'[n] = "idle" /\ \A q \in Procs : q # n => pc'[q] = pc[q]
    BY <2>2, <2>3 DEF ProcTypeOK
  <2>5. \A q \in Procs : HandOK(q)'
    BY <2>3, <2>4 DEF HandInv, HandOK, Carries
  <2>6. \A v \in Slots : SlotOK(v)'
    BY <2>3 DEF HandInv, SlotOK
  <2>7. Succession'
    <3> SUFFICES ASSUME NEW q \in Procs, NEW r \in Procs, Id(q) = Id(r), q[2] < r[2],
                        pc'[r] # "unborn"
                 PROVE  pc'[q] = "dead"
      BY DEF Succession
    <3>1. q[2] \in Nat /\ r[2] \in Nat /\ q = <<Id(q), q[2]>> /\ p = <<Id(p), p[2]>>
      BY DEF Procs, Id
    <3>2. CASE r = n
      <4>1. q # n /\ (q[2] < p[2] \/ q[2] = p[2])
        BY <2>2, <3>1, <3>2
      <4>2. Id(q) = Id(p)
        BY <2>2, <3>2 DEF w
      <4>3. pc[q] = "dead"
        <5>1. CASE q[2] < p[2]
          BY <2>1, <4>2, <5>1 DEF HandInv, Succession
        <5>2. CASE q[2] = p[2]
          BY <2>1, <3>1, <4>2, <5>2
        <5> QED
          BY <4>1, <5>1, <5>2
      <4> QED
        BY <2>4, <4>1, <4>3
    <3>3. CASE r # n
      <4>1. pc[q] = "dead"
        BY <2>4, <3>3 DEF HandInv, Succession
      <4> QED
        BY <2>1, <2>4, <4>1
    <3> QED
      BY <3>2, <3>3
  <2> QED
    BY <2>3, <2>5, <2>6, <2>7 DEF HandInv
<1>5. CASE LosesReply(p)
  <2>1. UNCHANGED <<pc, job, quit>>
    BY <1>5 DEF LosesReply, procVars
  <2>2. pc[p] \in {"register", "error", "dereg"}
    BY <1>5 DEF LosesReply, PromptResults, Live
  <2>3. CASE pc[p] = "register"
    <3>1. RegisterWorker(w)
      BY <1>5, <2>3 DEF LosesReply
    <3>2. registered' = registered \cup {w}
      BY <3>1 DEF RegisterWorker
    <3>3. \A v \in Slots : v # w => inFlight'[v] = inFlight[v]
      <4>1. UNCHANGED taskVars \/ RecordShardFailure(w, "infra")
        BY <3>1 DEF RegisterWorker
      <4> QED
        BY <1>1, <4>1, FailureSlot DEF taskVars, CoordTypeOK
    <3>4. HandOK(p)' /\ SlotOK(w)'
      BY <2>1, <2>3, <3>2 DEF HandOK, SlotOK, Carries
    <3> QED
      BY <1>1, <2>1, <2>3, <3>2, <3>3, <3>4, OwnSlot
  <2>4. CASE pc[p] = "error"
    <3>1. ReportError(w, job[p].shard)
      BY <1>1, <1>5, <2>4 DEF LosesReply, ReportAsserts, InFlightConsistent, HandOK
    <3>2. /\ inFlight'[w] = NoTask /\ registered' = registered
          /\ \A v \in Slots : v # w => inFlight'[v] = inFlight[v]
      BY <1>1, <3>1, FailureSlot DEF ReportError, CoordTypeOK
    <3>3. HandOK(p)' /\ SlotOK(w)'
      BY <1>1, <2>1, <2>4, <3>2 DEF HandOK, SlotOK, Carries
    <3> QED
      BY <1>1, <2>1, <2>4, <3>2, <3>3, OwnSlot
  <2>5. CASE pc[p] = "dereg"
    <3>1. inFlight' = inFlight /\ registered' = registered \ {w}
      BY <1>5, <2>5 DEF LosesReply, DeregisterWorker, taskVars
    <3>2. HandOK(p)' /\ SlotOK(w)'
      BY <1>1, <2>1, <2>5, <3>1 DEF HandOK, SlotOK, Carries
    <3> QED
      BY <1>1, <2>1, <2>5, <3>1, <3>2, OwnSlot
  <2> QED
    BY <2>2, <2>3, <2>4, <2>5
<1> QED
  BY <1>2, <1>3, <1>4, <1>5

\* Every step of the pool.
LEMMA StepHands ==
  ASSUME PromptResults, CoordTypeOK, ProcTypeOK, DispatchExclusive, Rest, HandInv, [Next]_vars
  PROVE  HandInv'
<1>1. ASSUME UNCHANGED <<inFlight, registered, pc, job, quit>>
      PROVE  HandInv'
  BY <1>1 DEF HandInv, HandOK, SlotOK, Succession, Carries
<1>2. CASE RunsPipeline
  <2>1. inFlight' = inFlight
    <3>1. CASE StartStage
      <4>1. inFlight = [w \in Slots |-> NoTask]
        BY <3>1 DEF Rest, StartStage, CoordTypeOK, TaskTypeOK
      <4> QED
        BY <3>1, <4>1 DEF StartStage
    <3>2. CASE ~StartStage
      BY <1>2, <3>2 DEF RunsPipeline, MainThread, OpenStage, StageCompletes, StageFails,
         MarkStageComplete, CollectResults, Shutdown, taskVars
    <3> QED
      BY <3>1, <3>2
  <2>2. registered' = registered
    BY <1>2 DEF RunsPipeline, MainThread, OpenStage, StartStage, StageCompletes, StageFails,
       MarkStageComplete, CollectResults, Shutdown, workerVars
  <2> QED
    BY <1>1, <1>2, <2>1, <2>2 DEF RunsPipeline, procVars
<1>3. CASE BackgroundLoop \/ StartsPipelineAgain \/ UNCHANGED vars
  BY <1>1, <1>3 DEF BackgroundLoop, StartsPipelineAgain, CheckWorkerGroup, WorkerGroupAnswer,
     RunPipelineAgain, vars, coordVars, taskVars, workerVars, procVars
<1>4. ASSUME NEW w \in Slots, HeartbeatTimesOut(w)
      PROVE  HandInv'
  <2>1. Silent(w)
    BY <1>4 DEF HeartbeatTimesOut, PromptResults, Fault
  <2>2. \A p \in Procs : Id(p) = w => pc[p] \notin {"poll", "run", "report", "error", "dereg"}
    BY <2>1 DEF Silent, Active, HandInv
  <2>3. /\ inFlight'[w] = NoTask /\ \A v \in Slots : v # w => inFlight'[v] = inFlight[v]
        /\ UNCHANGED <<registered, pc, job, quit>>
    BY <1>4, FailureSlot DEF HeartbeatTimesOut, CheckHeartbeats, CoordTypeOK, procVars
  <2>4. \A p \in Procs : HandOK(p)'
    BY <2>2, <2>3, ProcArguments DEF HandInv, HandOK, Carries
  <2>5. \A v \in Slots : SlotOK(v)'
    BY <2>3 DEF HandInv, SlotOK
  <2> QED
    BY <2>3, <2>4, <2>5 DEF HandInv, Succession
<1>5. ASSUME NEW p \in Procs,
             \/ WorkerStep(p) \/ Restart(p) \/ KilledByJob(p)
             \/ Crash(p) \/ LosesReply(p) \/ GivesUp(p) \/ HeartbeatLoopFails(p)
      PROVE  HandInv'
  BY <1>5, WorkerStepHands, FaultHands
<1> QED
  BY <1>2, <1>3, <1>4, <1>5 DEF Next

-----------------------------------------------------------------------------
(* No shard is forgotten while its stage runs.                             *)

\* A step that leaves the tasks alone and clears no error.
LEMMA QuietCovers ==
  ASSUME Covered, UNCHANGED <<taskQueue, inFlight, results>>,
         main' = "waiting" /\ fatal' = "none" => main = "waiting" /\ fatal = "none"
  PROVE  Covered'
BY DEF Covered, Queued, Holds

\* A failure requeues the slot's shard or aborts the stage.
LEMMA FailureCovers ==
  ASSUME TaskTypeOK, Covered, main' = main,
         NEW w \in Slots, NEW kind \in {"task", "infra"}, RecordShardFailure(w, kind)
  PROVE  Covered'
<1>1. CASE inFlight[w] = NoTask
  BY <1>1, QuietCovers DEF RecordShardFailure
<1>2. CASE inFlight[w] # NoTask
  <2>1. PICK s : s = inFlight[w].shard
    OBVIOUS
  <2>2. \A v \in Slots, t \in Shards : Holds(v, t) => Holds(v, t)' \/ t = s
    BY <2>1, FailureSlot DEF Holds
  <2>3. s \in Shards /\ results' = results
    BY <1>2, <2>1, FailureEffect
  <2>4. \A t \in Shards : Queued(t) => Queued(t)'
    BY <1>2, <2>1, FailureEffect
  <2>5. fatal' # "none" \/ (Queued(s)' /\ fatal' = fatal)
    BY <1>2, <2>1, FailureEffect
  <2> QED
    BY <2>2, <2>3, <2>4, <2>5 DEF Covered
<1> QED
  BY <1>1, <1>2

\* A process that asks for a task has none to lose.
LEMMA PullsTaskCovers ==
  ASSUME TaskTypeOK, ProcTypeOK, DispatchExclusive, HandInv, Covered, NEW p \in Procs, PullsTask(p)
  PROVE  Covered'
<1> PICK h : h = Head(taskQueue)
  OBVIOUS
<1> DEFINE w == Id(p)
<1>1. /\ h \in Shards
      /\ \A t \in Shards : Queued(t)' <=> Queued(t) /\ t # h
      /\ inFlight' = [inFlight EXCEPT ![w] = [shard |-> h, attempt |-> attempts[h]]]
      /\ UNCHANGED <<results, fatal, main>>
  BY PullEffect, ProcArguments DEF PullsTask
<1>2. w \in Slots /\ inFlight[w] = NoTask
  BY ProcArguments DEF PullsTask, HandInv, HandOK
<1>3. [shard |-> h, attempt |-> attempts[h]] # NoTask
  BY <1>1, CoordinatorAssumption DEF TaskTypeOK, Task
<1> HIDE DEF w
<1>4. inFlight'[w] = [shard |-> h, attempt |-> attempts[h]]
  BY <1>1, <1>2 DEF TaskTypeOK
<1>5. \A v \in Slots : v # w => inFlight'[v] = inFlight[v]
  BY <1>1 DEF TaskTypeOK
<1>6. Holds(w, h)'
  BY <1>3, <1>4 DEF Holds
<1>7. \A v \in Slots, t \in Shards : Holds(v, t) => Holds(v, t)'
  BY <1>2, <1>5 DEF Holds
<1> QED
  BY <1>1, <1>2, <1>6, <1>7 DEF Covered

\* An accepted result is the result of the only shard that its slot gives up.
LEMMA AcceptedCovers ==
  ASSUME CoordTypeOK, ProcTypeOK, OnceInv, HandInv, Covered, NEW p \in Procs, Accepted(p)
  PROVE  Covered'
<1> DEFINE s == job[p].shard
           w == Id(p)
<1>1. s \in Shards /\ w \in Slots
  BY ProcArguments
<1>2. epoch > 0 /\ results' = [results EXCEPT ![s] = epoch]
  BY AcceptedClaims DEF Accepted
<1>3. results'[s] # Empty /\ \A t \in Shards : t # s => results'[t] = results[t]
  BY <1>1, <1>2 DEF CoordTypeOK, TaskTypeOK, StageTypeOK
<1>4. /\ inFlight' = [inFlight EXCEPT ![w] = NoTask]
      /\ UNCHANGED <<taskQueue, fatal, main>>
  BY DEF Accepted, ReportAccepted, threadVars
<1>5. \A v \in Slots, t \in Shards : Holds(v, t) => Holds(v, t)' \/ t = s
  <2>1. \A t \in Shards : Holds(w, t) => t = s
    BY DEF Accepted, ReportAccepted, InFlightConsistent, Holds
  <2>2. \A v \in Slots : v # w => inFlight'[v] = inFlight[v]
    BY <1>4 DEF CoordTypeOK, TaskTypeOK
  <2> QED
    BY <2>1, <2>2 DEF Holds
<1>6. \A t \in Shards : Queued(t)' <=> Queued(t)
  BY <1>4 DEF Queued
<1> HIDE DEF s, w
<1> QED
  BY <1>3, <1>4, <1>5, <1>6 DEF Covered

\* _start_stage queues every shard.
LEMMA StartStageCovers == StartStage => Covered'
<1> SUFFICES ASSUME StartStage, NEW s \in Shards
             PROVE  Queued(s)'
  BY DEF Covered
<1>1. /\ taskQueue' = [i \in 1 .. NumShards |-> i - 1]
      /\ NumShards \in Nat /\ s + 1 \in 1 .. NumShards
  BY CoordinatorAssumption DEF StartStage, InitialQueue, Shards
<1>2. Len(taskQueue') = NumShards
  BY <1>1
<1>3. taskQueue'[s + 1] = s
  BY <1>1 DEF Shards
<1> QED
  BY <1>1, <1>2, <1>3 DEF Queued

\* The steps of a process, by what they do to the tasks.
LEMMA ProcessCovers ==
  ASSUME PromptResults, CoordTypeOK, ProcTypeOK, DispatchExclusive, OnceInv, HandInv, Covered,
         NEW p \in Procs,
         \/ WorkerStep(p) \/ Restart(p) \/ KilledByJob(p)
         \/ Crash(p) \/ LosesReply(p) \/ GivesUp(p) \/ HeartbeatLoopFails(p)
  PROVE  Covered'
<1>1. "report" \notin LossyCalls /\ ~LostPull(p)
  BY DEF PromptResults, LostPull
<1>2. Id(p) \in Slots
  BY ProcArguments
<1>3. PullsTask(p) \/ Accepted(p) \/ OtherCall(Id(p)) \/ UNCHANGED coordVars
  BY <1>1, WorkerStepKinds, FaultKindsOfStep
<1>4. CASE OtherCall(Id(p))
  BY <1>2, <1>4, OtherCallEffect, QuietCovers, FailureCovers DEF taskVars, CoordTypeOK
<1>5. CASE UNCHANGED coordVars
  BY <1>5, QuietCovers DEF coordVars, taskVars, threadVars
<1> QED
  BY <1>3, <1>4, <1>5, PullsTaskCovers, AcceptedCovers DEF CoordTypeOK

\* Every step of the pool.
LEMMA StepCovers ==
  ASSUME PromptResults, CoordTypeOK, ProcTypeOK, DispatchExclusive, OnceInv, HandInv, Covered,
         [Next]_vars
  PROVE  Covered'
<1>1. CASE RunsPipeline
  <2>1. CASE StartStage
    BY <2>1, StartStageCovers
  <2>2. CASE ~StartStage
    <3>1. UNCHANGED <<taskQueue, inFlight, results, fatal>> /\ (main' = main \/ main' # "waiting")
      BY <1>1, <2>2 DEF RunsPipeline, MainThread, OpenStage, StageCompletes, StageFails,
         MarkStageComplete, CollectResults, Shutdown, taskVars
    <3> QED
      BY <3>1, QuietCovers
  <2> QED
    BY <2>1, <2>2
<1>2. CASE BackgroundLoop \/ StartsPipelineAgain \/ UNCHANGED vars
  <2>1. /\ UNCHANGED <<taskQueue, inFlight, results, main>>
        /\ fatal' = fatal \/ fatal' # "none"
    BY <1>2 DEF BackgroundLoop, StartsPipelineAgain, CheckWorkerGroup, WorkerGroupAnswer,
       RunPipelineAgain, vars, coordVars, taskVars, threadVars
  <2> QED
    BY <2>1, QuietCovers
<1>3. ASSUME NEW w \in Slots, HeartbeatTimesOut(w)
      PROVE  Covered'
  BY <1>3, OtherCallEffect, QuietCovers, FailureCovers DEF HeartbeatTimesOut, taskVars, CoordTypeOK
<1> QED
  BY <1>1, <1>2, <1>3, ProcessCovers DEF Next

-----------------------------------------------------------------------------
(* The stages are barriers.                                                *)

\* As many accepted results as shards are a result of every shard.
LEMMA AllDone ==
  ASSUME CoordTypeOK, StageCount, ClaimInv, main = "waiting", completed >= totalShards
  PROVE  \A s \in Shards : results[s] = epoch
<1>1. /\ IsFiniteSet(Shards) /\ Cardinality(Shards) = NumShards
      /\ NumShards \in Nat
  BY FS_Interval, CoordinatorAssumption DEF Shards
<1>2. Done \in SUBSET Shards
  BY DEF Done
<1>3. IsFiniteSet(Done) /\ Cardinality(Done) <= Cardinality(Shards)
  BY <1>1, <1>2, FS_Subset
<1>4. Cardinality(Done) \in Nat
  BY <1>3, FS_CardinalityType
<1>5. Cardinality(Done) >= NumShards
  BY DEF StageCount, ClaimInv, Counted
<1>6. Done = Shards
  BY <1>1, <1>2, <1>3, <1>4, <1>5, FS_Subset
<1> QED
  BY <1>6 DEF Done, ClaimInv, OwnResults

\* A step outside run_pipeline.
LEMMA OutsideBarrier ==
  ASSUME TaskTypeOK, Barrier, UNCHANGED <<main, inputs, epoch>>,
         results' = results \/ \E s \in Shards : results' = [results EXCEPT ![s] = epoch]
  PROVE  Barrier'
BY DEF Barrier, TaskTypeOK

\* run_pipeline's own steps.
LEMMA MainThreadBarrier ==
  ASSUME CoordTypeOK, OnceInv, Barrier, MainThread
  PROVE  Barrier'
<1>1. CASE StageCompletes
  <2>1. \A s \in Shards : results[s] = epoch
    BY <1>1, AllDone DEF StageCompletes, OnceInv
  <2> QED
    BY <1>1, <2>1 DEF StageCompletes, Barrier, taskVars, stageVars
<1>2. CASE CollectResults
  <2>1. \A s \in Shards : results[s] = epoch
    BY <1>2 DEF CollectResults, Barrier, OnceInv, StageCount
  <2> QED
    BY <1>2, <2>1 DEF CollectResults, Barrier, taskVars, stageVars
<1>3. CASE OpenStage \/ StartStage \/ StageFails \/ MarkStageComplete
  BY <1>3 DEF OpenStage, StartStage, StageFails, MarkStageComplete, Barrier, taskVars, stageVars
<1>4. CASE Shutdown
  BY <1>4 DEF Shutdown, Barrier, taskVars, stageVars
<1> QED
  BY <1>1, <1>2, <1>3, <1>4 DEF MainThread

\* Every step of the pool.
LEMMA StepBarrier ==
  ASSUME "report" \notin LossyCalls, CoordTypeOK, ProcTypeOK, OnceInv, Barrier, [Next]_vars
  PROVE  Barrier'
<1>1. CASE RunsPipeline
  BY <1>1, MainThreadBarrier DEF RunsPipeline
<1>2. CASE BackgroundLoop \/ StartsPipelineAgain \/ UNCHANGED vars
  BY <1>2, OutsideBarrier DEF BackgroundLoop, StartsPipelineAgain, CheckWorkerGroup,
     WorkerGroupAnswer, RunPipelineAgain, vars, coordVars, taskVars, stageVars, threadVars, CoordTypeOK
<1>3. ASSUME NEW w \in Slots, OtherCall(w) \/ CheckHeartbeats(w)
      PROVE  Barrier'
  <2>1. UNCHANGED <<main, inputs, epoch, results>>
    BY <1>3, OtherCallEffect DEF taskVars, stageVars, RecordShardFailure
  <2> QED
    BY <2>1, OutsideBarrier DEF CoordTypeOK
<1>4. ASSUME NEW p \in Procs, PullsTask(p) \/ LostPull(p) \/ Accepted(p) \/ UNCHANGED coordVars
      PROVE  Barrier'
  <2>1. CASE PullsTask(p) \/ LostPull(p) \/ UNCHANGED coordVars
    BY <2>1, OutsideBarrier DEF PullsTask, LostPull, PullTask, PullSeen, coordVars, taskVars, stageVars,
       threadVars, CoordTypeOK
  <2>2. CASE Accepted(p)
    <3>1. /\ UNCHANGED <<main, inputs, epoch>>
          /\ results' = [results EXCEPT ![job[p].shard] = epoch]
      BY <2>2, AcceptedClaims DEF Accepted, ReportAccepted, stageVars, threadVars
    <3> QED
      BY <3>1, ProcArguments, OutsideBarrier DEF CoordTypeOK
  <2> QED
    BY <1>4, <2>1, <2>2
<1>5. ASSUME NEW w \in Slots, HeartbeatTimesOut(w)
      PROVE  Barrier'
  BY <1>3, <1>5 DEF HeartbeatTimesOut
<1>6. ASSUME NEW p \in Procs,
             \/ WorkerStep(p) \/ Restart(p) \/ KilledByJob(p)
             \/ Crash(p) \/ LosesReply(p) \/ GivesUp(p) \/ HeartbeatLoopFails(p)
      PROVE  Barrier'
  BY <1>3, <1>4, <1>6, WorkerStepKinds, FaultKindsOfStep, ProcArguments
<1> QED
  BY <1>1, <1>2, <1>5, <1>6 DEF Next

\* When a stage is over, nothing of it is left in the queue, in a slot or in a
\* process.
LEMMA StageEndsAtRest ==
  ASSUME CoordTypeOK, ProcTypeOK, DispatchExclusive, StageInv, RunsPipeline, CollectResults
  PROVE  Rest'
<1>1. \A s \in Shards : results[s] # Empty
  BY DEF CollectResults, StageInv, Barrier, OnceInv, StageCount
<1>2. \A s \in Shards : ~Queued(s) /\ \A w \in Slots : ~Holds(w, s)
  BY <1>1 DEF StageInv, OnceInv, ClaimInv, Pending
<1>3. taskQueue = <<>>
  <2> SUFFICES ASSUME taskQueue # <<>>
               PROVE  FALSE
    OBVIOUS
  <2>1. 1 \in 1 .. Len(taskQueue) /\ taskQueue[1] \in Shards
    BY DEF CoordTypeOK, TaskTypeOK
  <2>2. Queued(taskQueue[1])
    BY <2>1 DEF Queued
  <2> QED
    BY <1>2, <2>1, <2>2
<1>4. \A w \in Slots : inFlight[w] = NoTask
  BY <1>2 DEF CoordTypeOK, TaskTypeOK, Task, Holds
<1>5. \A p \in Procs : ~Carries(p)
  BY <1>2, CarrierClaims, ProcArguments DEF StageInv, CoordTypeOK
<1> QED
  BY <1>3, <1>4, <1>5 DEF RunsPipeline, CollectResults, Rest, Carries, procVars, taskVars

\* With PromptResults StageInv is inductive.
LEMMA StepStage ==
  ASSUME PromptResults, CoordTypeOK, ProcTypeOK, DispatchExclusive, StageInv, [Next]_vars
  PROVE  StageInv' /\ KeepsResults
<1>1. OnceInv /\ Rest /\ HandInv /\ Covered /\ Barrier /\ "report" \notin LossyCalls
  BY DEF StageInv, OnceInv, PromptResults
<1>2. OnceInv' /\ KeepsResults
  BY <1>1, StepOnce, StageEndsAtRest
<1>3. HandInv'
  BY <1>1, StepHands
<1>4. Covered'
  BY <1>1, StepCovers
<1>5. Barrier'
  BY <1>1, StepBarrier
<1> QED
  BY <1>2, <1>3, <1>4, <1>5 DEF StageInv

LEMMA InitStage == Init => StageInv
<1> SUFFICES ASSUME Init
             PROVE  StageInv
  OBVIOUS
<1>1. HandInv
  <2>1. \A p, q \in Procs : p[2] < q[2] => q[2] # 1
    BY DEF Procs
  <2> QED
    BY <2>1 DEF Init, CoordInit, HandInv, HandOK, SlotOK, Succession, Carries
<1>2. Covered /\ Barrier
  BY DEF Init, CoordInit, Covered, Barrier
<1> QED
  BY <1>1, <1>2, InitOnce DEF StageInv

\* StageInv holds in every state.
LEMMA PoolStages ==
  ASSUME PromptResults
  PROVE  Spec => [](StageInv /\ TypeOK /\ DispatchExclusive)
<1>1. StageInv /\ TypeOK /\ DispatchExclusive /\ [Next]_vars => StageInv'
  BY StepStage DEF TypeOK, ProcTypeOK
<1> QED
  BY <1>1, InitStage, PoolTypeCorrect, PoolDispatchExclusive, PTL DEF Spec

-----------------------------------------------------------------------------
(* The theorems.                                                           *)

\* A crash at any point, a restart, and a handler that runs twice because its
\* reply was lost leave no shard behind while the stage goes on: it is queued, in
\* the hands of a slot or computed, and a computed shard is handed out no more.
THEOREM PoolNoShardLost ==
  ASSUME PromptResults
  PROVE  Spec => []NoShardLost
<1>1. StageInv => NoShardLost
  BY DEF StageInv, Covered, OnceInv, ClaimInv, Pending, NoShardLost
<1> QED
  BY <1>1, PoolStages, PTL

\* In a pipeline of one stage OnceInv holds whatever fails and whatever is slow.
LEMMA SingleStageOnce ==
  ASSUME SingleStage, CoordTypeOK, ProcTypeOK, DispatchExclusive, OnceInv, Barrier, [Next]_vars
  PROVE  OnceInv' /\ Barrier' /\ KeepsResults
<1>1. "report" \notin LossyCalls /\ NumStages = 1
  BY DEF SingleStage
<1>2. CollectResults => main' # "next"
  BY <1>1 DEF CollectResults, OnceInv, StageCount, CoordTypeOK, StageTypeOK
<1> QED
  BY <1>1, <1>2, StepOnce, StepBarrier

\* Under either hypothesis.
LEMMA PoolOnce ==
  ASSUME PromptResults \/ SingleStage
  PROVE  Spec => [](OnceInv /\ Barrier) /\ [][KeepsResults]_vars
<1>1. TypeOK => CoordTypeOK /\ ProcTypeOK
  BY DEF TypeOK, ProcTypeOK
<1>2. CASE PromptResults
  <2>1. StageInv => OnceInv /\ Barrier
    BY DEF StageInv
  <2>2. StageInv /\ TypeOK /\ DispatchExclusive /\ [Next]_vars => KeepsResults
    BY <1>1, <1>2, StepStage
  <2> QED
    BY <1>2, <2>1, <2>2, PoolStages, PTL DEF Spec
<1>3. CASE SingleStage
  <2>1. Init => OnceInv /\ Barrier
    BY InitStage DEF StageInv
  <2>2. OnceInv /\ Barrier /\ TypeOK /\ DispatchExclusive /\ [Next]_vars =>
          (OnceInv /\ Barrier)' /\ KeepsResults
    BY <1>1, <1>3, SingleStageOnce
  <2> QED
    BY <2>1, <2>2, PoolTypeCorrect, PoolDispatchExclusive, PTL DEF Spec
<1> QED
  BY <1>2, <1>3

\* run_pipeline leaves a stage only with a result of that stage for every shard,
\* and the next stage is given those results and no others.
THEOREM PoolStageBarrier ==
  ASSUME PromptResults \/ SingleStage
  PROVE  Spec => []StageBarrier
<1>1. OnceInv /\ Barrier => StageBarrier
  BY DEF Barrier, OnceInv, StageCount, StageBarrier
<1> QED
  BY <1>1, PoolOnce, PTL

\* report_result accepts one result per shard of a stage and counts it once:
\* between a pull_task and its report_result no other process obtains the attempt
\* that the coordinator expects.
THEOREM PoolFirstResultWins ==
  ASSUME PromptResults \/ SingleStage
  PROVE  Spec => FirstResultWins
<1>1. OnceInv => Counted
  BY DEF OnceInv, ClaimInv
<1>2. [KeepsResults]_vars /\ Counted' =>
        [/\ epoch' = epoch =>
              \A s \in Shards : results[s] # Empty => results'[s] = results[s]
         /\ completed' = Cardinality({s \in Shards : results'[s] # Empty})]_vars
  BY FirstResultStep
<1> QED
  BY <1>1, <1>2, PoolOnce, PTL DEF FirstResultWins

-----------------------------------------------------------------------------
(* The pool implements the safety part of ZephyrStages.                    *)

\* run_pipeline begins, finishes and fails as ZephyrStages allows.
LEMMA MainThreadRefines ==
  ASSUME CoordTypeOK, StageInv, MainThread
  PROVE  Abstract!Next \/ UNCHANGED <<epoch, Done, Outcome>>
<1> USE DEF Outcome
<1>1. CASE StartStage
  <2>1. epoch < NumStages /\ epoch \in Nat /\ main = "opened"
    BY <1>1 DEF StartStage, StageInv, OnceInv, StageCount, CoordTypeOK, StageTypeOK
  <2>2. epoch = 0 \/ Done = Shards
    BY <2>1 DEF StageInv, Barrier, Done
  <2>3. Done' = {}
    BY <1>1 DEF StartStage, Done
  <2>4. epoch' = epoch + 1 /\ Outcome = "running" /\ Outcome' = "running"
    BY <1>1 DEF StartStage
  <2>5. Abstract!Begin
    BY <2>1, <2>2, <2>3, <2>4 DEF Abstract!Begin
  <2> QED
    BY <2>5 DEF Abstract!Next
<1>2. CASE StageFails
  <2>1. epoch' = epoch /\ Done' = Done /\ Outcome = "running" /\ Outcome' = "failed"
    BY <1>2 DEF StageFails, stageVars, taskVars, Done
  <2>2. Abstract!Fail
    BY <2>1 DEF Abstract!Fail
  <2> QED
    BY <2>2 DEF Abstract!Next
<1>3. CASE CollectResults /\ epoch = NumStages
  <2>1. Done = Shards
    BY <1>3 DEF CollectResults, StageInv, Barrier, OnceInv, StageCount, Done
  <2>2. epoch' = epoch /\ Done' = Done /\ Outcome = "running" /\ Outcome' = "finished"
    BY <1>3 DEF CollectResults, stageVars, taskVars, Done
  <2>3. Abstract!Finish
    BY <1>3, <2>1, <2>2 DEF Abstract!Finish
  <2> QED
    BY <2>3 DEF Abstract!Next
<1>4. CASE OpenStage \/ StageCompletes \/ MarkStageComplete \/ Shutdown
             \/ (CollectResults /\ epoch # NumStages)
  <2>1. UNCHANGED <<epoch, results>>
    BY <1>4 DEF OpenStage, StageCompletes, MarkStageComplete, Shutdown, CollectResults, stageVars,
       taskVars
  <2>2. Outcome' = Outcome
    BY <1>4 DEF OpenStage, StageCompletes, MarkStageComplete, Shutdown, CollectResults
  <2> QED
    BY <2>1, <2>2 DEF Done
<1> QED
  BY <1>1, <1>2, <1>3, <1>4 DEF MainThread

\* The one thing that the rest of the pool does to a stage is to compute a shard.
LEMMA OutsideRefines ==
  ASSUME PromptResults, CoordTypeOK, ProcTypeOK, StageInv, Next, ~RunsPipeline
  PROVE  Abstract!Next \/ UNCHANGED <<epoch, Done, Outcome>>
<1>1. OnceInv /\ "report" \notin LossyCalls /\ \A p \in Procs : ~LostPull(p)
  BY DEF StageInv, PromptResults, LostPull
<1>2. ASSUME UNCHANGED <<main, epoch, results>>
      PROVE  UNCHANGED <<epoch, Done, Outcome>>
  BY <1>2 DEF Done, Outcome
<1>3. CASE BackgroundLoop \/ StartsPipelineAgain
  BY <1>2, <1>3 DEF BackgroundLoop, StartsPipelineAgain, CheckWorkerGroup, WorkerGroupAnswer,
     RunPipelineAgain, taskVars, stageVars, threadVars
<1>4. ASSUME NEW w \in Slots, OtherCall(w) \/ CheckHeartbeats(w)
      PROVE  UNCHANGED <<epoch, Done, Outcome>>
  BY <1>2, <1>4, OtherCallEffect DEF taskVars, stageVars, RecordShardFailure
<1>5. ASSUME NEW p \in Procs, PullsTask(p) \/ UNCHANGED coordVars
      PROVE  UNCHANGED <<epoch, Done, Outcome>>
  BY <1>2, <1>5 DEF PullsTask, PullTask, PullSeen, coordVars, taskVars, stageVars, threadVars
<1>6. ASSUME NEW p \in Procs, Accepted(p)
      PROVE  Abstract!Next
  <2> DEFINE s == job[p].shard
  <2>1. s \in Shards
    BY ProcArguments
  <2>2. /\ results[s] = Empty /\ epoch > 0 /\ epoch' = epoch
        /\ results' = [results EXCEPT ![s] = epoch]
    BY <1>1, <1>6, AcceptedClaims DEF Accepted
  <2>3. main' = main
    BY <1>6 DEF Accepted, ReportAccepted, threadVars
  <2>4. s \notin Done /\ Done' = Done \cup {s}
    BY <2>1, <2>2 DEF Done, CoordTypeOK, TaskTypeOK, StageTypeOK
  <2>5. Abstract!Compute(s)
    BY <2>2, <2>3, <2>4 DEF Abstract!Compute, Outcome
  <2> QED
    BY <2>1, <2>5 DEF Abstract!Next
<1>7. ASSUME NEW p \in Procs,
             \/ WorkerStep(p) \/ Restart(p) \/ KilledByJob(p)
             \/ Crash(p) \/ LosesReply(p) \/ GivesUp(p) \/ HeartbeatLoopFails(p)
      PROVE  Abstract!Next \/ UNCHANGED <<epoch, Done, Outcome>>
  BY <1>1, <1>4, <1>5, <1>6, <1>7, WorkerStepKinds, FaultKindsOfStep, ProcArguments
<1> QED
  BY <1>3, <1>4, <1>7 DEF Next, HeartbeatTimesOut

\* The caller of run_pipeline sees the stages of ZephyrStages: they begin in
\* order, each when the one before is done, a shard is computed once in each, and
\* the pipeline finishes after the last.  (That it ends is liveness.)
THEOREM PoolImplementsStages ==
  ASSUME PromptResults
  PROVE  Spec => Abstract!Safety
<1>1. Init => Abstract!Init
  BY DEF Init, CoordInit, Abstract!Init, Done, Outcome
<1>2. StageInv /\ TypeOK /\ [Next]_vars => [Abstract!Next]_(Abstract!vars)
  <2> SUFFICES ASSUME StageInv, TypeOK, [Next]_vars
               PROVE  Abstract!Next \/ UNCHANGED <<epoch, Done, Outcome>>
    BY DEF Abstract!vars
  <2>1. CoordTypeOK /\ ProcTypeOK
    BY DEF TypeOK, ProcTypeOK
  <2>2. CASE RunsPipeline
    BY <2>1, <2>2, MainThreadRefines DEF RunsPipeline
  <2>3. CASE UNCHANGED vars
    BY <2>3 DEF vars, coordVars, taskVars, stageVars, threadVars, Done, Outcome
  <2> QED
    BY <2>1, <2>2, <2>3, OutsideRefines
<1> QED
  BY <1>1, <1>2, PoolStages, PTL DEF Spec, Abstract!Safety
=============================================================================
