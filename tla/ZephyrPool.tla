---------------------------- MODULE ZephyrPool ----------------------------
(***************************************************************************)
(* A Zephyr worker pool: the worker processes (ZephyrWorker._stage_manager *)
(* and ._poll_loop) composed with the coordinator of ZephyrCoordinator.    *)
(*                                                                         *)
(* A process is a slot and an incarnation of the Iris task that hosts it:  *)
(* the slot's name is its worker id, which the next incarnation reuses.    *)
(* A handler runs on the coordinator in the step in which its caller moves *)
(* on; the faults below make the two differ.                               *)
(***************************************************************************)
EXTENDS ZephyrCoordinator

CONSTANTS
  MaxIncarnations,   \* processes Iris starts for one slot
  LossyCalls,        \* the calls whose reply may be lost
  Faults,            \* the kinds of fault that happen
  MaxFaults          \* and how many in all

FaultKinds == {"crash",     \* a process dies
               "replaced",  \* Iris gives up on a process that still runs
               "lost",      \* the handler ran, the reply was lost
               "giveup",    \* an RPC fails after its last retry
               "slow"}      \* a running process misses its heartbeats
Calls == {"register", "poll", "report", "error", "dereg"}   \* of a worker

ASSUME PoolAssumption ==
  /\ MaxIncarnations \in Nat \ {0}
  /\ LossyCalls \subseteq Calls \cup {"pipeline"}
  /\ Faults \subseteq FaultKinds
  /\ MaxFaults \in Nat

Procs == Slots \X (1 .. MaxIncarnations)
Id(p) == p[1]
Successor(p) == <<p[1], p[2] + 1>>
NoJob == [shard |-> 0, attempt |-> 0, stage |-> 0]
Job == [shard : Shards, attempt : Nat, stage : Nat]
Places == {"unborn", "idle", "run", "exited", "dead"} \cup Calls

VARIABLES
  pc,     \* where a process is
  ep,     \* the stage epoch register_worker gave it; 0 before the first one
  job,    \* the task it executes, with the stage that it was pulled in
  quit,   \* "done" once told SHUTDOWN, "fail" once its heartbeat loop gave up
  faults  \* how many faults have happened

procVars == <<pc, ep, job, quit>>
vars == <<coordVars, procVars, faults>>

Init ==
  /\ CoordInit
  /\ pc = [p \in Procs |-> IF p[2] = 1 THEN "idle" ELSE "unborn"]
  /\ ep = [p \in Procs |-> 0]
  /\ job = [p \in Procs |-> NoJob]
  /\ quit = [p \in Procs |-> "no"]
  /\ faults = 0

Live(p) == pc[p] \notin {"unborn", "exited", "dead"}
Active(p) == pc[p] \in {"poll", "run", "report", "error", "dereg"}
GoTo(p, place) == pc' = [pc EXCEPT ![p] = place]
Fault(k) == k \in Faults /\ faults < MaxFaults /\ faults' = faults + 1

-----------------------------------------------------------------------------
(* One slot of _stage_manager and _poll_loop.                              *)

\* get_current_stage_type answers with a stage.
SeesStage(p) ==
  /\ pc[p] = "idle" /\ quit[p] = "no" /\ stageOpen
  /\ GoTo(p, "register")
  /\ UNCHANGED <<coordVars, ep, job, quit, faults>>

Register(p) ==
  /\ pc[p] = "register"
  /\ RegisterWorker(Id(p))
  /\ ep' = [ep EXCEPT ![p] = epoch]
  /\ GoTo(p, "poll")
  /\ UNCHANGED <<job, quit, faults>>

\* The poll loop leaves when the heartbeat loop has set _shutdown_event.
LeavesPollLoop(p) ==
  /\ pc[p] = "poll" /\ quit[p] = "fail"
  /\ GoTo(p, "dereg")
  /\ UNCHANGED <<coordVars, ep, job, quit, faults>>

PullsTask(p) ==
  /\ pc[p] = "poll" /\ quit[p] # "fail"
  /\ PullTask(Id(p), ep[p])
  /\ job' = [job EXCEPT ![p] = [shard |-> Assigned.shard,
                                attempt |-> Assigned.attempt, stage |-> epoch]]
  /\ GoTo(p, "run")
  /\ UNCHANGED <<ep, quit, faults>>

PullsNothing(p) ==
  /\ pc[p] = "poll" /\ quit[p] # "fail"
  /\ \/ /\ PullNoWorkBackoff(Id(p), ep[p])
        /\ UNCHANGED <<pc, quit>>
     \/ /\ PullStageCompleted(Id(p), ep[p])
        /\ GoTo(p, "dereg")
        /\ UNCHANGED quit
     \/ /\ PullShutdown(Id(p), ep[p])
        /\ GoTo(p, "dereg")
        /\ quit' = [quit EXCEPT ![p] = "done"]
  /\ UNCHANGED <<ep, job, faults>>

\* _execute_shard returns or raises.
RunsShard(p) ==
  /\ pc[p] = "run"
  /\ GoTo(p, "report") \/ GoTo(p, "error")
  /\ UNCHANGED <<coordVars, ep, job, quit, faults>>

\* An AssertionError of the handler comes back to the caller, and lands in
\* the `except' that calls report_error.
Reports(p) ==
  /\ pc[p] = "report"
  /\ \/ /\ ReportResult(Id(p), job[p].shard, job[p].attempt, job[p].stage)
        /\ GoTo(p, "poll")
        /\ job' = [job EXCEPT ![p] = NoJob]
     \/ /\ ReportAsserts(Id(p), job[p].shard)
        /\ GoTo(p, "error")
        /\ UNCHANGED job
  /\ UNCHANGED <<ep, quit, faults>>

\* An exception of report_error ends the slot's thread.
ReportsError(p) ==
  /\ pc[p] = "error"
  /\ \/ ReportError(Id(p), job[p].shard) /\ GoTo(p, "poll")
     \/ ReportAsserts(Id(p), job[p].shard) /\ GoTo(p, "dereg")
  /\ job' = [job EXCEPT ![p] = NoJob]
  /\ UNCHANGED <<ep, quit, faults>>

\* After its slot has been told SHUTDOWN the process exits with code 0, after
\* a failure of the heartbeat loop with code 1; otherwise it looks for the
\* next stage.
AfterStage(p) ==
  GoTo(p, CASE quit[p] = "no" -> "idle" [] quit[p] = "done" -> "exited"
            [] OTHER -> "dead")

Deregisters(p) ==
  /\ pc[p] = "dereg"
  /\ DeregisterWorker(Id(p))
  /\ AfterStage(p)
  /\ UNCHANGED <<ep, job, quit, faults>>

LeavesIdle(p) ==
  /\ pc[p] = "idle" /\ quit[p] = "fail"
  /\ GoTo(p, "dead")
  /\ UNCHANGED <<coordVars, ep, job, quit, faults>>

\* A heartbeat sent while the slot was active arrives now.
HeartbeatArrives(p) ==
  /\ Live(p) /\ ep[p] > 0
  /\ Heartbeat(Id(p))
  /\ UNCHANGED <<procVars, faults>>

WorkerStep(p) ==
  \/ SeesStage(p) \/ Register(p) \/ LeavesPollLoop(p) \/ PullsTask(p)
  \/ PullsNothing(p) \/ RunsShard(p) \/ Reports(p) \/ ReportsError(p)
  \/ Deregisters(p) \/ LeavesIdle(p) \/ HeartbeatArrives(p)

-----------------------------------------------------------------------------
(* Faults.                                                                 *)

Die(p) ==
  /\ GoTo(p, "dead")
  /\ ep' = [ep EXCEPT ![p] = 0]
  /\ job' = [job EXCEPT ![p] = NoJob]
  /\ quit' = [quit EXCEPT ![p] = "no"]

Crash(p) ==
  /\ Live(p)
  /\ Fault("crash")
  /\ Die(p)
  /\ UNCHANGED coordVars

\* The handler of the pending call runs, its reply is lost, and call_with_retry
\* sends the call again: the process stays where it is.
LosesReply(p) ==
  /\ Live(p) /\ pc[p] \in LossyCalls
  /\ Fault("lost")
  /\ LET w == Id(p)  s == job[p].shard
     IN  \/ pc[p] = "register" /\ RegisterWorker(w)
         \/ pc[p] = "poll" /\ \/ PullTask(w, ep[p])
                              \/ PullNoWorkBackoff(w, ep[p])
                              \/ PullStageCompleted(w, ep[p])
                              \/ PullShutdown(w, ep[p])
         \/ pc[p] = "report" /\ \/ ReportResult(w, s, job[p].attempt, job[p].stage)
                                \/ ReportAsserts(w, s)
         \/ pc[p] = "error" /\ (ReportError(w, s) \/ ReportAsserts(w, s))
         \/ pc[p] = "dereg" /\ DeregisterWorker(w)
  /\ UNCHANGED procVars

\* The pending call raises in the process.
GivesUp(p) ==
  /\ Fault("giveup")
  /\ \/ pc[p] \in {"register", "poll", "error"} /\ GoTo(p, "dereg")
     \/ pc[p] = "report" /\ GoTo(p, "error")
     \/ pc[p] = "dereg" /\ AfterStage(p)
  /\ UNCHANGED <<coordVars, ep, job, quit>>

\* max_consecutive_failures heartbeats have failed.
HeartbeatLoopFails(p) ==
  /\ Live(p) /\ quit[p] # "fail"
  /\ Fault("giveup")
  /\ quit' = [quit EXCEPT ![p] = "fail"]
  /\ UNCHANGED <<coordVars, pc, ep, job>>

\* Nobody sends heartbeats for the slot.
Silent(w) == \A p \in Procs : (Id(p) = w /\ Active(p)) => quit[p] = "fail"

HeartbeatTimesOut(w) ==
  /\ CheckHeartbeats(w)
  /\ IF Silent(w) THEN UNCHANGED faults ELSE Fault("slow")
  /\ UNCHANGED procVars

-----------------------------------------------------------------------------
(* Iris: the job that hosts the processes.  One task that has used up its  *)
(* retries fails the job (max_task_failures = 0), and with it its siblings.*)

JobFailed == \E w \in Slots : pc[<<w, MaxIncarnations>>] = "dead"
JobSucceeded == \A w \in Slots : \E p \in Procs : Id(p) = w /\ pc[p] = "exited"
GroupDone == JobFailed \/ JobSucceeded

Restart(p) ==
  /\ ~JobFailed
  /\ p[2] < MaxIncarnations
  /\ pc[Successor(p)] = "unborn"
  /\ \/ pc[p] = "dead" /\ UNCHANGED faults
     \/ Live(p) /\ Fault("replaced")
  /\ GoTo(Successor(p), "idle")
  /\ UNCHANGED <<coordVars, ep, job, quit>>

KilledByJob(p) ==
  /\ JobFailed \/ shutdown
  /\ Live(p)
  /\ Die(p)
  /\ UNCHANGED <<coordVars, faults>>

BackgroundLoop ==
  /\ CheckWorkerGroup \/ WorkerGroupAnswer(GroupDone)
  /\ UNCHANGED <<procVars, faults>>

RunsPipeline == MainThread /\ UNCHANGED <<procVars, faults>>

\* start_operation(run_pipeline) is retried like any other call.
StartsPipelineAgain ==
  /\ "pipeline" \in LossyCalls
  /\ RunPipelineAgain
  /\ Fault("lost")
  /\ UNCHANGED procVars

Next ==
  \/ RunsPipeline \/ BackgroundLoop \/ StartsPipelineAgain
  \/ \E w \in Slots : HeartbeatTimesOut(w)
  \/ \E p \in Procs :
       \/ WorkerStep(p) \/ Restart(p) \/ KilledByJob(p)
       \/ Crash(p) \/ LosesReply(p) \/ GivesUp(p) \/ HeartbeatLoopFails(p)

Spec == Init /\ [][Next]_vars

\* Threads are scheduled, dead workers are noticed and restarted.  Faults need
\* not happen, and neither does an error of a shard.
Progress(p) ==
  \/ SeesStage(p) \/ Register(p) \/ LeavesPollLoop(p) \/ PullsTask(p)
  \/ PullsNothing(p) \/ RunsShard(p) \/ Reports(p) \/ ReportsError(p)
  \/ Deregisters(p) \/ LeavesIdle(p)

Fairness ==
  /\ WF_vars(RunsPipeline)
  /\ WF_vars(BackgroundLoop)
  /\ \A w \in Slots : WF_vars(Silent(w) /\ HeartbeatTimesOut(w))
  /\ \A p \in Procs : WF_vars(Progress(p))
  /\ \A w \in Slots, i \in 1 .. MaxIncarnations - 1 :
       WF_vars(Restart(<<w, i>>) /\ UNCHANGED faults)

FairSpec == Spec /\ Fairness

-----------------------------------------------------------------------------
(* Properties.                                                             *)

\* Every variable holds a value of its kind.
TypeOK ==
  /\ CoordTypeOK
  /\ pc \in [Procs -> Places]
  /\ ep \in [Procs -> Nat]
  /\ job \in [Procs -> Job]
  /\ quit \in [Procs -> {"no", "done", "fail"}]
  /\ faults \in Nat

\* While a stage runs no shard is forgotten, or computed twice at once: it waits
\* in the queue, is in the hands of a slot, or has its result.
NoShardLost ==
  main = "waiting" /\ fatal = "none" =>
    \A s \in Shards :
      /\ Queued(s) \/ results[s] # Empty \/ \E w \in Slots : Holds(w, s)
      /\ results[s] # Empty => ~Queued(s) /\ \A w \in Slots : ~Holds(w, s)

\* A stage ends (_wait_for_stage returns) only when every shard has a result of
\* that very stage, and a stage reads only what the whole stage before computed.
StageBarrier ==
  /\ main \in {"completed", "marked"} => \A s \in Shards : results[s] = epoch
  /\ main \in {"next", "finished"} => \A s \in Shards : inputs[s] = epoch

\* A result recorded for a stage is never replaced within the stage, and the
\* count of completed shards is the number of recorded results.
FirstResultWins ==
  [][/\ epoch' = epoch =>
          \A s \in Shards : results[s] # Empty => results'[s] = results[s]
     /\ completed' = Cardinality({s \in Shards : results'[s] # Empty})]_vars

\* The pool does what ZephyrStages promises to the caller of run_pipeline: stages
\* in order, each complete before the next, and an outcome in the end.
Outcome == IF main \in {"finished", "failed"} THEN main ELSE "running"
Done == {s \in Shards : results[s] # Empty}
Abstract == INSTANCE ZephyrStages WITH stage <- epoch, done <- Done, outcome <- Outcome
SequentialStages == Abstract!Spec

-----------------------------------------------------------------------------
(* What a comment of the code promises, which a slow slot breaks.           *)

\* "_task_attempts: monotonic generation for stale-result rejection": a result
\* that is recorded was computed in the running stage.
StaleResultsRejected ==
  main = "waiting" => \A s \in Shards : results[s] \in {Empty, epoch}
=============================================================================
