------------------------------ MODULE StepLock ------------------------------
(***************************************************************************)
(* Workers that run the same step (run_step of                             *)
(* lib/marin/src/marin/execution/step_runner.py): each looks at the status *)
(* file and takes the lease of DistributedLock (should_run of              *)
(* executor_step_status.py), runs the step's function while a heartbeat    *)
(* thread refreshes the lease (step_lock), writes SUCCESS or FAILED, stops *)
(* the heartbeat and releases the lease.                                   *)
(*                                                                         *)
(* A worker has two threads: `at' is where its main thread is and `beat'   *)
(* where its heartbeat thread is.  Every read or write of the store is a   *)
(* step.  A worker runs the step once: another attempt at the same step is *)
(* another member of Workers.                                              *)
(*                                                                         *)
(* The leases of live workers stay fresh (a refresh every                  *)
(* HEARTBEAT_INTERVAL of 30 s, HEARTBEAT_TIMEOUT 90 s) unless the fault    *)
(* "pause" delays a worker for longer.                                     *)
(***************************************************************************)
EXTENDS DistributedLock

CONSTANTS
  ForceRunFailed,  \* force_run_failed of step_lock
  Faults,          \* the kinds of fault that may happen
  MaxFaults        \* how many faults happen at most

FaultKinds == {"crash",   \* a worker dies
               "error",   \* a call of the store by the main thread raises
               "resent",  \* an acquiring write is applied, and rejected when sent again
               "beat",    \* a refresh raises something that is not LeaseLostError
               "unsure",  \* the write of SUCCESS is applied, and raises
               "pause"}   \* a lease of a live worker goes stale

ASSUME StepLockAssumption ==
  /\ ForceRunFailed \in BOOLEAN
  /\ Faults \subseteq FaultKinds
  /\ MaxFaults \in Nat

VARIABLES
  status,  \* the status file
  at,      \* per worker: the next statement of its main thread
  beat,    \* per worker: its heartbeat thread
  faults   \* faults so far

stepVars == <<status, at, beat, faults>>
vars == <<lockVars, stepVars>>

Final == {"skipped", "refused", "finished", "lost", "raised", "crashed"}

\* From the acquisition to the release.
Holding == {"recheck", "mark", "run", "failing", "stop", "join", "release", "delete"}

Init ==
  /\ LockInit
  /\ status = "none"
  /\ at = [w \in Workers |-> "check"]
  /\ beat = [w \in Workers |-> "off"]
  /\ faults = 0

Goes(w, from, to) == at[w] = from /\ at' = [at EXCEPT ![w] = to]

Fault(kind) == kind \in Faults /\ faults < MaxFaults /\ faults' = faults + 1

-----------------------------------------------------------------------------
(* should_run                                                              *)

\* Also the cache check that run_step makes before step_lock.
SeesSuccess(w) ==
  /\ status = "SUCCESS"
  /\ Goes(w, "check", "skipped")
  /\ UNCHANGED <<lockVars, status, beat, faults>>

SeesFailed(w) ==
  /\ status = "FAILED"
  /\ Goes(w, "check", IF ForceRunFailed THEN "acquire" ELSE "refused")
  /\ UNCHANGED <<lockVars, status, beat, faults>>

SeesRunning(w) ==
  /\ status = "RUNNING"
  /\ Goes(w, "check", "active")
  /\ UNCHANGED <<lockVars, status, beat, faults>>

SeesNoStatus(w) ==
  /\ status = "none"
  /\ Goes(w, "check", "acquire")
  /\ UNCHANGED <<lockVars, status, beat, faults>>

\* Bug: has_active_holder answers that there is a lease, stale or not.
WaitsForStaleLock(w) ==
  /\ Goes(w, "active", IF lease # NoLease THEN "check" ELSE "acquire")
  /\ UNCHANGED <<lockVars, status, beat, faults>>

\* has_active_lock: wait for a fresh lease, take over a stale or absent one.
HasActiveLock(w) ==
  /\ Goes(w, "active", IF Active THEN "check" ELSE "acquire")
  /\ UNCHANGED <<lockVars, status, beat, faults>>

TriesToAcquire(w) ==
  /\ \/ AcquireBlocked(w) /\ Goes(w, "acquire", "check")
     \/ AcquireAlreadyHeld(w) /\ Goes(w, "acquire", "recheck")
     \/ AcquireReads(w) /\ Goes(w, "acquire", "write")
  /\ UNCHANGED <<status, beat, faults>>

Acquires(w) ==
  /\ \/ AcquireWrites(w) /\ Goes(w, "write", "recheck")
     \/ AcquireRaced(w) /\ Goes(w, "write", "check")
     \/ AcquireRaises(w) /\ Goes(w, "write", "raised")
  /\ UNCHANGED <<status, beat, faults>>

\* Bug: the status is not read again after the acquisition.
NoRecheck(w) ==
  /\ Goes(w, "recheck", "mark")
  /\ UNCHANGED <<lockVars, status, beat, faults>>

Rechecks(w) ==
  /\ Goes(w, "recheck", IF status = "SUCCESS" THEN "release" ELSE "mark")
  /\ UNCHANGED <<lockVars, status, beat, faults>>

\* RUNNING is written, should_run returns and step_lock starts the heartbeat.
MarksRunning(w) ==
  /\ Goes(w, "mark", "run")
  /\ status' = "RUNNING"
  /\ beat' = [beat EXCEPT ![w] = "wait"]
  /\ UNCHANGED <<lockVars, faults>>

-----------------------------------------------------------------------------
(* The body and the end of step_lock                                       *)

\* The function and Artifact.save have returned, or one of them has raised.
WritesStatus(w) ==
  /\ Goes(w, "run", "stop")
  /\ status' \in {"SUCCESS", "FAILED"}
  /\ UNCHANGED <<lockVars, beat, faults>>

\* The handler of run_step writes FAILED over a SUCCESS it knows nothing of.
WritesFailed(w) ==
  /\ Goes(w, "failing", "stop")
  /\ status' = "FAILED"
  /\ UNCHANGED <<lockVars, beat, faults>>

\* stop_event.set(): a heartbeat that is waiting ends.
StopsHeartbeat(w) ==
  /\ Goes(w, "stop", "join")
  /\ beat' = [beat EXCEPT ![w] = IF @ = "wait" THEN "off" ELSE @]
  /\ UNCHANGED <<lockVars, status, faults>>

\* join(timeout=5): it may time out while a refresh is under way.
JoinsHeartbeat(w) ==
  /\ Goes(w, "join", IF beat[w] = "lost" THEN "lost" ELSE "release")
  /\ UNCHANGED <<lockVars, status, beat, faults>>

Releases(w) ==
  /\ \/ ReleaseReads(w) /\ Goes(w, "release", "delete")
     \/ ReleaseFindsOther(w) /\ Goes(w, "release", "finished")
  /\ UNCHANGED <<status, beat, faults>>

DeletesLease(w) ==
  /\ ReleaseDeletes(w)
  /\ Goes(w, "delete", "finished")
  /\ UNCHANGED <<status, beat, faults>>

MainThread(w) ==
  \/ SeesSuccess(w) \/ SeesFailed(w) \/ SeesRunning(w) \/ SeesNoStatus(w)
  \/ HasActiveLock(w) \/ TriesToAcquire(w) \/ Acquires(w) \/ Rechecks(w)
  \/ MarksRunning(w) \/ WritesStatus(w) \/ WritesFailed(w)
  \/ StopsHeartbeat(w) \/ JoinsHeartbeat(w) \/ Releases(w) \/ DeletesLease(w)

-----------------------------------------------------------------------------
(* _heartbeat: it goes on by itself when join has timed out.               *)

Stopped(w) == at[w] \notin {"run", "failing", "stop"}

\* stop_event.wait(HEARTBEAT_INTERVAL) has timed out.
BeatIsDue(w) ==
  /\ beat[w] = "wait"
  /\ beat' = [beat EXCEPT ![w] = "due"]
  /\ UNCHANGED <<lockVars, status, at, faults>>

BeatReads(w) ==
  /\ beat[w] = "due"
  /\ \/ RefreshReads(w) /\ beat' = [beat EXCEPT ![w] = "write"]
     \/ RefreshFindsLost(w) /\ beat' = [beat EXCEPT ![w] = "lost"]
  /\ UNCHANGED <<status, at, faults>>

\* A rejected write raises FileExistsError or PreconditionFailed, which _heartbeat
\* does not catch: the thread is gone and lease_lost_event is not set.
BeatWrites(w) ==
  /\ beat[w] = "write"
  /\ \/ /\ RefreshWrites(w)
        /\ beat' = [beat EXCEPT ![w] = IF Stopped(w) THEN "off" ELSE "wait"]
     \/ RefreshRaises(w) /\ beat' = [beat EXCEPT ![w] = "dead"]
  /\ UNCHANGED <<status, at, faults>>

Heartbeat(w) == BeatReads(w) \/ BeatWrites(w)

-----------------------------------------------------------------------------
(* Faults and time                                                         *)

\* Both threads of the process are gone.
Crash(w) ==
  /\ Fault("crash")
  /\ at[w] \notin Final
  /\ at' = [at EXCEPT ![w] = "crashed"]
  /\ beat' = [beat EXCEPT ![w] = "off"]
  /\ UNCHANGED <<lockVars, status>>

\* A call of the main thread raises.  Inside the body the handler that writes FAILED
\* raises too and `finally' goes on; elsewhere run_step ends without a release.
StoreRaises(w) ==
  /\ Fault("error")
  /\ at[w] \notin Final \cup {"stop", "join"}
  /\ at' = [at EXCEPT ![w] = IF @ \in {"run", "failing"} THEN "stop" ELSE "raised"]
  /\ UNCHANGED <<lockVars, status, beat>>

\* write_status(SUCCESS) raises although the store has applied it.
SuccessRaises(w) ==
  /\ Fault("unsure")
  /\ Goes(w, "run", "failing")
  /\ status' = "SUCCESS"
  /\ UNCHANGED <<lockVars, beat>>

\* The store's client sends the write again when its answer is lost.
AcquireResent(w) ==
  /\ Fault("resent")
  /\ Backend # "local"
  /\ AcquireWrites(w)
  /\ Goes(w, "write", "check")
  /\ UNCHANGED <<status, beat>>

BeatRaises(w) ==
  /\ Fault("beat")
  /\ beat[w] \in {"due", "write"}
  /\ beat' = [beat EXCEPT ![w] = "dead"]
  /\ \/ UNCHANGED lockVars
     \/ Backend # "local" /\ beat[w] = "write" /\ RefreshWrites(w)
  /\ UNCHANGED <<status, at>>

\* A worker that refreshes its lease, or will before the timeout.
KeepsFresh(w) == at[w] \in Holding /\ beat[w] # "dead"

LeaseExpires ==
  /\ Active
  /\ \/ ~KeepsFresh(lease.owner) /\ UNCHANGED faults
     \/ KeepsFresh(lease.owner) /\ Fault("pause")
  /\ lease' = [lease EXCEPT !.fresh = FALSE]
  /\ UNCHANGED <<known, status, at, beat>>

Next ==
  \/ \E w \in Workers :
       \/ MainThread(w) \/ BeatIsDue(w) \/ Heartbeat(w)
       \/ Crash(w) \/ StoreRaises(w) \/ SuccessRaises(w) \/ AcquireResent(w)
       \/ BeatRaises(w)
  \/ LeaseExpires

Spec == Init /\ [][Next]_vars

(* Threads run, functions of steps return, and time passes.                *)
Fairness ==
  /\ \A w \in Workers : WF_vars(MainThread(w)) /\ WF_vars(Heartbeat(w))
  /\ WF_vars(LeaseExpires /\ UNCHANGED faults)

FairSpec == Spec /\ Fairness
-----------------------------------------------------------------------------
(* Properties                                                              *)

\* Every variable holds a value of its kind.
TypeOK ==
  /\ LockTypeOK
  /\ status \in {"none", "RUNNING", "SUCCESS", "FAILED"}
  /\ at \in [Workers -> Holding \cup Final \cup {"check", "active", "acquire", "write"}]
  /\ beat \in [Workers -> {"off", "wait", "due", "write", "lost", "dead"}]
  /\ faults \in Nat

\* Two workers are never both between their acquisition and their release: the
\* conditional write lets one of several contenders win, and a delete never removes
\* the lease of the next holder.
MutualExclusion == \A v, w \in Workers : at[v] \in Holding /\ at[w] \in Holding => v = w

\* "While fn is executing a heartbeat thread refreshes the lock so that other workers
\* see it as active" (distributed_lock of executor_step_status.py).
RunnersStayActive == \A w \in Workers : at[w] = "run" => HeldBy(w) /\ Active

\* The lease and the status file together run the step one worker at a time, and
\* never again after a SUCCESS (the re-read of should_run).
Abstract == INSTANCE StepOnce WITH running <- {w \in Workers : at[w] = "run"}
RunsOnce == Abstract!Spec

\* No write replaces a fresh lease of another worker.
FreshNotOverwritten ==
  [][Active /\ lease' # NoLease => lease'.owner = lease.owner]_vars

\* No worker waits for ever, whatever fails.
AllSettle == <>[](\A w \in Workers : at[w] \in Final)

=============================================================================
