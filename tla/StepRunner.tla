----------------------------- MODULE StepRunner -----------------------------
(***************************************************************************)
(* StepRunner.run of lib/marin/src/marin/execution/step_runner.py: the     *)
(* thread that pulls steps from an iterable, launches each on a thread     *)
(* pool once its dependencies have completed, and drains; the pool's       *)
(* threads, each of which runs run_step; and the status file of every      *)
(* step, which other executors of the same steps write too.                *)
(*                                                                         *)
(* run_step is abstracted to its outcomes; StepLock is its protocol.  The  *)
(* runner polls its futures without a lock, so a job may end between any   *)
(* two statements of the runner.                                           *)
(***************************************************************************)
EXTENDS Naturals, FiniteSets

CONSTANTS
  Steps,          \* output paths, one per step
  Deps,           \* dep_paths of each step
  MaxConcurrent,  \* threads of the pool
  NoStep

ASSUME RunnerAssumption ==
  /\ Deps \in [Steps -> SUBSET Steps]
  /\ MaxConcurrent \in Nat \ {0}
  /\ NoStep \notin Steps

VARIABLES
  dryRun, force,   \* arguments of run: dry_run, force_run_failed
  disk,            \* status of each step: "none" (or RUNNING), "SUCCESS", "FAILED"
  job,             \* the future of each step
  scheduled,       \* steps the loop has come to
  completed, failed, running, waiting,
  failures,        \* the steps with an entry in the list `failures'
  main, current    \* the thread of run, and the step its loop is at

argVars == <<dryRun, force>>
sets == <<scheduled, completed, failed, running, waiting, failures>>
vars == <<argVars, disk, job, sets, main, current>>

Ended == {"returned", "raised", "aborted"}
Finished == {s \in running : job[s] \in {"ok", "error"}}

Init ==
  /\ dryRun \in BOOLEAN
  /\ force \in BOOLEAN
  /\ disk \in [Steps -> {"none", "SUCCESS", "FAILED"}]
  /\ job = [s \in Steps |-> "none"]
  /\ scheduled = {} /\ completed = {} /\ failed = {}
  /\ running = {} /\ waiting = {} /\ failures = {}
  /\ main = "pull"
  /\ current = NoStep

-----------------------------------------------------------------------------
(* The thread of run                                                       *)

\* The next step in the post-order of _expand_unseen: its dependencies come first.
Pulls(s) ==
  /\ main = "pull"
  /\ s \notin scheduled
  /\ Deps[s] \subseteq scheduled
  /\ scheduled' = scheduled \cup {s}
  /\ current' = s
  /\ main' = "harvest"
  /\ UNCHANGED <<argVars, disk, job, completed, failed, running, waiting, failures>>

IterableEnds ==
  /\ main = "pull"
  /\ scheduled = Steps
  /\ main' = "drain"
  /\ UNCHANGED <<argVars, disk, job, sets, current>>

\* Bug: a failed step is only removed from the running ones.
HarvestDropsFailed ==
  /\ main = "harvest"
  /\ \E done \in SUBSET Finished :
       /\ running' = running \ done
       /\ completed' = completed \cup {s \in done : job[s] = "ok"}
       /\ failures' = failures \cup {s \in done : job[s] = "error"}
  /\ main' = "flush"
  /\ UNCHANGED <<argVars, disk, job, scheduled, failed, waiting, current>>

\* _harvest: some of the finished jobs, at least one when it blocks.
Harvest ==
  /\ main = "harvest"
  /\ \E done \in SUBSET Finished :
       /\ current # NoStep \/ running = {} \/ done # {}
       /\ running' = running \ done
       /\ completed' = completed \cup {s \in done : job[s] = "ok"}
       /\ failed' = failed \cup {s \in done : job[s] = "error"}
       /\ failures' = failures \cup {s \in done : job[s] = "error"}
  /\ main' = "flush"
  /\ UNCHANGED <<argVars, disk, job, scheduled, waiting, current>>

\* Bug: a dependency that has not completed counts as failed.
DepNotCompleted(s) == ~(Deps[s] \subseteq completed)

DepFailed(s) == Deps[s] \cap failed # {}

\* Bug: a step is launched when its dependencies have been scheduled.
DepsScheduled(s) == ~DepFailed(s) /\ Deps[s] \subseteq scheduled

DepsMet(s) == ~DepFailed(s) /\ Deps[s] \subseteq completed

(* _launch_step: skip, submit to the pool, or raise out of run.            *)

SkipsLaunch(s) == dryRun \/ disk[s] = "SUCCESS"

LaunchSkips(s) ==
  /\ SkipsLaunch(s)
  /\ completed' = completed \cup {s}
  /\ UNCHANGED <<job, running>>

LaunchSubmits(s) ==
  /\ ~SkipsLaunch(s)
  /\ force \/ disk[s] # "FAILED"
  /\ job' = [job EXCEPT ![s] = "queued"]
  /\ running' = running \cup {s}
  /\ UNCHANGED completed

\* PreviousTaskFailedError, no callable, or the store fails under .executor_info.
LaunchRaises(s) ==
  /\ ~SkipsLaunch(s)
  /\ main' = "aborted"
  /\ UNCHANGED <<completed, job, running>>

FlushFails(s) ==
  /\ main = "flush"
  /\ s \in waiting
  /\ DepFailed(s)
  /\ waiting' = waiting \ {s}
  /\ failed' = failed \cup {s}
  /\ UNCHANGED <<argVars, disk, job, scheduled, completed, running, failures, main, current>>

\* Bug: the step is launched and not popped from `waiting'.
FlushKeepsWaiting(s) ==
  /\ main = "flush" /\ s \in waiting /\ DepsMet(s)
  /\ (LaunchSkips(s) \/ LaunchSubmits(s)) /\ UNCHANGED main
  /\ UNCHANGED <<argVars, disk, scheduled, failed, waiting, failures, current>>

FlushLaunches(s) ==
  /\ main = "flush"
  /\ s \in waiting
  /\ DepsMet(s)
  /\ waiting' = waiting \ {s}
  /\ \/ (LaunchSkips(s) \/ LaunchSubmits(s)) /\ UNCHANGED main
     \/ LaunchRaises(s)
  /\ UNCHANGED <<argVars, disk, scheduled, failed, failures, current>>

\* The scan of `waiting' is in the order of scheduling, so one pass is enough.
FlushEnds ==
  /\ main = "flush"
  /\ \A s \in waiting : ~DepFailed(s) /\ ~DepsMet(s)
  /\ main' = IF current = NoStep THEN "drain" ELSE "place"
  /\ UNCHANGED <<argVars, disk, job, sets, current>>

PlaceFails(s) ==
  /\ main = "place" /\ current = s
  /\ DepFailed(s)
  /\ failed' = failed \cup {s}
  /\ main' = "pull"
  /\ current' = NoStep
  /\ UNCHANGED <<argVars, disk, job, scheduled, completed, running, waiting, failures>>

PlaceLaunches(s) ==
  /\ main = "place" /\ current = s
  /\ DepsMet(s)
  /\ \/ (LaunchSkips(s) \/ LaunchSubmits(s)) /\ main' = "pull"
     \/ LaunchRaises(s)
  /\ current' = NoStep
  /\ UNCHANGED <<argVars, disk, scheduled, failed, waiting, failures>>

\* Bug: the loop has moved on when its step is appended.
WaitsForNothing(s) ==
  /\ main = "place" /\ current = s /\ ~DepFailed(s) /\ ~DepsMet(s)
  /\ current' = NoStep
  /\ waiting' = waiting \cup {current'}
  /\ main' = "pull"
  /\ UNCHANGED <<argVars, disk, job, scheduled, completed, failed, running, failures>>

PlaceWaits(s) ==
  /\ main = "place" /\ current = s
  /\ ~DepFailed(s) /\ ~DepsMet(s)
  /\ waiting' = waiting \cup {s}
  /\ main' = "pull"
  /\ current' = NoStep
  /\ UNCHANGED <<argVars, disk, job, scheduled, completed, failed, running, failures>>

Drain ==
  /\ main = "drain"
  /\ main' = IF running \cup waiting # {} THEN "harvest"
             ELSE IF failures = {} THEN "returned" ELSE "raised"
  /\ UNCHANGED <<argVars, disk, job, sets, current>>

Run ==
  \/ IterableEnds \/ Harvest \/ FlushEnds \/ Drain
  \/ \E s \in Steps : \/ Pulls(s) \/ FlushFails(s) \/ FlushLaunches(s)
                      \/ PlaceFails(s) \/ PlaceLaunches(s) \/ PlaceWaits(s)

-----------------------------------------------------------------------------
(* The pool, and other executors                                           *)

JobStarts(s) ==
  /\ job[s] = "queued"
  /\ Cardinality({r \in Steps : job[r] = "executing"}) < MaxConcurrent
  /\ job' = [job EXCEPT ![s] = "executing"]
  /\ UNCHANGED <<argVars, disk, sets, main, current>>

\* run_step returns: it has written SUCCESS, or has found it.
JobSucceeds(s) ==
  /\ job[s] = "executing"
  /\ job' = [job EXCEPT ![s] = "ok"]
  /\ disk' = [disk EXCEPT ![s] = "SUCCESS"]
  /\ UNCHANGED <<argVars, sets, main, current>>

\* run_step raises: it has written FAILED, or could not, or has lost its lease.
JobFails(s) ==
  /\ job[s] = "executing"
  /\ job' = [job EXCEPT ![s] = "error"]
  /\ \/ disk[s] # "SUCCESS" /\ disk' = [disk EXCEPT ![s] = "FAILED"]
     \/ UNCHANGED disk
  /\ UNCHANGED <<argVars, sets, main, current>>

\* Another executor ends the same step.  StepLock keeps a SUCCESS.
PeerEnds(s) ==
  /\ disk[s] # "SUCCESS"
  /\ \E status \in {"SUCCESS", "FAILED"} : disk' = [disk EXCEPT ![s] = status]
  /\ UNCHANGED <<argVars, job, sets, main, current>>

Pool(s) == JobStarts(s) \/ JobSucceeds(s) \/ JobFails(s)

Next == Run \/ \E s \in Steps : Pool(s) \/ PeerEnds(s)

Spec == Init /\ [][Next]_vars

(* The runner's thread runs, and every job gets a thread and ends.         *)
FairSpec == Spec /\ WF_vars(Run) /\ \A s \in Steps : WF_vars(Pool(s))

-----------------------------------------------------------------------------
(* Properties                                                              *)

\* Every variable holds a value of its kind.
TypeOK ==
  /\ dryRun \in BOOLEAN /\ force \in BOOLEAN
  /\ disk \in [Steps -> {"none", "SUCCESS", "FAILED"}]
  /\ job \in [Steps -> {"none", "queued", "executing", "ok", "error"}]
  /\ \A set \in {scheduled, completed, failed, running, waiting, failures} : set \subseteq Steps
  /\ main \in {"pull", "harvest", "flush", "place", "drain"} \cup Ended
  /\ current \in Steps \cup {NoStep}

\* A step is given to the pool only after the status files of all its dependencies
\* say SUCCESS, whoever wrote them.
DepsFirst ==
  \A s \in Steps, d \in Steps :
    job[s] # "none" /\ d \in Deps[s] => disk[d] = "SUCCESS"

\* A step is in one place: it is launched once, and it is not counted twice.
OnePlace ==
  /\ completed \cap failed = {} /\ running \cap waiting = {}
  /\ (completed \cup failed) \cap (running \cup waiting) = {}

\* A step fails for a reason of its own or because of a dependency that failed.
FailedForCause ==
  \A s \in failed : job[s] = "error" \/ \E d \in Deps[s] : d \in failed

\* When run ends by itself every step is accounted for, and it raises exactly when
\* some step has failed.
Accounted ==
  main \in {"returned", "raised"} =>
    /\ completed \cup failed = Steps
    /\ main = "raised" <=> failed # {}

\* run ends: neither the drain nor a waiting step can wait for something that will
\* not come.
Drains == <>(main \in Ended)
=============================================================================
