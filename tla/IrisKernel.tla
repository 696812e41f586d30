----------------------------- MODULE IrisKernel -----------------------------
(***************************************************************************)
(* The reconcile kernel of the Iris controller                             *)
(* (lib/iris/src/iris/cluster/controller/reconcile): pure rules that turn  *)
(* the rows of one job's tasks and an outcome into new rows.  A row is the *)
(* task with its attempts, the last of which is current_attempt_id; an     *)
(* attempt that is not finished (finished_at_ms NULL) and bound to a       *)
(* worker holds that worker's capacity.                                    *)
(*                                                                         *)
(* The code works on an Overlay, the changes made so far in a batch over   *)
(* the snapshot it was opened with: here rows is the overlay, old the      *)
(* snapshot's row.  One job is modelled, without child jobs.               *)
(***************************************************************************)
EXTENDS Integers, Sequences, FiniteSets

CONSTANTS
  Tasks,                \* of the job
  Workers,
  NoWorker,             \* worker_id NULL
  Gang,                 \* the job has coscheduling
  MaxRetriesFailure,    \* a task's budgets
  MaxRetriesPreemption,
  MaxTaskFailures       \* the job's

ASSUME KernelAssumption ==
  /\ Tasks # {} /\ IsFiniteSet(Tasks)
  /\ NoWorker \notin Workers
  /\ Gang \in BOOLEAN
  /\ MaxRetriesFailure \in Nat
  /\ MaxRetriesPreemption \in Nat
  /\ MaxTaskFailures \in Nat

Executing == {"BUILDING", "RUNNING"}
Active == {"ASSIGNED"} \cup Executing
Terminal == {"SUCCEEDED", "FAILED", "KILLED", "WORKER_FAILED", "PREEMPTED",
             "COSCHED_FAILED", "UNSCHEDULABLE"}
TaskStates == {"PENDING"} \cup Active \cup Terminal
JobEnds == {"SUCCEEDED", "FAILED", "KILLED", "WORKER_FAILED", "UNSCHEDULABLE"}
JobStates == {"PENDING", "RUNNING"} \cup JobEnds

\* FAILURE_TASK_STATES and PEER_CASCADE_TRIGGER_STATES
Failures == {"FAILED", "WORKER_FAILED", "PREEMPTED"}
PeerTriggers == Failures \cup {"KILLED"}

Attempt == [state : TaskStates, worker : Workers \cup {NoWorker}, finished : BOOLEAN]
Row == [state : TaskStates, failures : Nat, preemptions : Nat, attempts : Seq(Attempt)]

Started(row) == row.attempts # <<>>
Current(row) == row.attempts[Len(row.attempts)]
IsCurrent(row, t, n) == Started(row) /\ n = Len(row.attempts)

-----------------------------------------------------------------------------
(* One row                                                                 *)

\* The attempts with the current one in state as; finished_at is written
\* once, so a stamp stays.
Mark(row, as, stamp) ==
  IF Started(row)
    THEN [row.attempts EXCEPT ![Len(row.attempts)] =
            [state |-> as, worker |-> Current(row).worker,
             finished |-> Current(row).finished \/ stamp]]
    ELSE row.attempts

Terminate(row, state, as, stamp) ==
  [row EXCEPT !.state = state, !.attempts = Mark(row, as, stamp)]

\* The task loses its attempt without being at fault: the next state and the
\* preemption count.  An assigned task retries for free.
Resolve(prior, count, terminal) ==
  LET charged == IF prior \in Executing THEN count + 1 ELSE count
      retries == \/ prior = "ASSIGNED"
                 \/ prior \in Executing /\ charged <= MaxRetriesPreemption
  IN  [state |-> IF retries THEN "PENDING" ELSE terminal, count |-> charged]

Evict(row, terminal, as, stamp) ==
  LET next == Resolve(row.state, row.preemptions, terminal)
  IN  [Terminate(row, next.state, as, stamp) EXCEPT !.preemptions = next.count]

\* No retry is left.  A task that timed out is FAILED within its budget: its
\* row does not count as finished.
Finished(row) ==
  \/ row.state \in {"SUCCEEDED", "KILLED", "UNSCHEDULABLE", "COSCHED_FAILED"}
  \/ row.state = "FAILED" /\ row.failures > MaxRetriesFailure
  \/ row.state \in {"WORKER_FAILED", "PREEMPTED"} /\ row.preemptions > MaxRetriesPreemption

\* Where a worker's report u takes the row: [task, attempt, state].
Transition(row, u) ==
  CASE u.state \in {"WORKER_FAILED", "KILLED"} -> Evict(row, "WORKER_FAILED", u.state, TRUE)
    [] u.state = "FAILED" ->
         [Terminate(row, IF row.failures < MaxRetriesFailure THEN "PENDING" ELSE "FAILED",
                    "FAILED", TRUE) EXCEPT !.failures = @ + 1]
    [] OTHER -> Terminate(row, u.state, u.state, u.state \in Terminal)

\* A report that is dropped: the batch ended the task meanwhile, the attempt
\* is not the current one, or there is nothing new in it (only failures carry
\* an error or an exit code).
Dropped(row, old, u) ==
  \/ row.state \in Terminal /\ row.state # old.state
  \/ u.attempt # Len(old.attempts)
  \/ ~Finished(old) /\ u.state = row.state /\ u.state \notin {"FAILED", "WORKER_FAILED"}

\* Bug: a task that failed or was preempted counts as retried, whatever its budget.
EndedOutright(row, old) == old.state \in {"SUCCEEDED", "KILLED", "UNSCHEDULABLE", "COSCHED_FAILED"}

\* Bug: only the task's end counts, not the attempt's.
EndedTask(row, old) == Finished(old)

\* The task or the attempt was ended by the controller: the report can only
\* say that the process is gone.
Ended(row, old) == Finished(old) \/ Current(row).state \in Terminal

Moves(row, old, u) == ~Dropped(row, old, u) /\ ~Ended(row, old)

Reported(row, old, u) ==
  CASE Moves(row, old, u) -> Transition(row, u)
    [] ~Dropped(row, old, u) /\ Ended(row, old) /\ u.state \in Terminal ->
         [row EXCEPT !.attempts = Mark(row, Current(row).state, TRUE)]
    [] OTHER -> row

\* The host could not bring the attempt up: charged to the worker's health.
BuildFailure(row, old, u) ==
  /\ Moves(row, old, u)
  /\ \/ u.state = "WORKER_FAILED" /\ row.state \in {"ASSIGNED", "BUILDING"}
     \/ u.state = "FAILED" /\ row.state = "BUILDING"

-----------------------------------------------------------------------------
(* The rows of the job                                                     *)

Siblings(rows, t) == {u \in Tasks \ {t} : rows[u].state \in Active}

\* Bug: siblings of a task that is requeued stay.
CascadeFailures(rows, t) ==
  [u \in Tasks |->
     IF Gang /\ u \in Siblings(rows, t) /\ rows[t].state \in Failures
       THEN Terminate(rows[u], "COSCHED_FAILED", "COSCHED_FAILED", FALSE) ELSE rows[u]]

\* What t's new state does to its siblings in a gang: they end with it, or go
\* back to PENDING with it, their attempts unfinished until the worker says so.
Cascade(rows, t) ==
  [u \in Tasks |->
     IF ~Gang \/ u \notin Siblings(rows, t) THEN rows[u]
     ELSE IF rows[t].state \in Failures
       THEN Terminate(rows[u], "COSCHED_FAILED", "COSCHED_FAILED", FALSE)
       ELSE Terminate(rows[u], "PENDING", "PREEMPTED", FALSE)]

ApplyUpdate(rows, snap, u) ==
  LET t == u.task
      next == [rows EXCEPT ![t] = Reported(rows[t], snap[t], u)]
  IN  IF Moves(rows[t], snap[t], u) /\ u.state \in PeerTriggers
        THEN Cascade(next, t) ELSE next

\* A task without a live attempt gets a new one.
Assign(rows, to) ==
  [t \in Tasks |->
     IF to[t] # NoWorker /\ rows[t].state = "PENDING"
       THEN [rows[t] EXCEPT !.state = "ASSIGNED",
               !.attempts = Append(@, [state |-> "ASSIGNED", worker |-> to[t], finished |-> FALSE])]
       ELSE rows[t]]

Preempt(rows, t) ==
  IF rows[t].state \in Active
    THEN Cascade([rows EXCEPT ![t] = Evict(rows[t], "PREEMPTED", "PREEMPTED", FALSE)], t)
    ELSE rows

Expire(rows, ts) ==
  [t \in Tasks |-> IF t \in ts /\ rows[t].state \notin Terminal
                     THEN [rows[t] EXCEPT !.state = "UNSCHEDULABLE"] ELSE rows[t]]

\* The rows that are still PENDING or active when the decision is applied.
Timeout(rows, ts) ==
  LET direct == {t \in ts : rows[t].state \notin Terminal}
      siblings == IF Gang THEN (UNION {Siblings(rows, t) : t \in direct}) \ direct ELSE {}
  IN  [t \in Tasks |->
         IF t \in direct
           THEN [Terminate(rows[t], "FAILED", "FAILED", FALSE) EXCEPT !.failures = @ + 1]
         ELSE IF t \in siblings
           THEN Terminate(rows[t], "COSCHED_FAILED", "COSCHED_FAILED", FALSE)
         ELSE rows[t]]

\* Bug: tasks on their way to a worker are overlooked.
OnExecuting(rows, ws) ==
  {t \in Tasks : rows[t].state \in Executing /\ Current(rows[t]).worker \in ws}

On(rows, ws) == {t \in Tasks : rows[t].state \in Active /\ Current(rows[t]).worker \in ws}

\* The workers of ts are gone: so are the attempts.  In a gang the first of
\* them takes its siblings along.
Fail(rows, ts) ==
  [t \in Tasks |-> IF t \in ts THEN Evict(rows[t], "WORKER_FAILED", "WORKER_FAILED", TRUE)
                               ELSE rows[t]]
FailOutcomes(rows, ws) ==
  IF ~Gang \/ On(rows, ws) = {} THEN {Fail(rows, On(rows, ws))}
  ELSE {Cascade(Fail(rows, {t}), t) : t \in On(rows, ws)}

\* remove_worker clears the references to its row.
Unbind(rows, ws) ==
  [t \in Tasks |-> [rows[t] EXCEPT !.attempts =
     [n \in DOMAIN @ |-> IF @[n].worker \in ws THEN [@[n] EXCEPT !.worker = NoWorker] ELSE @[n]]]]

\* Bug: a task that waits for a worker is not killed.
KillActive(rows) ==
  [t \in Tasks |-> IF rows[t].state \notin Active THEN rows[t]
                   ELSE Terminate(rows[t], "KILLED", "KILLED", FALSE)]

KillNonTerminal(rows) ==
  [t \in Tasks |-> IF rows[t].state \in Terminal THEN rows[t]
                   ELSE Terminate(rows[t], "KILLED", "KILLED", FALSE)]

-----------------------------------------------------------------------------
(* The job                                                                 *)

Some(rows, S) == \E t \in Tasks : rows[t].state \in S
Every(rows, S) == \A t \in Tasks : rows[t].state \in S
NumFailed(rows) == Cardinality({t \in Tasks : rows[t].state = "FAILED"})

\* recompute_state: the first case that applies.
JobEnd(rows) ==
  CASE Every(rows, {"SUCCEEDED"}) -> "SUCCEEDED"
    [] OTHER -> IF NumFailed(rows) > MaxTaskFailures THEN "FAILED"
       ELSE IF Some(rows, {"UNSCHEDULABLE"}) THEN "UNSCHEDULABLE"
       ELSE IF Some(rows, {"KILLED"}) THEN "KILLED"
       ELSE IF Some(rows, {"WORKER_FAILED", "PREEMPTED", "COSCHED_FAILED"}) THEN "WORKER_FAILED"
       ELSE "FAILED"

\* Bug: tasks out of preemption retries do not end the job.
EndsWhenFailed(rows) ==
  \/ Every(rows, {"SUCCEEDED"})
  \/ NumFailed(rows) > MaxTaskFailures
  \/ Some(rows, {"UNSCHEDULABLE", "KILLED"})

Ends(rows) ==
  \/ Every(rows, Terminal)
  \/ NumFailed(rows) > MaxTaskFailures
  \/ Some(rows, {"UNSCHEDULABLE", "KILLED"})

Recompute(rows, job) ==
  CASE job \in JobEnds -> job
    [] job \notin JobEnds /\ Ends(rows) -> JobEnd(rows)
    [] OTHER -> IF \E t \in Tasks : Started(rows[t]) THEN "RUNNING" ELSE "PENDING"

\* A job that ends takes its tasks along.
Settle(rows, job) ==
  IF Recompute(rows, job) \in JobEnds THEN KillNonTerminal(rows) ELSE rows
=============================================================================
