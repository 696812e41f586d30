---------------------------- MODULE IrisJobProofs ----------------------------
(***************************************************************************)
(* Theorems about the job as a whole, on top of what IrisControllerProofs  *)
(* says of its rows: the job ends with its tasks, an attempt is charged    *)
(* once, a gang is placed and requeued as one.                             *)
(***************************************************************************)
EXTENDS IrisControllerProofs

USE DEF Executing, Active, Terminal, TaskStates

-----------------------------------------------------------------------------
(* Who writes the database                                                 *)

LEMMA NextWrites ==
  ASSUME [Next]_vars
  PROVE  \/ CommitSchedule \/ CommitReconcile \/ FailWorkers \/ CancelJob
         \/ \E r \in replies : ApplyObservation(r)
         \/ UNCHANGED db /\ (phase = "apply" => phase' = "apply")
<1>1. CASE TickStep
  BY <1>1 DEF TickStep, RpcReplies, FoldHealth, Forget
<1>2. CASE \E reconcile \in BOOLEAN : TickStart(reconcile)
  BY <1>2 DEF TickStart
<1>3. CASE \E w \in Workers : RpcFails(w) \/ RestartDaemon(w) \/ ResetDaemon(w) \/ Registers(w)
  BY <1>3 DEF RpcFails, RestartDaemon, ResetDaemon, Restarts, Registers
<1>4. CASE \/ \E r \in late : LateArrives(r)
           \/ \E p \in procs : Runs(p) \/ Succeeds(p) \/ Dies(p) \/ Breaks(p)
  BY <1>4 DEF LateArrives, Runs, Succeeds, Dies, Breaks, Becomes
<1>5. CASE ControllerRestarts \/ CancelJob
  BY <1>5 DEF ControllerRestarts, InTransaction
<1>6. CASE UNCHANGED vars
  BY <1>6 DEF vars
<1> QED  BY <1>1, <1>2, <1>3, <1>4, <1>5, <1>6 DEF Next

-----------------------------------------------------------------------------
(* The job and its tasks                                                   *)

AllEnded(rows) == \A t \in Tasks : rows[t].state \in Terminal

\* A job that is over never has a task that is not; the other direction waits for the
\* recompute pass of the transaction.
Settled ==
  /\ job \in JobEnds => AllEnded(tasks)
  /\ phase # "apply" /\ AllEnded(tasks) => job \in JobEnds

LEMMA KillEnds ==
  ASSUME NEW rows, GoodRows(rows)
  PROVE  AllEnded(KillNonTerminal(rows))
<1> SUFFICES ASSUME NEW t \in Tasks
             PROVE  KillNonTerminal(rows)[t].state \in Terminal
  BY DEF AllEnded
<1>1. KillNonTerminal(rows)[t] =
        IF rows[t].state \in Terminal THEN rows[t] ELSE Terminate(rows[t], "KILLED", "KILLED", FALSE)
  BY DEF KillNonTerminal
<1>2. Terminate(rows[t], "KILLED", "KILLED", FALSE).state = "KILLED"
  BY DEF Terminate, GoodRows, Row
<1> QED  BY <1>1, <1>2

\* Recomputing the job and settling its tasks bring the two together.
LEMMA SettleEnds ==
  ASSUME NEW rows, GoodRows(rows), NEW j
  PROVE  Recompute(rows, j) \in JobEnds <=> AllEnded(Settle(rows, j))
<1>1. CASE Recompute(rows, j) \in JobEnds
  BY <1>1, KillEnds DEF Settle
<1>2. CASE Recompute(rows, j) \notin JobEnds
  <2>1. JobEnd(rows) \in JobEnds
    BY DEF JobEnd, JobEnds
  <2>2. j \notin JobEnds /\ ~Ends(rows)
    BY <1>2, <2>1 DEF Recompute
  <2> QED  BY <1>2, <2>2 DEF Settle, Ends, Every, AllEnded
<1> QED  BY <1>1, <1>2

LEMMA KeepsEnds ==
  ASSUME KeepsRows, AllEnded(tasks)
  PROVE  AllEnded(tasks')
BY DEF KeepsRows, Keeps, AllEnded

LEMMA InitSettled == Init => Settled
<1> SUFFICES ASSUME Init PROVE Settled
  OBVIOUS
<1>1. PICK t \in Tasks : TRUE
  BY KernelAssumption
<1>2. tasks[t].state \notin Terminal /\ job \notin JobEnds
  BY DEF Init, NewRows, NewRow, JobEnds
<1> QED  BY <1>2 DEF Settled, AllEnded

LEMMA NextSettled == IInv /\ Settled /\ [Next]_vars => Settled'
<1> SUFFICES ASSUME IInv, Settled, [Next]_vars
             PROVE  Settled'
  OBVIOUS
<1>1. IInv' /\ KeepsRows
  BY NextInv
<1>2. CASE CommitSchedule
  <2> DEFINE rows == Scheduled(tasks)
  <2>1. GoodRows(rows)
    BY <1>2, ScheduledRows
  <2>2. tasks' = Settle(rows, job) /\ job' = Recompute(rows, job) /\ phase' = "apply"
    BY <1>2 DEF CommitSchedule
  <2> HIDE DEF rows
  <2> QED  BY <2>1, <2>2, SettleEnds DEF Settled
<1>3. CASE CommitReconcile
  <2> DEFINE settled == Settle(tasks, job)
             rows == Timeout(settled, dec.timeout)
             end == Recompute(tasks, job)
  <2>1. dec.timeout \in SUBSET Tasks /\ GoodRows(settled)
    BY SettleTame, TameRowsGood DEF IInv, TypeOK, Decision
  <2>2. tasks' = Settle(rows, end) /\ job' = Recompute(rows, end)
    BY <1>3 DEF CommitReconcile
  <2> HIDE DEF settled, end
  <2>3. GoodRows(rows)
    BY <2>1, TimeoutTame, TameRowsGood
  <2> HIDE DEF rows
  <2> QED  BY <2>2, <2>3, SettleEnds DEF Settled
<1>4. CASE FailWorkers
  <2>1. PICK rows \in FailOutcomes(tasks, failing) :
          tasks' = Unbind(Settle(rows, job), failing) /\ job' = Recompute(rows, job)
    BY <1>4 DEF FailWorkers
  <2>2. GoodRows(rows)
    BY FailTame, TameRowsGood DEF IInv
  <2> DEFINE settled == Settle(rows, job)
  <2>3. GoodRows(settled)
    BY <2>2, SettleTame, TameRowsGood
  <2>4. tasks' = Unbind(settled, failing) /\ (job' \in JobEnds <=> AllEnded(settled))
    BY <2>1, <2>2, SettleEnds
  <2> HIDE DEF settled
  <2>5. \A t \in Tasks : tasks'[t].state = settled[t].state
    BY <2>3, <2>4 DEF Unbind, GoodRows, Row
  <2> QED  BY <2>4, <2>5 DEF Settled, AllEnded
<1>5. CASE CancelJob
  BY <1>5, KillEnds DEF CancelJob, Settled, JobEnds, IInv
<1>6. CASE \E r \in replies : ApplyObservation(r)
  BY <1>1, <1>6, KeepsEnds DEF ApplyObservation, InTransaction, Settled
<1>7. CASE UNCHANGED db /\ (phase = "apply" => phase' = "apply")
  BY <1>7 DEF db, Settled
<1> QED  BY <1>2, <1>3, <1>4, <1>5, <1>6, <1>7, NextWrites

\* A committed job is over exactly when all its tasks are, whichever of the schedule, a
\* report, a time limit, a failed worker or a user ended the last of them.
THEOREM IrisJobSettled == Spec => []JobSettled
<1>1. Settled => JobSettled
  BY DEF Settled, JobSettled, InTransaction, AllEnded
<1> QED  BY IrisInv, InitSettled, NextSettled, <1>1, PTL DEF Spec

-----------------------------------------------------------------------------
(* The budgets                                                             *)

Spent(r) == r.failures + r.preemptions

\* An active task has an attempt that has not been charged.
Thrift(r) ==
  /\ Spent(r) <= Len(r.attempts)
  /\ r.state \in Active => Spent(r) < Len(r.attempts)

\* A rule charges at most one budget, and only for an attempt that it takes away.
Frugal(r, s) ==
  \/ Spent(s) = Spent(r)
  \/ r.state \in Active /\ s.state \notin Active /\ Spent(s) = Spent(r) + 1

Thrifty(rows) == \A t \in Tasks : Thrift(rows[t])
FrugalRows(rows, next) == \A t \in Tasks : Frugal(rows[t], next[t])

LEMMA FrugalThrift ==
  ASSUME NEW r, Good(r), Thrift(r), NEW s, Tame(r, s), Frugal(r, s)
  PROVE  Thrift(s)
<1>1. Spent(r) \in Nat /\ Len(r.attempts) \in Nat /\ Spent(s) \in Nat
  BY DEF Good, Row, Spent, Tame
<1>2. Len(s.attempts) = Len(r.attempts) /\ (s.state \in Active => r.state \in Active)
  BY DEF Tame
<1> QED  BY <1>1, <1>2 DEF Thrift, Frugal

LEMMA ThriftyRows ==
  ASSUME NEW rows, GoodRows(rows), Thrifty(rows),
         NEW next, TameRows(rows, next), FrugalRows(rows, next)
  PROVE  Thrifty(next)
BY FrugalThrift DEF GoodRows, TameRows, FrugalRows, Thrifty

\* A rule about one row, applied to the rows.
LEMMA SetRow ==
  ASSUME NEW rows, GoodRows(rows), NEW t \in Tasks, NEW s, Tame(rows[t], s)
  PROVE  /\ TameRows(rows, [rows EXCEPT ![t] = s])
         /\ Frugal(rows[t], s) => FrugalRows(rows, [rows EXCEPT ![t] = s])
<1>1. TameRows(rows, [rows EXCEPT ![t] = s])
  BY TameReflexive DEF TameRows, GoodRows, Tame, Good
<1>2. Frugal(rows[t], s) => FrugalRows(rows, [rows EXCEPT ![t] = s])
  BY DEF FrugalRows, Frugal, GoodRows
<1> QED  BY <1>1, <1>2

LEMMA TerminateFrugal ==
  ASSUME NEW r \in Row, NEW st \in TaskStates, NEW as \in TaskStates, NEW stamp \in BOOLEAN
  PROVE  Frugal(r, Terminate(r, st, as, stamp))
BY DEF Terminate, Row, Frugal, Spent

LEMMA EvictFrugal ==
  ASSUME NEW r, Good(r), r.state \in Active, NEW terminal \in Terminal, NEW as \in Terminal,
         NEW stamp \in BOOLEAN
  PROVE  Frugal(r, Evict(r, terminal, as, stamp))
<1> DEFINE next == Resolve(r.state, r.preemptions, terminal)
           s == Terminate(r, next.state, as, stamp)
           a == Mark(r, as, stamp)
<1>1. r.failures \in Nat /\ r.preemptions \in Nat /\ r \in Row
  BY DEF Good, Row
<1>2. next.count \in {r.preemptions, r.preemptions + 1}
      /\ next.state \in {"PENDING", terminal}
  BY DEF Resolve
<1>3. Evict(r, terminal, as, stamp) = [s EXCEPT !.preemptions = next.count]
  BY DEF Evict
<1>4. s = [r EXCEPT !.state = next.state, !.attempts = a]
  BY DEF Terminate
<1> HIDE DEF next, s, a
<1>5. s = [state |-> next.state, failures |-> r.failures, preemptions |-> r.preemptions,
           attempts |-> a]
  BY <1>1, <1>4 DEF Row
<1>6. /\ [s EXCEPT !.preemptions = next.count].failures = r.failures
      /\ [s EXCEPT !.preemptions = next.count].preemptions = next.count
      /\ [s EXCEPT !.preemptions = next.count].state = next.state
  BY <1>5
<1> QED  BY <1>1, <1>2, <1>3, <1>6 DEF Frugal, Spent

LEMMA TransitionFrugal ==
  ASSUME NEW r, Good(r), r.state \in Active, NEW u, u.state \in Words
  PROVE  Frugal(r, Transition(r, u))
<1>1. r \in Row /\ r.failures \in Nat /\ r.preemptions \in Nat
  BY DEF Good, Row
<1>2. CASE u.state \in {"WORKER_FAILED", "KILLED"}
  <2>1. Transition(r, u) = Evict(r, "WORKER_FAILED", u.state, TRUE)
    BY <1>2 DEF Transition
  <2>2. \A as \in Terminal, stamp \in BOOLEAN : Frugal(r, Evict(r, "WORKER_FAILED", as, stamp))
    BY EvictFrugal
  <2> QED  BY <1>2, <2>1, <2>2
<1>3. CASE u.state = "FAILED"
  <2> DEFINE st == IF r.failures < MaxRetriesFailure THEN "PENDING" ELSE "FAILED"
             a == Mark(r, "FAILED", TRUE)
             s == Terminate(r, st, "FAILED", TRUE)
  <2>1. Transition(r, u) = [s EXCEPT !.failures = @ + 1]
    BY <1>3 DEF Transition
  <2>2. st \notin Active
    OBVIOUS
  <2>3. s = [r EXCEPT !.state = st, !.attempts = a]
    BY DEF Terminate
  <2> HIDE DEF st, a, s
  <2>4. s = [state |-> st, failures |-> r.failures, preemptions |-> r.preemptions, attempts |-> a]
    BY <1>1, <2>3 DEF Row
  <2>5. /\ Transition(r, u).failures = r.failures + 1
        /\ Transition(r, u).preemptions = r.preemptions
        /\ Transition(r, u).state = st
    BY <2>1, <2>4
  <2> QED  BY <1>1, <2>2, <2>5 DEF Frugal, Spent
<1>4. CASE u.state = "SUCCEEDED"
  <2>1. Transition(r, u) = Terminate(r, "SUCCEEDED", "SUCCEEDED", TRUE)
    BY <1>4 DEF Transition
  <2>2. \A stamp \in BOOLEAN : Frugal(r, Terminate(r, "SUCCEEDED", "SUCCEEDED", stamp))
    BY <1>1, TerminateFrugal
  <2> QED  BY <2>1, <2>2
<1>5. CASE u.state \in Executing
  <2>1. Transition(r, u) = Terminate(r, u.state, u.state, FALSE)
    BY <1>5 DEF Transition, Terminate, Mark
  <2>2. \A stamp \in BOOLEAN : Frugal(r, Terminate(r, u.state, u.state, stamp))
    BY <1>1, <1>5, TerminateFrugal
  <2> QED  BY <2>1, <2>2
<1> QED  BY <1>2, <1>3, <1>4, <1>5 DEF Words

\* Only the report that ends an attempt is charged: what is said of an attempt later
\* comes upon a task or an attempt that has ended.
LEMMA ReportedFrugal ==
  ASSUME NEW old, Good(old), NEW r, Tame(old, r), NEW u, u.attempt \in Nat \ {0},
         u.state \in Words
  PROVE  Frugal(r, Reported(r, old, u))
<1>1. Good(r) /\ r \in Row
  BY DEF Tame, Good
<1>2. CASE Moves(r, old, u)
  <2>1. Reported(r, old, u) = Transition(r, u)
    BY <1>2 DEF Reported, Moves
  <2>2. r.state \in Active
    BY <1>2, MovesActive
  <2> QED  BY <1>1, <2>1, <2>2, TransitionFrugal
<1>3. CASE ~Moves(r, old, u)
  <2>1. Reported(r, old, u) \in {r, [r EXCEPT !.attempts = Mark(r, Current(r).state, TRUE)]}
    BY <1>3 DEF Reported
  <2> QED  BY <1>1, <2>1 DEF Frugal, Spent, Row
<1> QED  BY <1>2, <1>3

LEMMA CascadeFrugal ==
  ASSUME NEW rows, GoodRows(rows), NEW t \in Tasks
  PROVE  FrugalRows(rows, Cascade(rows, t))
<1> SUFFICES ASSUME NEW u \in Tasks
             PROVE  Frugal(rows[u], Cascade(rows, t)[u])
  BY DEF FrugalRows
<1>1. rows[u] \in Row
  BY DEF GoodRows
<1>2. Cascade(rows, t)[u] \in {rows[u],
          Terminate(rows[u], "COSCHED_FAILED", "COSCHED_FAILED", FALSE),
          Terminate(rows[u], "PENDING", "PREEMPTED", FALSE)}
  BY DEF Cascade
<1>3. Frugal(rows[u], rows[u])
  BY DEF Frugal
<1>4. \A stamp \in BOOLEAN :
        /\ Frugal(rows[u], Terminate(rows[u], "COSCHED_FAILED", "COSCHED_FAILED", stamp))
        /\ Frugal(rows[u], Terminate(rows[u], "PENDING", "PREEMPTED", stamp))
  BY <1>1, TerminateFrugal
<1> QED  BY <1>2, <1>3, <1>4

LEMMA ApplyUpdateThrifty ==
  ASSUME NEW snap0, GoodRows(snap0), NEW rows, TameRows(snap0, rows), Thrifty(rows),
         NEW u, u.task \in Tasks, u.attempt \in Nat \ {0}, u.state \in Words
  PROVE  Thrifty(ApplyUpdate(rows, snap0, u))
<1> DEFINE t == u.task
           next == [rows EXCEPT ![t] = Reported(rows[t], snap0[t], u)]
<1>1. GoodRows(rows)
  BY TameRowsGood
<1>2. Tame(rows[t], Reported(rows[t], snap0[t], u))
  BY ReportedTame DEF TameRows, GoodRows
<1>3. Frugal(rows[t], Reported(rows[t], snap0[t], u))
  BY ReportedFrugal DEF TameRows, GoodRows
<1>4. TameRows(rows, next) /\ FrugalRows(rows, next)
  BY <1>1, <1>2, <1>3, SetRow
<1>5. ApplyUpdate(rows, snap0, u) \in {next, Cascade(next, t)}
  BY DEF ApplyUpdate
<1> HIDE DEF next
<1>6. GoodRows(next) /\ Thrifty(next)
  BY <1>1, <1>4, TameRowsGood, ThriftyRows
<1> QED  BY <1>5, <1>6, CascadeTame, CascadeFrugal, ThriftyRows

LEMMA PreemptThrifty ==
  ASSUME NEW rows, GoodRows(rows), Thrifty(rows), NEW t \in Tasks
  PROVE  Thrifty(Preempt(rows, t))
<1>1. CASE rows[t].state \in Active
  <2> DEFINE next == [rows EXCEPT ![t] = Evict(rows[t], "PREEMPTED", "PREEMPTED", FALSE)]
  <2>1. \A stamp \in BOOLEAN :
          /\ Tame(rows[t], Evict(rows[t], "PREEMPTED", "PREEMPTED", stamp))
          /\ Frugal(rows[t], Evict(rows[t], "PREEMPTED", "PREEMPTED", stamp))
    BY <1>1, EvictTame, EvictFrugal DEF GoodRows
  <2>2. TameRows(rows, next) /\ FrugalRows(rows, next)
    BY <2>1, SetRow
  <2>3. Preempt(rows, t) = Cascade(next, t)
    BY <1>1 DEF Preempt
  <2> HIDE DEF next
  <2>4. GoodRows(next) /\ Thrifty(next)
    BY <2>2, TameRowsGood, ThriftyRows
  <2> QED  BY <2>3, <2>4, CascadeTame, CascadeFrugal, ThriftyRows
<1>2. CASE rows[t].state \notin Active
  BY <1>2 DEF Preempt
<1> QED  BY <1>1, <1>2

LEMMA KillThrifty ==
  ASSUME NEW rows, GoodRows(rows), Thrifty(rows)
  PROVE  Thrifty(KillNonTerminal(rows))
<1>1. FrugalRows(rows, KillNonTerminal(rows))
  <2> SUFFICES ASSUME NEW t \in Tasks
               PROVE  Frugal(rows[t], KillNonTerminal(rows)[t])
    BY DEF FrugalRows
  <2>1. KillNonTerminal(rows)[t] \in {rows[t], Terminate(rows[t], "KILLED", "KILLED", FALSE)}
    BY DEF KillNonTerminal
  <2>2. \A stamp \in BOOLEAN : Frugal(rows[t], Terminate(rows[t], "KILLED", "KILLED", stamp))
    BY TerminateFrugal DEF GoodRows
  <2> QED  BY <2>1, <2>2 DEF Frugal
<1> QED  BY <1>1, KillTame, ThriftyRows

LEMMA SettleThrifty ==
  ASSUME NEW rows, GoodRows(rows), Thrifty(rows), NEW j
  PROVE  Thrifty(Settle(rows, j))
BY KillThrifty DEF Settle

\* A lost worker charges the tasks that were active on it, once.
LEMMA FailThrifty ==
  ASSUME NEW rows, GoodRows(rows), Thrifty(rows), NEW ws, NEW next \in FailOutcomes(rows, ws)
  PROVE  Thrifty(next)
<1>1. ASSUME NEW ts \in SUBSET Tasks, \A t \in ts : rows[t].state \in Active
      PROVE  GoodRows(Fail(rows, ts)) /\ Thrifty(Fail(rows, ts))
  <2>1. ASSUME NEW t \in Tasks
        PROVE  /\ Tame(rows[t], Fail(rows, ts)[t])
               /\ Frugal(rows[t], Fail(rows, ts)[t])
    <3>1. t \in ts =>
            \A stamp \in BOOLEAN :
              /\ Tame(rows[t], Evict(rows[t], "WORKER_FAILED", "WORKER_FAILED", stamp))
              /\ Frugal(rows[t], Evict(rows[t], "WORKER_FAILED", "WORKER_FAILED", stamp))
      BY <1>1, EvictTame, EvictFrugal DEF GoodRows
    <3>2. Fail(rows, ts)[t] =
            IF t \in ts THEN Evict(rows[t], "WORKER_FAILED", "WORKER_FAILED", TRUE) ELSE rows[t]
      BY DEF Fail
    <3>3. Tame(rows[t], rows[t]) /\ Frugal(rows[t], rows[t])
      BY TameReflexive DEF GoodRows, Frugal
    <3> QED  BY <3>1, <3>2, <3>3
  <2>2. Fail(rows, ts) \in [Tasks -> Row]
    BY <2>1 DEF Fail, Tame, Good
  <2>3. TameRows(rows, Fail(rows, ts)) /\ FrugalRows(rows, Fail(rows, ts))
    BY <2>1, <2>2 DEF TameRows, FrugalRows
  <2> QED  BY <2>3, TameRowsGood, ThriftyRows
<1>2. CASE next = Fail(rows, On(rows, ws))
  BY <1>1, <1>2 DEF On
<1>3. CASE \E t \in On(rows, ws) : next = Cascade(Fail(rows, {t}), t)
  <2>1. PICK t \in On(rows, ws) : next = Cascade(Fail(rows, {t}), t)
    BY <1>3
  <2>2. t \in Tasks /\ GoodRows(Fail(rows, {t})) /\ Thrifty(Fail(rows, {t}))
    BY <1>1 DEF On
  <2> QED  BY <2>1, <2>2, CascadeTame, CascadeFrugal, ThriftyRows
<1> QED  BY <1>2, <1>3 DEF FailOutcomes

\* A decision to take a task from its worker charges it; a new attempt is paid for later.
LEMMA ScheduledThrifty ==
  ASSUME IInv, Thrifty(tasks), CommitSchedule
  PROVE  Thrifty(Scheduled(tasks))
<1>1. GoodRows(tasks) /\ dec \in Decision
  BY DEF IInv, TypeOK
<1>2. CASE dec.expire # {}
  <2>1. Scheduled(tasks) = Expire(tasks, dec.expire)
    BY <1>2 DEF Scheduled
  <2>2. ASSUME NEW t \in Tasks
        PROVE  Thrift(Expire(tasks, dec.expire)[t])
    <3>1. Expire(tasks, dec.expire)[t] \in {tasks[t], [tasks[t] EXCEPT !.state = "UNSCHEDULABLE"]}
      BY DEF Expire
    <3> QED  BY <1>1, <3>1 DEF Thrifty, Thrift, Spent, GoodRows, Row
  <2> QED  BY <2>1, <2>2 DEF Thrifty
<1>3. CASE dec.expire = {} /\ dec.preempt # {}
  <2>1. Scheduled(tasks) = Preempt(tasks, CHOOSE t \in dec.preempt : TRUE)
    BY <1>3 DEF Scheduled
  <2>2. (CHOOSE t \in dec.preempt : TRUE) \in Tasks
    BY <1>1, <1>3 DEF Decision
  <2> QED  BY <1>1, <2>1, <2>2, PreemptThrifty
<1>4. CASE dec.expire = {} /\ dec.preempt = {}
  <2> DEFINE rows == Assign(tasks, dec.assign)
  <2>1. Scheduled(tasks) = rows
    BY <1>4 DEF Scheduled
  <2>2. ASSUME NEW t \in Tasks
        PROVE  Thrift(rows[t])
    <3>1. \/ rows[t] = tasks[t]
          \/ /\ rows[t].failures = tasks[t].failures /\ rows[t].preemptions = tasks[t].preemptions
             /\ Len(rows[t].attempts) = Len(tasks[t].attempts) + 1
      <4>1. tasks[t] \in Row /\ tasks[t].attempts \in Seq(Attempt)
        BY <1>1 DEF GoodRows, Row
      <4>2. rows[t] = tasks[t] \/ Placement(tasks[t], rows[t], dec.assign[t])
        BY <1>1, AssignGood DEF Decision
      <4>3. rows[t].failures = tasks[t].failures /\ rows[t].preemptions = tasks[t].preemptions
        BY <4>1 DEF Assign, Row
      <4> QED  BY <4>2, <4>3 DEF Placement
    <3>2. /\ Spent(tasks[t]) \in Nat /\ Len(tasks[t].attempts) \in Nat
          /\ Spent(tasks[t]) <= Len(tasks[t].attempts)
          /\ Thrift(tasks[t])
      BY <1>1 DEF Thrifty, Thrift, Spent, GoodRows, Row
    <3> HIDE DEF rows
    <3>3. CASE rows[t] = tasks[t]
      BY <3>2, <3>3
    <3>4. CASE Len(rows[t].attempts) = Len(tasks[t].attempts) + 1 /\ Spent(rows[t]) = Spent(tasks[t])
      BY <3>2, <3>4 DEF Thrift
    <3> QED  BY <3>1, <3>3, <3>4 DEF Spent
  <2> QED  BY <2>1, <2>2 DEF Thrifty
<1> QED  BY <1>2, <1>3, <1>4

\* The budgets of a job without timeouts.
Budgets == "timeout" \notin Faults => Thrifty(tasks) /\ dec.timeout = {}

LEMMA InitBudgets == Init => Budgets
BY DEF Init, Budgets, Thrifty, Thrift, Spent, NewRows, NewRow, NoDecision

LEMMA NextTimeouts ==
  ASSUME IInv, [Next]_vars, "timeout" \notin Faults, dec.timeout = {}
  PROVE  dec'.timeout = {}
<1>1. CASE TickStep
  <2>1. CASE CommitReconcile
    BY <2>1 DEF CommitReconcile, NoDecision
  <2>2. CASE ~CommitReconcile
    BY <1>1, <2>2 DEF TickStep, RpcReplies, CommitSchedule, ApplyObservation, FoldHealth,
       FailWorkers, Forget, tick
  <2> QED  BY <2>1, <2>2
<1>2. CASE \E reconcile \in BOOLEAN : TickStart(reconcile)
  BY <1>2 DEF TickStart, Decide, NoDecision, Fault
<1>3. CASE \E w \in Workers : RpcFails(w) \/ RestartDaemon(w) \/ ResetDaemon(w) \/ Registers(w)
  BY <1>3 DEF RpcFails, RestartDaemon, ResetDaemon, Restarts, Registers, tick
<1>4. CASE \/ \E r \in late : LateArrives(r)
           \/ \E p \in procs : Runs(p) \/ Succeeds(p) \/ Dies(p) \/ Breaks(p)
  BY <1>4 DEF LateArrives, Runs, Succeeds, Dies, Breaks, Becomes, tick
<1>5. CASE ControllerRestarts \/ CancelJob
  BY <1>5 DEF ControllerRestarts, CancelJob, tick, NoDecision
<1>6. CASE UNCHANGED vars
  BY <1>6 DEF vars, tick
<1> QED  BY <1>1, <1>2, <1>3, <1>4, <1>5, <1>6 DEF Next

LEMMA NextBudgets == IInv /\ Budgets /\ [Next]_vars => Budgets'
<1> SUFFICES ASSUME IInv, Budgets, [Next]_vars, "timeout" \notin Faults
             PROVE  Thrifty(tasks') /\ dec'.timeout = {}
  BY DEF Budgets
<1>1. GoodRows(tasks) /\ Thrifty(tasks) /\ dec.timeout = {} /\ dec'.timeout = {}
  BY NextTimeouts DEF IInv, Budgets
<1>2. CASE CommitSchedule
  <2>1. GoodRows(Scheduled(tasks)) /\ Thrifty(Scheduled(tasks))
    BY <1>1, <1>2, ScheduledRows, ScheduledThrifty
  <2>2. tasks' = Settle(Scheduled(tasks), job)
    BY <1>2 DEF CommitSchedule
  <2> QED  BY <1>1, <2>1, <2>2, SettleThrifty
<1>3. CASE CommitReconcile
  <2> DEFINE settled == Settle(tasks, job)
             rows == Timeout(settled, {})
             end == Recompute(tasks, job)
  <2>1. GoodRows(settled) /\ Thrifty(settled)
    BY <1>1, SettleTame, TameRowsGood, SettleThrifty
  <2>2. tasks' = Settle(rows, end)
    BY <1>1, <1>3 DEF CommitReconcile
  <2> HIDE DEF settled, end
  <2>3. rows = settled
    BY <2>1 DEF Timeout, GoodRows
  <2> QED  BY <1>1, <2>1, <2>2, <2>3, SettleThrifty
<1>4. CASE FailWorkers
  <2>1. PICK rows \in FailOutcomes(tasks, failing) : tasks' = Unbind(Settle(rows, job), failing)
    BY <1>4 DEF FailWorkers
  <2>2. GoodRows(rows) /\ Thrifty(rows)
    BY <1>1, FailTame, TameRowsGood, FailThrifty
  <2> DEFINE settled == Settle(rows, job)
  <2>3. GoodRows(settled) /\ Thrifty(settled)
    BY <2>2, SettleTame, TameRowsGood, SettleThrifty
  <2>4. tasks' = Unbind(settled, failing)
    BY <2>1
  <2> HIDE DEF settled
  <2>5. ASSUME NEW t \in Tasks
        PROVE  Thrift(tasks'[t])
    <3>1. settled[t] \in Row /\ settled[t].attempts \in Seq(Attempt)
      BY <2>3 DEF GoodRows, Row
    <3> DEFINE a == [n \in DOMAIN settled[t].attempts |->
                       IF settled[t].attempts[n].worker \in failing
                         THEN [settled[t].attempts[n] EXCEPT !.worker = NoWorker]
                         ELSE settled[t].attempts[n]]
    <3>2. tasks'[t] = [settled[t] EXCEPT !.attempts = a]
      BY <2>4 DEF Unbind
    <3>3. DOMAIN a = 1 .. Len(settled[t].attempts) /\ Len(settled[t].attempts) \in Nat
      BY <3>1
    <3>4. Len(a) = Len(settled[t].attempts)
      BY <3>3
    <3> HIDE DEF a
    <3>5. /\ tasks'[t].state = settled[t].state /\ tasks'[t].attempts = a
          /\ tasks'[t].failures = settled[t].failures
          /\ tasks'[t].preemptions = settled[t].preemptions
      BY <3>1, <3>2 DEF Row
    <3> QED  BY <2>3, <3>4, <3>5 DEF Thrifty, Thrift, Spent
  <2> QED  BY <1>1, <2>5 DEF Thrifty
<1>5. CASE CancelJob
  BY <1>1, <1>5, KillThrifty DEF CancelJob
<1>6. ASSUME NEW r \in replies, ApplyObservation(r)
      PROVE  Thrifty(tasks')
  <2> DEFINE u == [task |-> r.task, attempt |-> r.attempt, state |-> Meaning(r)]
  <2>1. u.task \in Tasks /\ u.attempt \in Nat \ {0} /\ u.state \in Words
    BY <1>6 DEF IInv, TypeOK, Numbered, Reply, Meaning, Words, ProcEnds
  <2>2. GoodRows(snap) /\ TameRows(snap, tasks)
    BY <1>6 DEF IInv, Snapped, ApplyObservation, InTransaction
  <2>3. tasks' \in {tasks, ApplyUpdate(tasks, snap, u)}
    BY <1>6 DEF ApplyObservation
  <2> HIDE DEF u
  <2> QED  BY <1>1, <2>1, <2>2, <2>3, ApplyUpdateThrifty
<1>7. CASE UNCHANGED db
  BY <1>1, <1>7 DEF db
<1> QED  BY <1>1, <1>2, <1>3, <1>4, <1>5, <1>6, <1>7, NextWrites

\* As long as no deadline is set, an attempt is charged to at most one budget and once,
\* whoever ends it first and however often its end is reported.
THEOREM IrisChargedOnce == Spec => []ChargedOnce
<1>1. Budgets => ChargedOnce
  BY DEF Budgets, ChargedOnce, Thrifty, Thrift, Spent
<1> QED  BY IrisInv, InitBudgets, NextBudgets, <1>1, PTL DEF Spec

-----------------------------------------------------------------------------
(* Gangs                                                                   *)

NoneActive(rows) == \A t \in Tasks : rows[t].state \notin Active

\* A gang that has a place has all of them, on one slice.
Together(rows) ==
  \A t, u \in Tasks :
    rows[t].state \in Active =>
      /\ rows[u].state # "PENDING"
      /\ rows[u].state \in Active =>
           SliceOf[Current(rows[t]).worker] = SliceOf[Current(rows[u]).worker]

\* A rule sends a task back to the queue only together with all that are placed.
Requeues(rows, next) ==
  (\E u \in Tasks : next[u].state = "PENDING" /\ rows[u].state # "PENDING") => NoneActive(next)

LEMMA RequeueTogether ==
  ASSUME NEW rows, Together(rows), NEW next, TameRows(rows, next), Requeues(rows, next)
  PROVE  Together(next)
<1> SUFFICES ASSUME NEW t \in Tasks, NEW u \in Tasks, next[t].state \in Active
             PROVE  /\ next[u].state # "PENDING"
                    /\ next[u].state \in Active =>
                         SliceOf[Current(next[t]).worker] = SliceOf[Current(next[u]).worker]
  BY DEF Together
<1>1. rows[t].state \in Active /\ Current(next[t]).worker = Current(rows[t]).worker
  BY DEF TameRows, Tame
<1>2. next[u].state # "PENDING"
  BY <1>1 DEF Requeues, NoneActive, Together
<1>3. next[u].state \in Active =>
        rows[u].state \in Active /\ Current(next[u]).worker = Current(rows[u]).worker
  BY DEF TameRows, Tame
<1> QED  BY <1>1, <1>2, <1>3 DEF Together

LEMMA NoneTogether ==
  ASSUME NEW rows, NoneActive(rows)
  PROVE  Together(rows)
BY DEF NoneActive, Together

\* A cascade leaves no member of the gang where it was.
LEMMA CascadeClears ==
  ASSUME Gang, NEW rows, GoodRows(rows), NEW t \in Tasks, rows[t].state \notin Active
  PROVE  NoneActive(Cascade(rows, t))
<1> SUFFICES ASSUME NEW u \in Tasks
             PROVE  Cascade(rows, t)[u].state \notin Active
  BY DEF NoneActive
<1>1. CASE u \in Siblings(rows, t)
  <2>1. Cascade(rows, t)[u] \in {Terminate(rows[u], "COSCHED_FAILED", "COSCHED_FAILED", FALSE),
                                 Terminate(rows[u], "PENDING", "PREEMPTED", FALSE)}
    BY <1>1 DEF Cascade
  <2> QED  BY <2>1 DEF Terminate, GoodRows, Row
<1>2. CASE u \notin Siblings(rows, t)
  BY <1>2 DEF Cascade, Siblings
<1> QED  BY <1>1, <1>2

\* What a report does to its own task: it leaves its worker for the queue only with a
\* report that takes the siblings along.
LEMMA ReportedRequeues ==
  ASSUME NEW old, Good(old), NEW r, Tame(old, r), NEW u, u.attempt \in Nat \ {0},
         u.state \in Words
  PROVE  LET s == Reported(r, old, u) IN
         IF Moves(r, old, u) /\ u.state \in PeerTriggers
           THEN s.state \notin Active
           ELSE s.state = "PENDING" => r.state = "PENDING"
<1> DEFINE s == Reported(r, old, u)
<1>1. Good(r) /\ r \in Row
  BY DEF Tame, Good
<1>2. CASE Moves(r, old, u)
  <2>1. s = Transition(r, u)
    BY <1>2 DEF Reported, Moves
  <2>2. r.state \in Active
    BY <1>2, MovesActive
  <2> HIDE DEF s
  <2>3. CASE u.state \in {"WORKER_FAILED", "KILLED"}
    <3>1. s = Evict(r, "WORKER_FAILED", u.state, TRUE)
      BY <2>1, <2>3 DEF Transition
    <3>2. u.state \in Terminal /\ "WORKER_FAILED" \in Terminal
      BY <2>3
    <3>3. \A stamp \in BOOLEAN :
            /\ Tame(r, Evict(r, "WORKER_FAILED", u.state, stamp))
            /\ Evict(r, "WORKER_FAILED", u.state, stamp).state \in {"PENDING", "WORKER_FAILED"}
      BY <1>1, <2>2, <3>2, EvictTame
    <3>4. s.state \in {"PENDING", "WORKER_FAILED"}
      BY <3>1, <3>3
    <3> QED  BY <1>2, <2>3, <3>4 DEF PeerTriggers, Failures, s
  <2>4. CASE u.state = "FAILED"
    <3> DEFINE st == IF r.failures < MaxRetriesFailure THEN "PENDING" ELSE "FAILED"
               a == Mark(r, "FAILED", TRUE)
    <3>1. s = [Terminate(r, st, "FAILED", TRUE) EXCEPT !.failures = @ + 1]
      BY <2>1, <2>4 DEF Transition
    <3>2. Terminate(r, st, "FAILED", TRUE) = [r EXCEPT !.state = st, !.attempts = a]
      BY DEF Terminate
    <3>3. st \notin Active
      OBVIOUS
    <3> HIDE DEF st, a
    <3>4. s.state = st
      BY <1>1, <3>1, <3>2 DEF Row
    <3> QED  BY <1>2, <2>4, <3>3, <3>4 DEF PeerTriggers, Failures, s
  <2>5. CASE u.state \in {"SUCCEEDED"} \cup Executing
    <3>1. s.state = u.state
      BY <1>1, <2>1, <2>5 DEF Transition, Terminate, Row
    <3> QED  BY <2>5, <3>1 DEF PeerTriggers, Failures, s
  <2> QED  BY <2>3, <2>4, <2>5 DEF Words
<1>3. CASE ~Moves(r, old, u)
  <2>1. s \in {r, [r EXCEPT !.attempts = Mark(r, Current(r).state, TRUE)]}
    BY <1>3 DEF Reported
  <2>2. s.state = r.state
    BY <1>1, <2>1 DEF Row
  <2> HIDE DEF s
  <2> QED  BY <1>3, <2>2 DEF s
<1> QED  BY <1>2, <1>3

LEMMA ApplyUpdateTogether ==
  ASSUME Gang, NEW snap0, GoodRows(snap0), NEW rows, TameRows(snap0, rows), Together(rows),
         NEW u, u.task \in Tasks, u.attempt \in Nat \ {0}, u.state \in Words
  PROVE  Together(ApplyUpdate(rows, snap0, u))
<1> DEFINE t == u.task
           s == Reported(rows[t], snap0[t], u)
           next == [rows EXCEPT ![t] = s]
<1>1. GoodRows(rows) /\ rows \in [Tasks -> Row]
  BY TameRowsGood DEF GoodRows
<1>2. Tame(rows[t], s)
  BY ReportedTame DEF TameRows, GoodRows
<1>3. IF Moves(rows[t], snap0[t], u) /\ u.state \in PeerTriggers
        THEN s.state \notin Active
        ELSE s.state = "PENDING" => rows[t].state = "PENDING"
  BY ReportedRequeues DEF TameRows, GoodRows
<1>4. ApplyUpdate(rows, snap0, u)
        = IF Moves(rows[t], snap0[t], u) /\ u.state \in PeerTriggers THEN Cascade(next, t) ELSE next
  BY DEF ApplyUpdate
<1> HIDE DEF s
<1>5. TameRows(rows, next) /\ GoodRows(next)
  BY <1>1, <1>2, SetRow, TameRowsGood
<1>6. next[t] = s /\ \A v \in Tasks : v # t => next[v] = rows[v]
  BY <1>1
<1> HIDE DEF next
<1>7. CASE Moves(rows[t], snap0[t], u) /\ u.state \in PeerTriggers
  BY <1>3, <1>4, <1>5, <1>6, <1>7, CascadeClears, NoneTogether
<1>8. CASE ~(Moves(rows[t], snap0[t], u) /\ u.state \in PeerTriggers)
  <2>1. Requeues(rows, next)
    BY <1>3, <1>6, <1>8 DEF Requeues
  <2> QED  BY <1>4, <1>5, <1>8, <2>1, RequeueTogether
<1> QED  BY <1>7, <1>8

LEMMA PreemptTogether ==
  ASSUME Gang, NEW rows, GoodRows(rows), Together(rows), NEW t \in Tasks
  PROVE  Together(Preempt(rows, t))
<1>1. CASE rows[t].state \in Active
  <2> DEFINE s == Evict(rows[t], "PREEMPTED", "PREEMPTED", FALSE)
             next == [rows EXCEPT ![t] = s]
  <2>1. \A stamp \in BOOLEAN :
          /\ Tame(rows[t], Evict(rows[t], "PREEMPTED", "PREEMPTED", stamp))
          /\ Evict(rows[t], "PREEMPTED", "PREEMPTED", stamp).state \in {"PENDING", "PREEMPTED"}
    BY <1>1, EvictTame DEF GoodRows
  <2>2. Preempt(rows, t) = Cascade(next, t)
    BY <1>1 DEF Preempt
  <2>3. Tame(rows[t], s) /\ s.state \notin Active
    BY <2>1
  <2> HIDE DEF s
  <2>4. TameRows(rows, next) /\ next[t] = s
    BY <2>3, SetRow DEF GoodRows
  <2> HIDE DEF next
  <2> QED  BY <2>2, <2>3, <2>4, TameRowsGood, CascadeClears, NoneTogether
<1>2. CASE rows[t].state \notin Active
  BY <1>2 DEF Preempt
<1> QED  BY <1>1, <1>2

LEMMA ExpireTogether ==
  ASSUME NEW rows, GoodRows(rows), Together(rows), NEW ts,
         \A t \in ts \cap Tasks : rows[t].state \notin Active
  PROVE  Together(Expire(rows, ts))
<1>1. \A t \in Tasks : Expire(rows, ts)[t].state \in {rows[t].state, "UNSCHEDULABLE"}
  BY DEF Expire, GoodRows, Row
<1>2. Requeues(rows, Expire(rows, ts))
  BY <1>1 DEF Requeues
<1> QED  BY <1>2, ExpireTame, RequeueTogether

LEMMA TimeoutTogether ==
  ASSUME NEW rows, GoodRows(rows), Together(rows), NEW ts \in SUBSET Tasks
  PROVE  Together(Timeout(rows, ts))
<1>1. ASSUME NEW t \in Tasks
      PROVE  Timeout(rows, ts)[t].state \in {rows[t].state, "FAILED", "COSCHED_FAILED"}
  <2> DEFINE failed == Terminate(rows[t], "FAILED", "FAILED", FALSE)
  <2>1. Timeout(rows, ts)[t] \in {rows[t], [failed EXCEPT !.failures = @ + 1],
                                  Terminate(rows[t], "COSCHED_FAILED", "COSCHED_FAILED", FALSE)}
    BY DEF Timeout
  <2>2. failed = [rows[t] EXCEPT !.state = "FAILED", !.attempts = Mark(rows[t], "FAILED", FALSE)]
    BY DEF Terminate
  <2>3. rows[t] \in Row
    BY DEF GoodRows
  <2> HIDE DEF failed
  <2>4. [failed EXCEPT !.failures = @ + 1].state = "FAILED"
    BY <2>2, <2>3 DEF Row
  <2>5. Terminate(rows[t], "COSCHED_FAILED", "COSCHED_FAILED", FALSE).state = "COSCHED_FAILED"
    BY <2>3 DEF Terminate, Row
  <2> QED  BY <2>1, <2>4, <2>5
<1>2. Requeues(rows, Timeout(rows, ts))
  BY <1>1 DEF Requeues
<1> QED  BY <1>2, TimeoutTame, RequeueTogether

LEMMA SettleTogether ==
  ASSUME NEW rows, GoodRows(rows), Together(rows), NEW j
  PROVE  Together(Settle(rows, j))
BY KillTame, NoneTogether DEF Settle, NoneActive

\* A worker that is lost takes one member from the gang, and so all of them.
LEMMA FailTogether ==
  ASSUME Gang, NEW rows, GoodRows(rows), Together(rows), NEW ws, NEW next \in FailOutcomes(rows, ws)
  PROVE  Together(next)
<1>1. CASE On(rows, ws) = {}
  <2>1. next = Fail(rows, {})
    BY <1>1 DEF FailOutcomes
  <2>2. next = rows
    BY <2>1 DEF Fail, GoodRows
  <2> QED  BY <2>2
<1>2. CASE On(rows, ws) # {}
  <2>1. PICK t \in On(rows, ws) : next = Cascade(Fail(rows, {t}), t)
    BY <1>2 DEF FailOutcomes
  <2> DEFINE s == Evict(rows[t], "WORKER_FAILED", "WORKER_FAILED", TRUE)
             first == [rows EXCEPT ![t] = s]
  <2>2. t \in Tasks /\ rows[t].state \in Active
    BY DEF On
  <2>3. \A stamp \in BOOLEAN :
          /\ Tame(rows[t], Evict(rows[t], "WORKER_FAILED", "WORKER_FAILED", stamp))
          /\ Evict(rows[t], "WORKER_FAILED", "WORKER_FAILED", stamp).state
               \in {"PENDING", "WORKER_FAILED"}
    BY <2>2, EvictTame DEF GoodRows
  <2>4. Tame(rows[t], s) /\ s.state \notin Active
    BY <2>3
  <2>5. Fail(rows, {t}) = first
    BY DEF Fail, GoodRows
  <2> HIDE DEF s
  <2>6. TameRows(rows, first) /\ first[t] = s
    BY <2>2, <2>4, SetRow DEF GoodRows
  <2> HIDE DEF first
  <2> QED  BY <2>1, <2>2, <2>4, <2>5, <2>6, TameRowsGood, CascadeClears, NoneTogether
<1> QED  BY <1>1, <1>2

\* What the scheduler has decided for a gang while its rows may still change.
Whole == phase = "rpc" =>
  \/ \A t \in Tasks : dec.assign[t] = NoWorker
  \/ /\ \A t \in Tasks : tasks[t].state = "PENDING" => dec.assign[t] # NoWorker
     /\ \A t, u \in Tasks : dec.assign[t] # NoWorker /\ dec.assign[u] # NoWorker =>
          SliceOf[dec.assign[t]] = SliceOf[dec.assign[u]]

GangInv == Gang => Together(tasks) /\ Whole

LEMMA InitGang == Init => GangInv
BY DEF Init, GangInv, Together, Whole, NewRows, NewRow

\* The gang that was waiting is placed as one, if a decision is there at all.
LEMMA AssignTogether ==
  ASSUME IInv, Together(tasks), Whole, phase = "rpc",
         dec.assign \in [Tasks -> Workers \cup {NoWorker}]
  PROVE  Together(Assign(tasks, dec.assign))
<1> DEFINE rows == Assign(tasks, dec.assign)
<1>1. ASSUME NEW t \in Tasks
      PROVE  IF dec.assign[t] # NoWorker /\ tasks[t].state = "PENDING"
               THEN rows[t].state = "ASSIGNED" /\ Current(rows[t]).worker = dec.assign[t]
               ELSE rows[t] = tasks[t]
  <2>1. tasks[t] \in Row
    BY DEF IInv, GoodRows
  <2>2. rows[t] = tasks[t] \/ Placement(tasks[t], rows[t], dec.assign[t])
    BY AssignGood DEF IInv
  <2>3. CASE dec.assign[t] # NoWorker /\ tasks[t].state = "PENDING"
    <3>1. rows[t].state = "ASSIGNED"
      BY <2>1, <2>3 DEF Assign, Row
    <3> HIDE DEF rows
    <3>2. Placement(tasks[t], rows[t], dec.assign[t])
      BY <2>2, <2>3, <3>1
    <3> QED  BY <2>3, <3>1, <3>2 DEF Placement
  <2>4. CASE ~(dec.assign[t] # NoWorker /\ tasks[t].state = "PENDING")
    <3>1. rows[t] = tasks[t]
      BY <2>4 DEF Assign
    <3> HIDE DEF rows
    <3> QED  BY <2>4, <3>1
  <2> QED  BY <2>3, <2>4
<1> HIDE DEF rows
<1>2. CASE \E t \in Tasks : dec.assign[t] # NoWorker /\ tasks[t].state = "PENDING"
  <2>1. \A t \in Tasks : tasks[t].state \notin Active
    BY <1>2 DEF Together
  <2>2. \A t \in Tasks : rows[t].state \in Active =>
          dec.assign[t] # NoWorker /\ Current(rows[t]).worker = dec.assign[t]
    BY <1>1, <2>1
  <2>3. /\ \A t \in Tasks : tasks[t].state = "PENDING" => dec.assign[t] # NoWorker
        /\ \A t, u \in Tasks : dec.assign[t] # NoWorker /\ dec.assign[u] # NoWorker =>
             SliceOf[dec.assign[t]] = SliceOf[dec.assign[u]]
    BY <1>2 DEF Whole
  <2>4. \A u \in Tasks : rows[u].state # "PENDING"
    BY <1>1, <2>3
  <2> QED  BY <2>2, <2>3, <2>4 DEF Together, rows
<1>3. CASE ~ \E t \in Tasks : dec.assign[t] # NoWorker /\ tasks[t].state = "PENDING"
  <2>1. \A t \in Tasks : rows[t] = tasks[t]
    BY <1>1, <1>3
  <2>2. Together(rows)
    BY <2>1 DEF Together
  <2> QED  BY <2>2 DEF rows
<1> QED  BY <1>2, <1>3

LEMMA ScheduledTogether ==
  ASSUME Gang, IInv, Together(tasks), Whole, CommitSchedule
  PROVE  Together(Scheduled(tasks))
<1>1. dec \in Decision /\ GoodRows(tasks) /\ phase = "rpc"
  BY DEF IInv, TypeOK, CommitSchedule
<1>2. CASE dec.expire # {}
  <2>1. Scheduled(tasks) = Expire(tasks, dec.expire)
    BY <1>2 DEF Scheduled
  <2>2. \A t \in dec.expire \cap Tasks : tasks[t].state \notin Active
    BY <1>1 DEF IInv, Ahead
  <2> QED  BY <1>1, <2>1, <2>2, ExpireTogether
<1>3. CASE dec.expire = {} /\ dec.preempt # {}
  <2>1. Scheduled(tasks) = Preempt(tasks, CHOOSE t \in dec.preempt : TRUE)
    BY <1>3 DEF Scheduled
  <2>2. (CHOOSE t \in dec.preempt : TRUE) \in Tasks
    BY <1>1, <1>3 DEF Decision
  <2> QED  BY <1>1, <2>1, <2>2, PreemptTogether
<1>4. CASE dec.expire = {} /\ dec.preempt = {}
  BY <1>1, <1>4, AssignTogether DEF Scheduled, Decision
<1> QED  BY <1>2, <1>3, <1>4

\* The scheduler places the whole queue of the gang on one slice, or nothing.
LEMMA TickStartWhole ==
  ASSUME Gang, NEW reconcile \in BOOLEAN, TickStart(reconcile)
  PROVE  Whole'
<1>1. tasks' = tasks /\ dec'.assign \in Assignments \cup {NoOne}
  BY DEF TickStart, Decide, NoDecision, db
<1>2. CASE dec'.assign = NoOne
  BY <1>2 DEF NoOne, Whole
<1>3. CASE dec'.assign \in Assignments
  <2> DEFINE to == dec'.assign
             placed == {t \in Tasks : to[t] # NoWorker}
  <2>1. /\ placed = {} \/ placed = Pending
        /\ \A t, u \in placed : SliceOf[to[t]] = SliceOf[to[u]]
    BY <1>3 DEF Assignments
  <2>2. CASE placed = {}
    BY <2>2 DEF Whole
  <2>3. CASE placed = Pending
    <3>1. \A t \in Tasks : tasks[t].state = "PENDING" => to[t] # NoWorker
      BY <2>3 DEF Pending
    <3> QED  BY <1>1, <2>1, <3>1 DEF Whole
  <2> QED  BY <2>1, <2>2, <2>3
<1> QED  BY <1>1, <1>2, <1>3

LEMMA NextWhole ==
  ASSUME Gang, IInv, Whole, [Next]_vars
  PROVE  Whole'
<1>1. CASE \E reconcile \in BOOLEAN : TickStart(reconcile)
  BY <1>1, TickStartWhole
<1>2. CASE phase' = "rpc" /\ phase = "rpc" /\ dec' = dec
  <2>1. \A t \in Tasks : tasks'[t].state = "PENDING" => tasks[t].state = "PENDING"
    <3>1. UNCHANGED db \/ CancelJob
      BY <1>2, NextWrites DEF CommitSchedule, CommitReconcile, FailWorkers, ApplyObservation,
         InTransaction
    <3>2. CASE CancelJob
      <4>1. AllEnded(tasks')
        BY <3>2, KillEnds DEF CancelJob, IInv
      <4> QED  BY <4>1 DEF AllEnded
    <3> QED  BY <3>1, <3>2 DEF db
  <2> QED  BY <1>2, <2>1 DEF Whole
<1>3. CASE phase' # "rpc"
  BY <1>3 DEF Whole
<1> QED  BY <1>1, <1>2, <1>3, NextDecides

LEMMA NextGang == IInv /\ GangInv /\ [Next]_vars => GangInv'
<1> SUFFICES ASSUME Gang, IInv, Together(tasks), Whole, [Next]_vars
             PROVE  Together(tasks')
  BY NextWhole DEF GangInv
<1>1. GoodRows(tasks)
  BY DEF IInv
<1>2. CASE CommitSchedule
  <2>1. GoodRows(Scheduled(tasks)) /\ Together(Scheduled(tasks))
    BY <1>2, ScheduledRows, ScheduledTogether
  <2>2. tasks' = Settle(Scheduled(tasks), job)
    BY <1>2 DEF CommitSchedule
  <2> QED  BY <2>1, <2>2, SettleTogether
<1>3. CASE CommitReconcile
  <2> DEFINE settled == Settle(tasks, job)
             rows == Timeout(settled, dec.timeout)
             end == Recompute(tasks, job)
  <2>1. GoodRows(settled) /\ Together(settled)
    BY <1>1, SettleTame, TameRowsGood, SettleTogether
  <2>2. tasks' = Settle(rows, end) /\ dec.timeout \in SUBSET Tasks
    BY <1>3 DEF CommitReconcile, IInv, TypeOK, Decision
  <2> HIDE DEF settled, end
  <2>3. GoodRows(rows) /\ Together(rows)
    BY <2>1, <2>2, TimeoutTame, TameRowsGood, TimeoutTogether
  <2> HIDE DEF rows
  <2> QED  BY <2>2, <2>3, SettleTogether
<1>4. CASE FailWorkers
  <2>1. PICK rows \in FailOutcomes(tasks, failing) : tasks' = Unbind(Settle(rows, job), failing)
    BY <1>4 DEF FailWorkers
  <2>2. /\ GoodRows(rows) /\ Together(rows)
        /\ \A t \in Tasks : rows[t].state \in Active => Current(rows[t]).worker \notin failing
    BY <1>1, FailTame, TameRowsGood, FailTogether
  <2> DEFINE settled == Settle(rows, job)
  <2>3. TameRows(rows, settled) /\ GoodRows(settled) /\ Together(settled)
    BY <2>2, SettleTame, TameRowsGood, SettleTogether
  <2>4. tasks' = Unbind(settled, failing)
    BY <2>1
  <2> HIDE DEF settled
  <2>5. \A t \in Tasks :
          settled[t].state \in Active => Current(settled[t]).worker \notin failing
    BY <2>2, <2>3 DEF TameRows, Tame
  <2>6. TameRows(settled, tasks')
    BY <2>3, <2>4, <2>5, UnbindTame DEF IInv, TypeOK
  <2>7. \A t \in Tasks : tasks'[t].state = settled[t].state
    BY <2>3, <2>4 DEF Unbind, GoodRows, Row
  <2>8. Requeues(settled, tasks')
    BY <2>7 DEF Requeues
  <2> QED  BY <2>3, <2>6, <2>8, RequeueTogether
<1>5. CASE CancelJob
  BY <1>1, <1>5, KillTame, NoneTogether DEF CancelJob, NoneActive
<1>6. ASSUME NEW r \in replies, ApplyObservation(r)
      PROVE  Together(tasks')
  <2> DEFINE u == [task |-> r.task, attempt |-> r.attempt, state |-> Meaning(r)]
  <2>1. u.task \in Tasks /\ u.attempt \in Nat \ {0} /\ u.state \in Words
    BY <1>6 DEF IInv, TypeOK, Numbered, Reply, Meaning, Words, ProcEnds
  <2>2. GoodRows(snap) /\ TameRows(snap, tasks)
    BY <1>6 DEF IInv, Snapped, ApplyObservation, InTransaction
  <2>3. tasks' \in {tasks, ApplyUpdate(tasks, snap, u)}
    BY <1>6 DEF ApplyObservation
  <2> HIDE DEF u
  <2> QED  BY <1>1, <2>1, <2>2, <2>3, ApplyUpdateTogether
<1>7. CASE UNCHANGED db
  BY <1>7 DEF db
<1> QED  BY <1>2, <1>3, <1>4, <1>5, <1>6, <1>7, NextWrites

\* A gang runs as a whole on one slice or not at all, although its members' ends are
\* reported one by one and its places are chosen before the rows may change.
THEOREM IrisGangTogether == Spec => []GangTogether
<1>1. GangInv => GangTogether
  BY DEF GangInv, GangTogether, Together
<1> QED  BY IrisInv, InitGang, NextGang, <1>1, PTL DEF Spec
=============================================================================
