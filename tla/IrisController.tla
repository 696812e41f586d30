--------------------------- MODULE IrisController ---------------------------
(***************************************************************************)
(* The Iris control loop over worker daemons: Controller._control_tick     *)
(* reads a snapshot, decides, sends each worker its Reconcile request,     *)
(* commits decisions and replies in one transaction and then fails the     *)
(* workers that are unhealthy.  Meanwhile users cancel, daemons run        *)
(* processes, restart and register, requests and replies get lost.         *)
(*                                                                         *)
(* A worker has room for one task.  The steps of the commit transaction    *)
(* are separate here (they are where the order of the replies shows), and  *)
(* nothing else happens until it is over.                                  *)
(***************************************************************************)
EXTENDS IrisKernel

CONSTANTS
  SliceOf,          \* the slice of a worker: torn down as a whole
  MinUnreachable,   \* failed reconciles before a worker is given up
  BuildThreshold,   \* and failed builds
  Faults,           \* the kinds of fault that happen
  MaxFaults         \* and how many in all

FaultKinds == {"lost",     \* a Reconcile request does not arrive
               "late",     \* it arrives after the controller stopped waiting
               "sick",     \* a worker answers that it is unhealthy
               "fails",    \* a process fails
               "restart",  \* a daemon restarts, with or without its processes
               "preempt", "expire", "timeout", "cancel",
               "crash"}    \* the controller restarts

ASSUME ControllerAssumption ==
  /\ SliceOf \in [Workers -> STRING]
  /\ MinUnreachable \in Nat \ {0}
  /\ BuildThreshold \in Nat \ {0}
  /\ Faults \subseteq FaultKinds
  /\ MaxFaults \in Nat

VARIABLES
  tasks, job,          \* the database
  registered,          \* the database's worker rows
  known,               \* workers with an entry in the health tracker
  misses, builds,      \* the tracker's consecutive_failures, build_failures
  phase,               \* of the tick
  waiting,             \* workers whose Reconcile is out
  plan,                \* the desired attempts of this tick
  replies, unreached,  \* what came back, and from whom nothing good did
  polled,              \* workers this tick reconciles
  dec,                 \* the decisions of this tick
  snap,                \* the rows when the transaction opened its snapshot
  badBuilds,           \* workers to be charged a failed build
  failing, removed,    \* workers being failed, and those that were
  procs,               \* the daemons' attempts
  late,                \* requests still under way to a daemon
  joining,             \* daemons that have yet to register
  faults

db == <<tasks, job>>
health == <<registered, known, misses, builds>>
tick == <<waiting, plan, replies, unreached, polled, dec, snap, badBuilds>>
hosts == <<procs, late, joining>>
vars == <<db, health, phase, tick, failing, removed, hosts, faults>>

Fault(k) == k \in Faults /\ faults < MaxFaults /\ faults' = faults + 1

ProcEnds == {"SUCCEEDED", "FAILED", "WORKER_FAILED", "KILLED"}
Desired == [task : Tasks, attempt : Nat, worker : Workers, intent : {"start", "poll", "stop"}]
Proc == [task : Tasks, attempt : Nat, host : Workers, status : Executing \cup ProcEnds,
         stop : BOOLEAN]
Reply == [task : Tasks, attempt : Nat, state : Executing \cup ProcEnds \cup {"MISSING", "LOST"}]
Late == [worker : Workers, desired : SUBSET Desired]
NoOne == [t \in Tasks |-> NoWorker]
Decision == [assign : [Tasks -> Workers \cup {NoWorker}],
             preempt : SUBSET Tasks, expire : SUBSET Tasks, timeout : SUBSET Tasks]
NoDecision == [assign |-> NoOne, preempt |-> {}, expire |-> {}, timeout |-> {}]

NewRow == [state |-> "PENDING", failures |-> 0, preemptions |-> 0, attempts |-> <<>>]
NewRows == [t \in Tasks |-> NewRow]

Init ==
  /\ tasks = NewRows /\ job = "PENDING"
  /\ registered = Workers /\ known = Workers
  /\ misses = [w \in Workers |-> 0] /\ builds = [w \in Workers |-> 0]
  /\ phase = "idle"
  /\ waiting = {} /\ plan = {} /\ replies = {} /\ unreached = {} /\ polled = {}
  /\ dec = NoDecision /\ snap = NewRows /\ badBuilds = {}
  /\ failing = {} /\ removed = {}
  /\ procs = {} /\ late = {} /\ joining = {}
  /\ faults = 0

InTransaction == phase = "apply"

\* The control loop sees processes only through replies: what a process does
\* during a tick is as if done right before or after it.
Idle == phase = "idle"

-----------------------------------------------------------------------------
(* The tick: snapshot and decisions                                        *)

\* An attempt that still holds its worker.
Holds(t, n) ==
  /\ n \in DOMAIN tasks[t].attempts
  /\ ~tasks[t].attempts[n].finished
  /\ tasks[t].attempts[n].worker # NoWorker

\* _RECONCILE_ROWS_STMT: current attempts only.
LiveRows == {t \in Tasks : Started(tasks[t]) /\ Holds(t, Len(tasks[t].attempts))}

Intent(row) ==
  CASE row.state = "ASSIGNED" -> "start"
    [] row.state \in Executing -> "poll"
    [] row.state \in {"KILLED", "PREEMPTED"} -> "stop"
    [] OTHER -> IF Current(row).state \in Terminal THEN "stop" ELSE "poll"

\* Bug: a task back in the queue is nothing to reconcile.
PlanForActive(ws) ==
  {[task |-> t, attempt |-> Len(tasks[t].attempts),
    worker |-> Current(tasks[t]).worker, intent |-> Intent(tasks[t])] :
     t \in {u \in LiveRows : /\ Current(tasks[u]).worker \in ws
                             /\ tasks[u].state # "PENDING"}}

PlanFor(ws) ==
  {[task |-> t, attempt |-> Len(tasks[t].attempts),
    worker |-> Current(tasks[t]).worker, intent |-> Intent(tasks[t])] :
     t \in {u \in LiveRows : /\ Current(tasks[u]).worker \in ws
                             /\ tasks[u].state = "PENDING" => Current(tasks[u]).state \in Terminal}}

\* Bug: only tasks that are active use capacity.
FreeOfActive(w) ==
  /\ w \in known /\ misses[w] = 0
  /\ \A t \in Tasks : tasks[t].state \in Active => Current(tasks[t]).worker # w

\* A healthy worker whose capacity no unfinished attempt holds.
Free(w) ==
  /\ w \in known /\ misses[w] = 0
  /\ \A t \in Tasks : \A n \in DOMAIN tasks[t].attempts :
       Holds(t, n) => tasks[t].attempts[n].worker # w

Pending == {t \in Tasks : tasks[t].state = "PENDING"}

\* The scheduler's choices: a gang goes as a whole, to one slice.
Assignments ==
  {to \in [Tasks -> Workers \cup {NoWorker}] :
     LET placed == {t \in Tasks : to[t] # NoWorker} IN
     /\ placed \subseteq Pending
     /\ \A t \in placed : Free(to[t]) /\ \A u \in placed \ {t} : to[u] # to[t]
     /\ Gang => /\ placed \in {{}, Pending}
                /\ \A t, u \in placed : SliceOf[to[t]] = SliceOf[to[u]]}

\* At most one kind of fault is decided in a tick.
Decide(reconcile) ==
  \/ /\ \E to \in Assignments : dec' = [NoDecision EXCEPT !.assign = to]
     /\ UNCHANGED faults
  \/ /\ Fault("expire")    \* the job's scheduling deadline has passed
     /\ Pending # {}
     /\ dec' = [NoDecision EXCEPT !.expire = Pending]
  \/ /\ Fault("preempt")   \* for a job of a higher band
     /\ \E t \in Tasks : /\ tasks[t].state \in Active
                         /\ dec' = [NoDecision EXCEPT !.preempt = {t}]
  \/ /\ Fault("timeout")
     /\ reconcile
     /\ \E ts \in SUBSET {t \in Tasks : tasks[t].state \in Executing} :
          ts # {} /\ dec' = [NoDecision EXCEPT !.timeout = ts]

\* A wake-up schedules only; the reconcile cadence polls every known worker.
TickStart(reconcile) ==
  /\ phase = "idle"
  /\ Decide(reconcile)
  /\ polled' = IF reconcile THEN known ELSE {}
  /\ plan' = PlanFor(polled')
  /\ waiting' = polled'
  /\ phase' = "rpc"
  /\ UNCHANGED <<db, health, replies, unreached, snap, badBuilds, failing, removed, hosts>>

-----------------------------------------------------------------------------
(* The Reconcile RPC                                                       *)

Asked(w) == {d \in plan : d.worker = w}
Same(p, d) == p.task = d.task /\ p.attempt = d.attempt
Held(w, d) == {p \in procs : p.host = w /\ Same(p, d)}
Live(p) == p.status \in Executing

\* handle_reconcile on daemon w: it starts what it has not got, and stops what
\* it should and every live attempt that the request does not name.
Launched(w, desired) ==
  {[task |-> d.task, attempt |-> d.attempt, host |-> w, status |-> "BUILDING", stop |-> FALSE] :
     d \in {e \in desired :
              /\ e.intent = "start" /\ Held(w, e) = {}
              /\ ~ \E p \in procs : /\ p.host = w /\ p.task = e.task /\ Live(p)
                                    /\ p.attempt >= e.attempt}}
\* Bug: a daemon stops what it is told to, and nothing else.
StoppedOnRequest(w, desired) ==
  {p \in procs : /\ p.host = w /\ Live(p)
                 /\ \E d \in desired : Same(p, d) /\ d.intent = "stop"}

Stopped(w, desired) ==
  {p \in procs : /\ p.host = w /\ Live(p)
                 /\ \A d \in desired : Same(p, d) => d.intent = "stop"}
Handled(w, desired) ==
  (procs \ Stopped(w, desired))
    \cup {[p EXCEPT !.stop = TRUE] : p \in Stopped(w, desired)}
    \cup Launched(w, desired)

\* It reports what it was asked about, and only that counts.
Observed(w, d) ==
  LET held == {p \in procs' : p.host = w /\ Same(p, d)}
  IN  IF held = {} THEN "MISSING" ELSE (CHOOSE p \in held : TRUE).status

RpcReplies(w) ==
  /\ phase = "rpc" /\ w \in waiting
  /\ waiting' = waiting \ {w}
  /\ procs' = Handled(w, Asked(w))
  /\ replies' = replies \cup
       {[task |-> d.task, attempt |-> d.attempt, state |-> Observed(w, d)] : d \in Asked(w)}
  /\ \/ UNCHANGED <<unreached, faults>>
     \/ Fault("sick") /\ unreached' = unreached \cup {w}
  /\ UNCHANGED <<db, health, phase, plan, polled, dec, snap, badBuilds, failing, removed,
                 late, joining>>

\* An error or no answer in time.  It says something of starts only.
RpcFails(w) ==
  /\ phase = "rpc" /\ w \in waiting
  /\ waiting' = waiting \ {w}
  /\ unreached' = unreached \cup {w}
  /\ replies' = replies \cup
       {[task |-> d.task, attempt |-> d.attempt, state |-> "LOST"] :
          d \in {e \in Asked(w) : e.intent = "start"}}
  /\ \/ Fault("lost") /\ UNCHANGED late
     \/ Fault("late") /\ late' = late \cup {[worker |-> w, desired |-> Asked(w)]}
  /\ UNCHANGED <<db, health, phase, plan, polled, dec, snap, badBuilds, failing, removed,
                 procs, joining>>

\* Nobody waits for the answer any more.
LateArrives(r) ==
  /\ Idle /\ r \in late
  /\ late' = late \ {r}
  /\ procs' = Handled(r.worker, r.desired)
  /\ UNCHANGED <<db, health, phase, tick, failing, removed, joining, faults>>

-----------------------------------------------------------------------------
(* The transaction                                                         *)

Scheduled(rows) ==
  CASE dec.expire # {}  -> Expire(rows, dec.expire)
    [] dec.expire = {} /\ dec.preempt # {} -> Preempt(rows, CHOOSE t \in dec.preempt : TRUE)
    [] OTHER            -> Assign(rows, dec.assign)

\* The decisions, which other transactions may have overtaken; then the
\* snapshot for the replies.
CommitSchedule ==
  /\ phase = "rpc" /\ waiting = {}
  /\ tasks' = Settle(Scheduled(tasks), job)
  /\ job' = Recompute(Scheduled(tasks), job)
  /\ snap' = tasks'
  /\ phase' = "apply"
  /\ UNCHANGED <<health, waiting, plan, replies, unreached, polled, dec, badBuilds,
                 failing, removed, hosts, faults>>

\* Bug: the daemon's words are taken for task states.
MeaningUnmapped(r) == r.state

\* MISSING is worker loss as long as the task is active; a request that did
\* not get through fails the start it carried, unless a sibling's report in
\* this batch took the task back.
Meaning(r) ==
  CASE r.state = "MISSING" -> IF snap[r.task].state \in Active THEN "WORKER_FAILED" ELSE "FAILED"
    [] r.state = "LOST" -> "WORKER_FAILED"
    [] OTHER -> r.state
Heard(r) ==
  r.state = "LOST" => tasks[r.task].state = "ASSIGNED" /\ snap[r.task].state = "ASSIGNED"

ApplyObservation(r) ==
  /\ InTransaction /\ r \in replies
  /\ replies' = replies \ {r}
  /\ LET t == r.task
         u == [task |-> t, attempt |-> r.attempt, state |-> Meaning(r)] IN
     IF Heard(r)
       THEN /\ tasks' = ApplyUpdate(tasks, snap, u)
            /\ badBuilds' = IF BuildFailure(tasks[t], snap[t], u)
                              THEN badBuilds \cup {Current(tasks[t]).worker} ELSE badBuilds
       ELSE UNCHANGED <<tasks, badBuilds>>
  /\ UNCHANGED <<job, health, phase, waiting, plan, unreached, polled, dec, snap,
                 failing, removed, hosts, faults>>

\* The recompute pass, the timeouts decided at the start of the tick, commit.
CommitReconcile ==
  /\ InTransaction /\ replies = {}
  /\ LET rows == Timeout(Settle(tasks, job), dec.timeout)
         end == Recompute(tasks, job) IN
     /\ tasks' = Settle(rows, end)
     /\ job' = Recompute(rows, end)
  /\ phase' = "fold"
  /\ plan' = {} /\ dec' = NoDecision /\ snap' = NewRows
  /\ UNCHANGED <<health, waiting, replies, unreached, polled, badBuilds, failing, removed,
                 hosts, faults>>

-----------------------------------------------------------------------------
(* Health                                                                  *)

\* A worker is given up after too many failed builds, or when it has been
\* unreachable often enough and, which takes time, for long enough.
FoldHealth ==
  /\ phase = "fold"
  /\ misses' = [w \in Workers |-> CASE w \notin polled -> misses[w]
                                   [] w \in unreached -> misses[w] + 1
                                   [] OTHER -> 0]
  /\ builds' = [w \in Workers |-> IF w \in badBuilds THEN builds[w] + 1 ELSE builds[w]]
  /\ IF polled = {} THEN failing' = {}
     ELSE \E quiet \in SUBSET {w \in known : misses'[w] >= MinUnreachable} :
            failing' = quiet \cup {w \in known : builds'[w] >= BuildThreshold}
  /\ phase' = IF failing' = {} THEN "idle" ELSE "fail"
  /\ polled' = {} /\ unreached' = {} /\ badBuilds' = {}
  /\ UNCHANGED <<db, registered, known, waiting, plan, replies, dec, snap, removed, hosts, faults>>

Cleared(counts, ws) == [w \in Workers |-> IF w \in ws THEN 0 ELSE counts[w]]
Drop(ws) ==
  /\ known' = known \ ws
  /\ misses' = Cleared(misses, ws)
  /\ builds' = Cleared(builds, ws)

\* ops.worker.fail, for the dead workers and then for the rest of their slices.
FailWorkers ==
  /\ phase \in {"fail", "siblings"}
  /\ \E rows \in FailOutcomes(tasks, failing) :
       /\ tasks' = Unbind(Settle(rows, job), failing)
       /\ job' = Recompute(rows, job)
  /\ Drop(failing)
  /\ registered' = registered \ failing
  /\ removed' = removed \cup failing
  /\ failing' = IF phase = "siblings" THEN {}
                ELSE {w \in registered' : \E v \in failing : SliceOf[v] = SliceOf[w]}
  /\ phase' = IF failing' = {} THEN "forget" ELSE "siblings"
  /\ UNCHANGED <<tick, hosts, faults>>

\* Also a worker that has registered again since and has a row.
Forget ==
  /\ phase = "forget"
  /\ Drop(removed)
  /\ removed' = {}
  /\ phase' = "idle"
  /\ UNCHANGED <<db, registered, tick, failing, hosts, faults>>

\* The database survives; the tracker starts anew from the worker rows, also
\* those it had forgotten.
ControllerRestarts ==
  /\ ~InTransaction
  /\ Fault("crash")
  /\ \E out \in SUBSET waiting :
       late' = late \cup {[worker |-> w, desired |-> Asked(w)] : w \in out}
  /\ phase' = "idle"
  /\ known' = registered
  /\ misses' = Cleared(misses, Workers) /\ builds' = Cleared(builds, Workers)
  /\ waiting' = {} /\ plan' = {} /\ replies' = {} /\ unreached' = {} /\ polled' = {}
  /\ dec' = NoDecision /\ snap' = NewRows /\ badBuilds' = {}
  /\ failing' = {} /\ removed' = {}
  /\ UNCHANGED <<db, registered, procs, joining>>

CancelJob ==
  /\ ~InTransaction
  /\ Fault("cancel")
  /\ job \notin JobEnds \ {"WORKER_FAILED"}
  /\ tasks' = KillNonTerminal(tasks)
  /\ job' = "KILLED"
  /\ UNCHANGED <<health, phase, tick, failing, removed, hosts>>

-----------------------------------------------------------------------------
(* Worker daemons                                                          *)

Becomes(p, status) ==
  /\ Idle
  /\ procs' = (procs \ {p}) \cup {[p EXCEPT !.status = status]}
  /\ UNCHANGED <<db, health, phase, tick, failing, removed, late, joining>>

Runs(p) == p.status = "BUILDING" /\ Becomes(p, "RUNNING") /\ UNCHANGED faults
Succeeds(p) == p.status = "RUNNING" /\ Becomes(p, "SUCCEEDED") /\ UNCHANGED faults
Dies(p) == Live(p) /\ p.stop /\ Becomes(p, "KILLED") /\ UNCHANGED faults
Breaks(p) ==
  /\ Live(p) /\ Fault("fails")
  /\ \E status \in {"FAILED", "WORKER_FAILED"} : Becomes(p, status)

\* The daemon starts over; it may adopt containers that run.
Restarts(w, adopted) ==
  /\ ~InTransaction
  /\ procs' = {p \in procs : p.host # w} \cup {[p EXCEPT !.stop = FALSE] : p \in adopted}
  /\ late' = {r \in late : r.worker # w}
  /\ joining' = joining \cup {w}
  /\ UNCHANGED <<db, health, phase, tick, failing, removed>>

RestartDaemon(w) ==
  /\ Fault("restart")
  /\ \E adopted \in SUBSET {p \in procs : p.host = w /\ p.status = "RUNNING"} :
       Restarts(w, adopted)

\* No controller has called for heartbeat_timeout: everything is reset.
ResetDaemon(w) ==
  /\ w \notin known \cup joining
  /\ Restarts(w, {})
  /\ UNCHANGED faults

Registers(w) ==
  /\ ~InTransaction /\ w \in joining
  /\ joining' = joining \ {w}
  /\ registered' = registered \cup {w}
  /\ known' = known \cup {w}
  /\ misses' = Cleared(misses, {w})
  /\ UNCHANGED <<db, builds, phase, tick, failing, removed, procs, late, faults>>

-----------------------------------------------------------------------------
TickStep ==
  \/ \E w \in Workers : RpcReplies(w)
  \/ CommitSchedule \/ CommitReconcile
  \/ \E r \in replies : ApplyObservation(r)
  \/ FoldHealth \/ FailWorkers \/ Forget

Next ==
  \/ TickStep
  \/ \E reconcile \in BOOLEAN : TickStart(reconcile)
  \/ \E w \in Workers : RpcFails(w) \/ RestartDaemon(w) \/ ResetDaemon(w) \/ Registers(w)
  \/ \E r \in late : LateArrives(r)
  \/ \E p \in procs : Runs(p) \/ Succeeds(p) \/ Dies(p) \/ Breaks(p)
  \/ ControllerRestarts \/ CancelJob

Spec == Init /\ [][Next]_vars

-----------------------------------------------------------------------------
(* Fairness: the loop goes on and its reconcile limiter, once due, stays    *)
(* due; a RPC ends by its time limit; a killed container exits; a daemon    *)
(* nobody talks to resets itself and registers.  Processes need not end.    *)
(* The model holds processes and daemons still for parts of each tick:      *)
(* strong fairness stands for daemons that nothing holds up.                *)

Fairness ==
  /\ SF_vars(TickStart(TRUE))
  /\ WF_vars(TickStep)
  /\ SF_vars(\E p \in procs : Dies(p))
  /\ SF_vars(\E w \in Workers : ResetDaemon(w))
  /\ SF_vars(\E w \in Workers : Registers(w))

FairSpec == Spec /\ Fairness

-----------------------------------------------------------------------------
(* Properties                                                              *)

TypeOK ==
  /\ tasks \in [Tasks -> Row] /\ job \in JobStates
  /\ registered \subseteq Workers /\ known \subseteq Workers
  /\ misses \in [Workers -> Nat] /\ builds \in [Workers -> Nat]
  /\ phase \in {"idle", "rpc", "apply", "fold", "fail", "siblings", "forget"}
  /\ waiting \subseteq Workers /\ polled \subseteq Workers /\ unreached \subseteq Workers
  /\ plan \subseteq Desired /\ replies \subseteq Reply
  /\ dec \in Decision /\ snap \in [Tasks -> Row]
  /\ badBuilds \subseteq Workers
  /\ failing \subseteq Workers /\ removed \subseteq Workers
  /\ procs \subseteq Proc /\ late \subseteq Late /\ joining \subseteq Workers
  /\ faults \in Nat

\* A task and its attempts tell the same story: an active task has a live
\* current attempt in the same state on a worker that the controller knows;
\* every other attempt is over.  Late reports, cascades and worker failures
\* all write these rows, from snapshots that differ.
Agree ==
  \A t \in Tasks :
    LET row == tasks[t] IN
    /\ row.state \in Active =>
         /\ Started(row)
         /\ Current(row).state = row.state
         /\ ~Current(row).finished
         /\ Current(row).worker \in known
    /\ \A n \in DOMAIN row.attempts :
         \/ row.state \in Active /\ n = Len(row.attempts)
         \/ row.attempts[n].state \in Terminal

\* A worker is never promised to two attempts at a time: the scheduler reads
\* the capacity in the snapshot of the tick, the transaction writes later.
OneSlot ==
  \A t, u \in Tasks : \A n \in DOMAIN tasks[t].attempts, m \in DOMAIN tasks[u].attempts :
    Holds(t, n) /\ Holds(u, m) /\ tasks[t].attempts[n].worker = tasks[u].attempts[m].worker
      => t = u /\ n = m

\* A gang runs as a whole on one slice or not at all (coscheduling): no
\* committed state has a member waiting for a place while another has one.  That
\* a preempted member takes its siblings along is what the code does and
\* test_preemption.py:1335-1397 asserts; docs/task-states.md:210-213 denies it
\* (PreemptSparesSiblings).
GangTogether ==
  Gang /\ ~InTransaction =>
    \A t, u \in Tasks :
      tasks[t].state \in Active =>
        /\ tasks[u].state # "PENDING"
        /\ tasks[u].state \in Active =>
             SliceOf[Current(tasks[t]).worker] = SliceOf[Current(tasks[u]).worker]

\* A committed job is over exactly when its tasks are: it does not hang
\* RUNNING behind ended tasks, and it does not end before one.
JobSettled ==
  ~InTransaction => (job \in JobEnds <=> \A t \in Tasks : tasks[t].state \in Terminal)

\* Without timeouts, each attempt is charged to a budget of its task at most once,
\* however its end reaches the controller.
ChargedOnce ==
  "timeout" \notin Faults =>
    \A t \in Tasks :
      tasks[t].failures + tasks[t].preemptions <= Len(tasks[t].attempts)

\* A task that has ended keeps its state, and an attempt that has ended is never
\* revived nor its capacity taken back, whatever is reported late.
EndsAreFinal ==
  [][\A t \in Tasks :
       /\ tasks[t].state \in Terminal => tasks'[t].state = tasks[t].state
       /\ \A n \in DOMAIN tasks[t].attempts :
            /\ n \in DOMAIN tasks'[t].attempts
            /\ tasks[t].attempts[n].state \in Terminal =>
                 tasks'[t].attempts[n].state \in Terminal
            /\ tasks[t].attempts[n].finished => tasks'[t].attempts[n].finished]_vars

\* The current attempt, when ended by the controller, gives its worker back: the
\* stop for it is sent until its worker answers (reconcile/worker.py:200-208).
EndedHolds(t) ==
  /\ Started(tasks[t])
  /\ Holds(t, Len(tasks[t].attempts)) /\ Current(tasks[t]).state \in Terminal
CurrentSlotReturns == \A t \in Tasks : EndedHolds(t) ~> ~EndedHolds(t)

\* When the job is over its processes stop, also those the controller has lost
\* sight of.
JobStops == job \in JobEnds ~> ~ \E p \in procs : Live(p)

\* docs/task-states.md:210-213: "PREEMPT decisions do not directly cascade
\* coscheduled siblings - the cascade only occurs through job finalization".
PreemptSparesSiblings ==
  [][phase = "rpc" /\ phase' = "apply" /\ job' \notin JobEnds =>
       \A t \in dec.preempt : \A u \in Tasks \ {t} : tasks'[u].state = tasks[u].state]_vars

\* reconcile/worker.py:200-208: the stop for an attempt that was rolled back
\* "finalizes the attempt and releases capacity".
SlotReturns ==
  \A t \in Tasks : \A n \in 1 .. MaxFaults + 1 :
    (Holds(t, n) /\ tasks[t].attempts[n].state \in Terminal) ~> ~Holds(t, n)
=============================================================================
