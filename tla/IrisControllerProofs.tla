------------------------ MODULE IrisControllerProofs ------------------------
(***************************************************************************)
(* Theorems about IrisController, for any number of tasks and workers, any  *)
(* budgets and thresholds, and every set and number of faults.              *)
(***************************************************************************)
EXTENDS IrisController, TLAPS

USE DEF Executing, Active, Terminal, TaskStates

-----------------------------------------------------------------------------
(* One row.  Every rule of the kernel but assignment is tame: it revives    *)
(* nothing, and an active task stays where it is.                           *)

Good(r) ==
  /\ r \in Row
  /\ r.state \in Active =>
       /\ Started(r)
       /\ Current(r).state = r.state
       /\ ~Current(r).finished
  /\ \A n \in 1 .. Len(r.attempts) :
       \/ r.state \in Active /\ n = Len(r.attempts)
       \/ r.attempts[n].state \in Terminal

Keeps(r, s) ==
  /\ r.state \in Terminal => s.state = r.state
  /\ Len(r.attempts) <= Len(s.attempts)
  /\ \A n \in 1 .. Len(r.attempts) :
       /\ r.attempts[n].state \in Terminal => s.attempts[n].state \in Terminal
       /\ r.attempts[n].finished => s.attempts[n].finished
       /\ s.attempts[n].worker \in {r.attempts[n].worker, NoWorker}

Tame(r, s) ==
  /\ Good(s)
  /\ Keeps(r, s)
  /\ Len(s.attempts) = Len(r.attempts)
  /\ s.state \in Active => r.state \in Active /\ Current(s).worker = Current(r).worker

\* What Mark does to the attempts, one by one.
Marked(r, as, stamp, a) ==
  /\ a \in Seq(Attempt)
  /\ Len(a) = Len(r.attempts)
  /\ \A n \in 1 .. Len(r.attempts) :
       /\ a[n].state = IF n = Len(r.attempts) THEN as ELSE r.attempts[n].state
       /\ a[n].worker = r.attempts[n].worker
       /\ r.attempts[n].finished => a[n].finished
       /\ a[n].finished => r.attempts[n].finished \/ stamp

LEMMA MarkAttempts ==
  ASSUME NEW r \in Row, NEW as \in TaskStates, NEW stamp \in BOOLEAN
  PROVE  Marked(r, as, stamp, Mark(r, as, stamp))
<1>1. r.attempts \in Seq(Attempt)
  BY DEF Row
<1>2. CASE ~Started(r)
  <2>1. r.attempts = <<>> /\ Len(r.attempts) = 0
    BY <1>2 DEF Started
  <2>2. Mark(r, as, stamp) = r.attempts
    BY <1>2 DEF Mark
  <2> QED
    BY <1>1, <2>1, <2>2 DEF Marked
<1>3. CASE Started(r)
  <2> DEFINE len == Len(r.attempts)
             new == [state |-> as, worker |-> Current(r).worker,
                     finished |-> Current(r).finished \/ stamp]
             a == [r.attempts EXCEPT ![len] = new]
  <2>1. len \in 1 .. len
    BY <1>1, <1>3 DEF Started
  <2>2. Current(r) = r.attempts[len] /\ r.attempts[len] \in Attempt
    BY <1>1, <2>1 DEF Current
  <2>3. new \in Attempt
    BY <2>2 DEF Attempt
  <2>4. a \in Seq(Attempt) /\ Len(a) = len /\ a[len] = new
        /\ \A n \in 1 .. len : n # len => a[n] = r.attempts[n]
    <3> HIDE DEF new
    <3> QED  BY <1>1, <2>1, <2>3
  <2>5. Mark(r, as, stamp) = a
    BY <1>3 DEF Mark
  <2>6. /\ new.state = as /\ new.worker = r.attempts[len].worker
        /\ new.finished <=> r.attempts[len].finished \/ stamp
    BY <2>2
  <2> HIDE DEF new, a
  <2> QED
    BY <2>1, <2>4, <2>5, <2>6 DEF Marked
<1> QED
  BY <1>2, <1>3

\* Ending a row that is not ended, or leaving its state, is tame.
LEMMA TerminateTame ==
  ASSUME NEW r, Good(r), NEW st \in TaskStates \ Active, NEW as \in Terminal,
         NEW stamp \in BOOLEAN, r.state \in Terminal => st = r.state
  PROVE  Tame(r, Terminate(r, st, as, stamp))
<1> DEFINE s == Terminate(r, st, as, stamp)
<1>1. r \in Row /\ r.attempts \in Seq(Attempt)
  BY DEF Good, Row
<1>2. Marked(r, as, stamp, Mark(r, as, stamp))
  BY <1>1, MarkAttempts
<1>3. s \in Row /\ s.state = st /\ Marked(r, as, stamp, s.attempts)
  BY <1>1, <1>2 DEF Terminate, Row, Marked
<1> HIDE DEF s
<1>4. \A n \in 1 .. Len(r.attempts) : s.attempts[n].state \in Terminal
  BY <1>3 DEF Good, Marked
<1>5. Good(s) /\ Len(s.attempts) = Len(r.attempts)
  BY <1>3, <1>4 DEF Good, Marked
<1>6. Keeps(r, s)
  <2>1. Len(r.attempts) <= Len(s.attempts)
    BY <1>1, <1>5
  <2>2. \A n \in 1 .. Len(r.attempts) : r.attempts[n].finished => s.attempts[n].finished
    BY <1>3 DEF Marked
  <2>3. \A n \in 1 .. Len(r.attempts) : s.attempts[n].worker = r.attempts[n].worker
    BY <1>3 DEF Marked
  <2> QED
    BY <1>3, <1>4, <2>1, <2>2, <2>3 DEF Keeps
<1> QED
  BY <1>3, <1>5, <1>6 DEF Tame, s

\* An active task goes on.
LEMMA ProgressTame ==
  ASSUME NEW r, Good(r), r.state \in Active, NEW st \in Executing
  PROVE  Tame(r, Terminate(r, st, st, FALSE))
<1> DEFINE s == Terminate(r, st, st, FALSE)
<1>1. r \in Row /\ r.attempts \in Seq(Attempt)
  BY DEF Good, Row
<1>2. Marked(r, st, FALSE, Mark(r, st, FALSE))
  BY <1>1, MarkAttempts
<1>3. s \in Row /\ s.state = st /\ Marked(r, st, FALSE, s.attempts)
  BY <1>1, <1>2 DEF Terminate, Row, Marked
<1>4. Len(r.attempts) \in 1 .. Len(r.attempts)
  BY <1>1 DEF Good, Started
<1> HIDE DEF s
<1>5. /\ Started(s) /\ Len(s.attempts) = Len(r.attempts)
      /\ Current(s).state = st /\ ~Current(s).finished
      /\ Current(s).worker = Current(r).worker
  BY <1>1, <1>3, <1>4 DEF Current, Good, Marked, Started
<1>6. \A n \in 1 .. Len(r.attempts) :
        n = Len(r.attempts) \/ s.attempts[n].state = r.attempts[n].state
  BY <1>3 DEF Marked
<1>7. Good(s)
  <2>1. \A n \in 1 .. Len(r.attempts) :
          n = Len(r.attempts) \/ s.attempts[n].state \in Terminal
    BY <1>6 DEF Good
  <2> QED  BY <1>3, <1>5, <2>1 DEF Good
<1>8. Keeps(r, s)
  <2>1. Len(r.attempts) <= Len(s.attempts)
    BY <1>1, <1>5
  <2>2. \A n \in 1 .. Len(r.attempts) : r.attempts[n].finished => s.attempts[n].finished
    BY <1>3 DEF Marked
  <2>3. \A n \in 1 .. Len(r.attempts) :
          r.attempts[n].state \in Terminal => s.attempts[n].state \in Terminal
    BY <1>4, <1>6 DEF Good, Current
  <2>4. \A n \in 1 .. Len(r.attempts) : s.attempts[n].worker = r.attempts[n].worker
    BY <1>3 DEF Marked
  <2> QED
    BY <2>1, <2>2, <2>3, <2>4 DEF Keeps
<1> QED
  BY <1>5, <1>7, <1>8 DEF Tame, s

\* Charging a budget.
LEMMA ChargeTame ==
  ASSUME NEW r, NEW s, Tame(r, s), NEW n \in Nat
  PROVE  Tame(r, [s EXCEPT !.failures = n]) /\ Tame(r, [s EXCEPT !.preemptions = n])
BY DEF Tame, Good, Keeps, Row, Started, Current

LEMMA TameReflexive ==
  ASSUME NEW r, Good(r)
  PROVE  Tame(r, r)
BY DEF Tame, Keeps, Good, Row

LEMMA KeepsTransitive ==
  ASSUME NEW r \in Row, NEW s \in Row, NEW x \in Row, Keeps(r, s), Keeps(s, x)
  PROVE  Keeps(r, x)
<1>1. Len(r.attempts) \in Nat /\ Len(s.attempts) \in Nat /\ Len(x.attempts) \in Nat
  BY DEF Row
<1>2. 1 .. Len(r.attempts) \subseteq 1 .. Len(s.attempts)
  BY <1>1 DEF Keeps
<1>3. Len(r.attempts) <= Len(x.attempts)
  BY <1>1 DEF Keeps
<1> QED
  BY <1>2, <1>3 DEF Keeps

LEMMA TameTransitive ==
  ASSUME NEW r, NEW s, NEW x, Good(r), Tame(r, s), Tame(s, x)
  PROVE  Tame(r, x)
BY DEF Tame, Keeps, Good, Row

\* A task that loses its attempt is PENDING again or ends.
LEMMA EvictTame ==
  ASSUME NEW r, Good(r), r.state \in Active, NEW terminal \in Terminal, NEW as \in Terminal,
         NEW stamp \in BOOLEAN
  PROVE  /\ Tame(r, Evict(r, terminal, as, stamp))
         /\ Evict(r, terminal, as, stamp).state \in {"PENDING", terminal}
<1> DEFINE next == Resolve(r.state, r.preemptions, terminal)
<1>1. next.state \in {"PENDING", terminal} /\ next.count \in Nat
  BY DEF Resolve, Good, Row
<1>2. Tame(r, Terminate(r, next.state, as, stamp))
  BY <1>1, TerminateTame
<1>3. Evict(r, terminal, as, stamp)
        = [Terminate(r, next.state, as, stamp) EXCEPT !.preemptions = next.count]
  BY DEF Evict
<1>4. Terminate(r, next.state, as, stamp).state = next.state
      /\ Terminate(r, next.state, as, stamp) \in Row
  BY <1>2 DEF Terminate, Good, Row, Tame
<1> DEFINE s == Terminate(r, next.state, as, stamp)
<1> HIDE DEF next, s
<1>5. Tame(r, [s EXCEPT !.preemptions = next.count])
  BY <1>1, <1>2, ChargeTame DEF s
<1>6. [s EXCEPT !.preemptions = next.count].state = s.state
  BY <1>4 DEF Row, s
<1> QED
  BY <1>1, <1>3, <1>4, <1>5, <1>6 DEF s

\* What a worker may say of an attempt.
Words == {"BUILDING", "RUNNING", "SUCCEEDED", "FAILED", "WORKER_FAILED", "KILLED"}

LEMMA TransitionTame ==
  ASSUME NEW r, Good(r), r.state \in Active, NEW u, u.state \in Words
  PROVE  Tame(r, Transition(r, u))
<1>1. CASE u.state \in {"WORKER_FAILED", "KILLED"}
  <2>1. Transition(r, u) = Evict(r, "WORKER_FAILED", u.state, TRUE)
    BY <1>1 DEF Transition
  <2>2. u.state \in Terminal /\ "WORKER_FAILED" \in Terminal
    BY <1>1
  <2>3. \A stamp \in BOOLEAN : Tame(r, Evict(r, "WORKER_FAILED", u.state, stamp))
    BY <2>2, EvictTame
  <2> QED
    BY <2>1, <2>3
<1>2. CASE u.state = "FAILED"
  <2> DEFINE st == IF r.failures < MaxRetriesFailure THEN "PENDING" ELSE "FAILED"
             s == Terminate(r, st, "FAILED", TRUE)
  <2>1. Tame(r, s)
    BY TerminateTame
  <2>2. s.failures = r.failures /\ r.failures + 1 \in Nat
    BY DEF Terminate, Good, Row
  <2>3. Transition(r, u) = [s EXCEPT !.failures = r.failures + 1]
    BY <1>2, <2>2 DEF Transition
  <2>4. r.failures + 1 \in Nat
    BY <2>2
  <2> HIDE DEF s
  <2>5. Tame(r, [s EXCEPT !.failures = r.failures + 1])
    BY <2>1, <2>4, ChargeTame
  <2> QED
    BY <2>3, <2>5
<1>3. CASE u.state = "SUCCEEDED"
  <2>1. Transition(r, u) = Terminate(r, "SUCCEEDED", "SUCCEEDED", TRUE)
    BY <1>3 DEF Transition
  <2> QED
    BY <2>1, TerminateTame
<1>4. CASE u.state \in Executing
  <2>1. Transition(r, u) = Terminate(r, u.state, u.state, FALSE)
    BY <1>4 DEF Transition, Terminate, Mark
  <2> QED
    BY <1>4, <2>1, ProgressTame
<1> QED
  BY <1>1, <1>2, <1>3, <1>4 DEF Words

\* A report that counts is about an active task; old is the row in the snapshot.
LEMMA MovesActive ==
  ASSUME NEW old, Good(old), NEW r, Tame(old, r), NEW u, u.attempt \in Nat \ {0},
         Moves(r, old, u)
  PROVE  r.state \in Active
<1>1. r.attempts \in Seq(Attempt) /\ Len(r.attempts) \in 1 .. Len(r.attempts)
  BY DEF Moves, Dropped, Tame, Good, Row
<1>2. Current(r).state \notin Terminal
  BY DEF Moves, Ended
<1> QED
  BY <1>1, <1>2 DEF Tame, Good, Current

LEMMA ReportedTame ==
  ASSUME NEW old, Good(old), NEW r, Tame(old, r), NEW u, u.attempt \in Nat \ {0},
         u.state \in Words
  PROVE  Tame(r, Reported(r, old, u))
<1>1. Good(r)
  BY DEF Tame
<1>2. CASE Moves(r, old, u)
  <2>1. Reported(r, old, u) = Transition(r, u)
    BY <1>2 DEF Reported, Moves
  <2>2. r.state \in Active
    BY <1>2, MovesActive
  <2> QED
    BY <1>1, <2>1, <2>2, TransitionTame
<1>3. CASE /\ ~Moves(r, old, u) /\ ~Dropped(r, old, u) /\ Ended(r, old)
           /\ u.state \in Terminal
  <2>1. r \in Row /\ r.attempts \in Seq(Attempt) /\ Len(r.attempts) \in 1 .. Len(r.attempts)
    BY <1>1, <1>3 DEF Dropped, Tame, Good, Row
  <2>2. Finished(old) => r.state \in Terminal
    BY DEF Finished, Tame, Keeps
  <2>3. Current(r).state \in Terminal
    BY <1>1, <1>3, <2>1, <2>2 DEF Ended, Good, Current
  <2>4. r.state \in TaskStates \ Active
    BY <1>1, <2>1, <2>3 DEF Good, Row
  <2>5. Reported(r, old, u) = Terminate(r, r.state, Current(r).state, TRUE)
    BY <1>3, <2>1 DEF Reported, Terminate, Row
  <2> QED
    BY <1>1, <2>3, <2>4, <2>5, TerminateTame
<1>4. CASE /\ ~Moves(r, old, u)
           /\ ~(~Dropped(r, old, u) /\ Ended(r, old) /\ u.state \in Terminal)
  BY <1>1, <1>4, TameReflexive DEF Reported
<1> QED
  BY <1>2, <1>3, <1>4

-----------------------------------------------------------------------------
(* The rows of the job                                                     *)

GoodRows(rows) ==
  /\ rows \in [Tasks -> Row]
  /\ \A t \in Tasks : Good(rows[t])

TameRows(rows, next) ==
  /\ next \in [Tasks -> Row]
  /\ \A t \in Tasks : Tame(rows[t], next[t])

LEMMA TameRowsGood ==
  ASSUME NEW rows, NEW next, TameRows(rows, next)
  PROVE  GoodRows(next)
BY DEF TameRows, GoodRows, Tame

LEMMA TameRowsReflexive ==
  ASSUME NEW rows, GoodRows(rows)
  PROVE  TameRows(rows, rows)
BY TameReflexive DEF TameRows, GoodRows

LEMMA TameRowsTransitive ==
  ASSUME NEW rows, GoodRows(rows), NEW next, TameRows(rows, next), NEW last, TameRows(next, last)
  PROVE  TameRows(rows, last)
BY TameTransitive DEF TameRows, GoodRows

LEMMA CascadeTame ==
  ASSUME NEW rows, GoodRows(rows), NEW t \in Tasks
  PROVE  TameRows(rows, Cascade(rows, t))
<1> SUFFICES ASSUME NEW u \in Tasks
             PROVE  Tame(rows[u], Cascade(rows, t)[u]) /\ Cascade(rows, t)[u] \in Row
  BY DEF TameRows, Cascade
<1>1. Good(rows[u])
  BY DEF GoodRows
<1>2. CASE ~Gang \/ u \notin Siblings(rows, t)
  <2>1. Cascade(rows, t)[u] = rows[u]
    BY <1>2 DEF Cascade
  <2> QED
    BY <1>1, <2>1, TameReflexive DEF Good
<1>3. CASE ~(~Gang \/ u \notin Siblings(rows, t))
  <2>1. rows[u].state \in Active
    BY <1>3 DEF Siblings
  <2>2. Cascade(rows, t)[u] \in {Terminate(rows[u], "COSCHED_FAILED", "COSCHED_FAILED", FALSE),
                                 Terminate(rows[u], "PENDING", "PREEMPTED", FALSE)}
    BY <1>3 DEF Cascade
  <2>3. \A stamp \in BOOLEAN :
          /\ Tame(rows[u], Terminate(rows[u], "COSCHED_FAILED", "COSCHED_FAILED", stamp))
          /\ Tame(rows[u], Terminate(rows[u], "PENDING", "PREEMPTED", stamp))
    BY <1>1, <2>1, TerminateTame
  <2> QED
    BY <2>2, <2>3 DEF Tame, Good
<1> QED
  BY <1>2, <1>3

LEMMA ApplyUpdateTame ==
  ASSUME NEW snap0, GoodRows(snap0), NEW rows, TameRows(snap0, rows),
         NEW u, u.task \in Tasks, u.attempt \in Nat \ {0}, u.state \in Words
  PROVE  TameRows(rows, ApplyUpdate(rows, snap0, u))
<1> DEFINE t == u.task
           next == [rows EXCEPT ![t] = Reported(rows[t], snap0[t], u)]
<1>1. GoodRows(rows)
  BY TameRowsGood
<1>2. Tame(rows[t], Reported(rows[t], snap0[t], u))
  BY ReportedTame DEF TameRows, GoodRows
<1>3. TameRows(rows, next)
  <2> DEFINE row == Reported(rows[t], snap0[t], u)
  <2>1. \A v \in Tasks : Tame(rows[v], rows[v])
    BY <1>1, TameReflexive DEF GoodRows, Good
  <2>2. row \in Row /\ rows \in [Tasks -> Row]
    BY <1>1, <1>2 DEF Tame, Good, GoodRows
  <2>3. next = [rows EXCEPT ![t] = row] /\ Tame(rows[t], row)
    BY <1>2
  <2> HIDE DEF row, next
  <2>4. next \in [Tasks -> Row]
    BY <2>2, <2>3
  <2>5. \A v \in Tasks : Tame(rows[v], next[v])
    BY <2>1, <2>2, <2>3
  <2> QED  BY <2>4, <2>5 DEF TameRows
<1>4. ApplyUpdate(rows, snap0, u) \in {next, Cascade(next, t)}
  BY DEF ApplyUpdate
<1> HIDE DEF next
<1>5. TameRows(next, Cascade(next, t))
  BY <1>3, TameRowsGood, CascadeTame
<1> QED
  BY <1>1, <1>3, <1>4, <1>5, TameRowsTransitive

LEMMA PreemptTame ==
  ASSUME NEW rows, GoodRows(rows), NEW t \in Tasks
  PROVE  TameRows(rows, Preempt(rows, t))
<1>1. CASE rows[t].state \in Active
  <2> DEFINE next == [rows EXCEPT ![t] = Evict(rows[t], "PREEMPTED", "PREEMPTED", FALSE)]
  <2>1. \A stamp \in BOOLEAN : Tame(rows[t], Evict(rows[t], "PREEMPTED", "PREEMPTED", stamp))
    BY <1>1, EvictTame DEF GoodRows
  <2>2. Tame(rows[t], Evict(rows[t], "PREEMPTED", "PREEMPTED", FALSE))
    BY <2>1
  <2>3. TameRows(rows, next)
    BY <2>2, TameReflexive DEF TameRows, GoodRows, Tame, Good
  <2>4. Preempt(rows, t) = Cascade(next, t)
    BY <1>1 DEF Preempt
  <2> HIDE DEF next
  <2> QED
    BY <2>3, <2>4, TameRowsGood, CascadeTame, TameRowsTransitive
<1>2. CASE rows[t].state \notin Active
  BY <1>2, TameRowsReflexive DEF Preempt
<1> QED
  BY <1>1, <1>2

\* Tasks whose deadline has passed are still in the queue.
LEMMA ExpireTame ==
  ASSUME NEW rows, GoodRows(rows), NEW ts,
         \A t \in ts \cap Tasks : rows[t].state \notin Active
  PROVE  TameRows(rows, Expire(rows, ts))
<1> SUFFICES ASSUME NEW t \in Tasks
             PROVE  Tame(rows[t], Expire(rows, ts)[t]) /\ Expire(rows, ts)[t] \in Row
  BY DEF TameRows, Expire
<1>1. Good(rows[t])
  BY DEF GoodRows
<1>2. CASE t \in ts /\ rows[t].state \notin Terminal
  <2>1. Expire(rows, ts)[t] = [rows[t] EXCEPT !.state = "UNSCHEDULABLE"]
    BY <1>2 DEF Expire
  <2> QED
    BY <1>1, <1>2, <2>1 DEF Tame, Good, Keeps, Row
<1>3. CASE ~(t \in ts /\ rows[t].state \notin Terminal)
  BY <1>1, <1>3, TameReflexive DEF Expire, Good
<1> QED
  BY <1>2, <1>3

LEMMA TimeoutTame ==
  ASSUME NEW rows, GoodRows(rows), NEW ts \in SUBSET Tasks
  PROVE  TameRows(rows, Timeout(rows, ts))
<1> SUFFICES ASSUME NEW t \in Tasks
             PROVE  Tame(rows[t], Timeout(rows, ts)[t]) /\ Timeout(rows, ts)[t] \in Row
  BY DEF TameRows, Timeout
<1>1. Good(rows[t])
  BY DEF GoodRows
<1> DEFINE failed == Terminate(rows[t], "FAILED", "FAILED", FALSE)
<1>2. \/ /\ rows[t].state \notin Terminal
         /\ Timeout(rows, ts)[t] = [failed EXCEPT !.failures = @ + 1]
      \/ /\ rows[t].state \notin Terminal
         /\ Timeout(rows, ts)[t]
              = Terminate(rows[t], "COSCHED_FAILED", "COSCHED_FAILED", FALSE)
      \/ Timeout(rows, ts)[t] = rows[t]
  BY DEF Timeout, Siblings
<1>3. rows[t].state \notin Terminal =>
        \A stamp \in BOOLEAN :
          /\ Tame(rows[t], Terminate(rows[t], "FAILED", "FAILED", stamp))
          /\ Tame(rows[t], Terminate(rows[t], "COSCHED_FAILED", "COSCHED_FAILED", stamp))
  BY <1>1, TerminateTame
<1>4. rows[t].state \notin Terminal => Tame(rows[t], failed)
  BY <1>3
<1> DEFINE charged == [failed EXCEPT !.failures = @ + 1]
<1>5. rows[t].state \notin Terminal => Tame(rows[t], charged)
  <2> HAVE rows[t].state \notin Terminal
  <2>1. failed.failures + 1 \in Nat
    <3> HIDE DEF failed
    <3> QED  BY <1>4 DEF Tame, Good, Row
  <2> DEFINE n == failed.failures + 1
  <2>2. charged = [failed EXCEPT !.failures = n]
    OBVIOUS
  <2>3. Tame(rows[t], failed) /\ n \in Nat
    BY <1>4, <2>1
  <2> HIDE DEF failed, charged, n
  <2>4. Tame(rows[t], [failed EXCEPT !.failures = n])
    BY <2>3, ChargeTame
  <2> QED
    BY <2>2, <2>4
<1>6. \/ Timeout(rows, ts)[t] = rows[t]
      \/ Tame(rows[t], Timeout(rows, ts)[t])
  <2> HIDE DEF failed, charged
  <2> QED
    BY <1>2, <1>3, <1>5 DEF charged
<1> QED
  BY <1>1, <1>6, TameReflexive DEF Tame, Good

LEMMA KillTame ==
  ASSUME NEW rows, GoodRows(rows)
  PROVE  /\ TameRows(rows, KillNonTerminal(rows))
         /\ \A t \in Tasks : KillNonTerminal(rows)[t].state \notin Active
<1> SUFFICES ASSUME NEW t \in Tasks
             PROVE  /\ Tame(rows[t], KillNonTerminal(rows)[t])
                    /\ KillNonTerminal(rows)[t] \in Row
                    /\ KillNonTerminal(rows)[t].state \notin Active
  BY DEF TameRows, KillNonTerminal
<1>1. Good(rows[t])
  BY DEF GoodRows
<1>2. CASE rows[t].state \in Terminal
  BY <1>1, <1>2, TameReflexive DEF KillNonTerminal, Good
<1>3. CASE rows[t].state \notin Terminal
  <2>1. \A stamp \in BOOLEAN : Tame(rows[t], Terminate(rows[t], "KILLED", "KILLED", stamp))
    BY <1>1, <1>3, TerminateTame
  <2>2. KillNonTerminal(rows)[t] = Terminate(rows[t], "KILLED", "KILLED", FALSE)
    BY <1>3 DEF KillNonTerminal
  <2>3. Tame(rows[t], KillNonTerminal(rows)[t])
    BY <2>1, <2>2
  <2>4. KillNonTerminal(rows)[t].state = "KILLED"
    BY <1>1, <2>2 DEF Terminate, Good, Row
  <2> QED
    BY <2>3, <2>4 DEF Tame, Good
<1> QED
  BY <1>2, <1>3

LEMMA SettleTame ==
  ASSUME NEW rows, GoodRows(rows), NEW j
  PROVE  TameRows(rows, Settle(rows, j))
BY KillTame, TameRowsReflexive DEF Settle

\* The workers ws fail: nobody is active on them any more.
LEMMA FailTame ==
  ASSUME NEW rows, GoodRows(rows), NEW ws, NEW next \in FailOutcomes(rows, ws)
  PROVE  /\ TameRows(rows, next)
         /\ \A t \in Tasks : next[t].state \in Active => Current(next[t]).worker \notin ws
<1>1. ASSUME NEW ts \in SUBSET Tasks, \A t \in ts : rows[t].state \in Active
      PROVE  /\ TameRows(rows, Fail(rows, ts))
             /\ \A t \in ts : Fail(rows, ts)[t].state \notin Active
  <2> SUFFICES ASSUME NEW t \in Tasks
               PROVE  /\ Tame(rows[t], Fail(rows, ts)[t])
                      /\ Fail(rows, ts)[t] \in Row
                      /\ t \in ts => Fail(rows, ts)[t].state \notin Active
    BY DEF TameRows, Fail
  <2>1. Good(rows[t])
    BY DEF GoodRows
  <2>2. CASE t \in ts
    <3>1. \A stamp \in BOOLEAN :
            /\ Tame(rows[t], Evict(rows[t], "WORKER_FAILED", "WORKER_FAILED", stamp))
            /\ Evict(rows[t], "WORKER_FAILED", "WORKER_FAILED", stamp).state
                 \in {"PENDING", "WORKER_FAILED"}
      BY <1>1, <2>1, <2>2, EvictTame
    <3>2. Fail(rows, ts)[t] = Evict(rows[t], "WORKER_FAILED", "WORKER_FAILED", TRUE)
      BY <2>2 DEF Fail
    <3> QED
      BY <3>1, <3>2 DEF Tame, Good
  <2>3. CASE t \notin ts
    BY <2>1, <2>3, TameReflexive DEF Fail, Good
  <2> QED
    BY <2>2, <2>3
<1>2. CASE ~Gang \/ On(rows, ws) = {}
  <2>1. next = Fail(rows, On(rows, ws))
    BY <1>2 DEF FailOutcomes
  <2>2. /\ TameRows(rows, next)
        /\ \A t \in On(rows, ws) : next[t].state \notin Active
    BY <1>1, <2>1 DEF On
  <2> QED
    BY <2>2 DEF TameRows, Tame, On
<1>3. CASE Gang /\ On(rows, ws) # {}
  <2>1. PICK t \in On(rows, ws) : next = Cascade(Fail(rows, {t}), t)
    BY <1>3 DEF FailOutcomes
  <2> DEFINE first == Fail(rows, {t})
  <2>2. t \in Tasks /\ rows[t].state \in Active
    BY DEF On
  <2>3. TameRows(rows, first) /\ first[t].state \notin Active
    BY <1>1, <2>2
  <2> HIDE DEF first
  <2>4. TameRows(rows, next)
    BY <2>1, <2>2, <2>3, TameRowsGood, CascadeTame, TameRowsTransitive DEF first
  <2>5. \A u \in Tasks : next[u].state \notin Active
    <3> SUFFICES ASSUME NEW u \in Tasks
                 PROVE  next[u].state \notin Active
      OBVIOUS
    <3>1. next = Cascade(first, t)
      BY <2>1 DEF first
    <3>2. CASE u \in Siblings(first, t)
      <4>1. next[u] \in {Terminate(first[u], "COSCHED_FAILED", "COSCHED_FAILED", FALSE),
                         Terminate(first[u], "PENDING", "PREEMPTED", FALSE)}
        BY <1>3, <3>1, <3>2 DEF Cascade
      <4>2. first[u] \in Row
        BY <2>3 DEF TameRows
      <4> QED
        BY <4>1, <4>2 DEF Terminate, Row
    <3>3. CASE u \notin Siblings(first, t)
      <4>1. next[u] = first[u]
        BY <3>1, <3>3 DEF Cascade
      <4>2. first[u].state \notin Active
        BY <2>3, <3>3 DEF Siblings
      <4> QED
        BY <4>1, <4>2
    <3> QED
      BY <3>2, <3>3
  <2> QED
    BY <2>4, <2>5
<1> QED
  BY <1>2, <1>3

\* Forgetting the workers ws disturbs only attempts that are over.
LEMMA UnbindTame ==
  ASSUME NEW rows, GoodRows(rows), NEW ws \in SUBSET Workers,
         \A t \in Tasks : rows[t].state \in Active => Current(rows[t]).worker \notin ws
  PROVE  TameRows(rows, Unbind(rows, ws))
<1> SUFFICES ASSUME NEW t \in Tasks
             PROVE  Tame(rows[t], Unbind(rows, ws)[t]) /\ Unbind(rows, ws)[t] \in Row
  BY DEF TameRows, Unbind
<1> DEFINE r == rows[t]
           Freed(n) == IF r.attempts[n].worker \in ws
                         THEN [r.attempts[n] EXCEPT !.worker = NoWorker] ELSE r.attempts[n]
           a == [n \in 1 .. Len(r.attempts) |-> Freed(n)]
           s == [r EXCEPT !.attempts = a]
<1>1. Good(r) /\ r \in Row /\ r.attempts \in Seq(Attempt)
  BY DEF GoodRows, Good, Row
<1>2. DOMAIN r.attempts = 1 .. Len(r.attempts) /\ Len(r.attempts) \in Nat
  BY <1>1
<1>3. Unbind(rows, ws)[t] = s
  BY <1>2 DEF Unbind
<1>4. \A n \in 1 .. Len(r.attempts) :
        /\ Freed(n) \in Attempt
        /\ Freed(n).state = r.attempts[n].state
        /\ Freed(n).finished = r.attempts[n].finished
        /\ Freed(n).worker \in {r.attempts[n].worker, NoWorker}
        /\ r.attempts[n].worker \notin ws => Freed(n) = r.attempts[n]
  <2> SUFFICES ASSUME NEW n \in 1 .. Len(r.attempts)
               PROVE  /\ Freed(n) \in Attempt
                      /\ Freed(n).state = r.attempts[n].state
                      /\ Freed(n).finished = r.attempts[n].finished
                      /\ Freed(n).worker \in {r.attempts[n].worker, NoWorker}
                      /\ r.attempts[n].worker \notin ws => Freed(n) = r.attempts[n]
    OBVIOUS
  <2>1. r.attempts[n] \in Attempt
    BY <1>1
  <2> QED
    BY <2>1 DEF Attempt
<1> HIDE DEF Freed
<1>5. a \in Seq(Attempt) /\ Len(a) = Len(r.attempts)
  BY <1>2, <1>4
<1>6. s \in Row /\ s.state = r.state /\ s.attempts = a
  BY <1>1, <1>5 DEF Row
<1>7. /\ \A n \in 1 .. Len(r.attempts) :
           /\ s.attempts[n].state = r.attempts[n].state
           /\ s.attempts[n].finished = r.attempts[n].finished
           /\ s.attempts[n].worker \in {r.attempts[n].worker, NoWorker}
      /\ Len(s.attempts) = Len(r.attempts)
  BY <1>4, <1>5, <1>6
<1>8. ASSUME r.state \in Active
      PROVE  /\ Started(s)
             /\ Current(s) = Current(r)
  <2>1. Len(r.attempts) \in 1 .. Len(r.attempts)
    BY <1>1, <1>8 DEF Good, Started
  <2>2. Freed(Len(r.attempts)) = r.attempts[Len(r.attempts)]
    BY <1>4, <1>8, <2>1 DEF Current
  <2> QED
    BY <1>5, <1>6, <2>1, <2>2 DEF Started, Current
<1> HIDE DEF s, r
<1>9. Good(s)
  BY <1>1, <1>6, <1>7, <1>8 DEF Good
<1>10. Keeps(r, s)
  <2>1. Len(r.attempts) <= Len(s.attempts)
    BY <1>2, <1>7
  <2> QED
    BY <1>6, <1>7, <2>1 DEF Keeps
<1> QED
  BY <1>3, <1>6, <1>7, <1>8, <1>9, <1>10 DEF Tame, r

\* Assignment gives a waiting task one more attempt and touches nothing else.
Placement(r, s, w) ==
  /\ w # NoWorker /\ Current(s).worker = w
  /\ Len(s.attempts) = Len(r.attempts) + 1
  /\ \A n \in 1 .. Len(r.attempts) : s.attempts[n] = r.attempts[n]

LEMMA AssignGood ==
  ASSUME NEW rows, GoodRows(rows), NEW to \in [Tasks -> Workers \cup {NoWorker}]
  PROVE  /\ GoodRows(Assign(rows, to))
         /\ \A t \in Tasks :
              /\ Keeps(rows[t], Assign(rows, to)[t])
              /\ \/ Assign(rows, to)[t] = rows[t]
                 \/ Placement(rows[t], Assign(rows, to)[t], to[t])
<1> SUFFICES ASSUME NEW t \in Tasks
             PROVE  /\ Good(Assign(rows, to)[t])
                    /\ Keeps(rows[t], Assign(rows, to)[t])
                    /\ \/ Assign(rows, to)[t] = rows[t]
                       \/ Placement(rows[t], Assign(rows, to)[t], to[t])
  BY DEF GoodRows, Assign, Good
<1> DEFINE r == rows[t]
           s == Assign(rows, to)[t]
<1>1. Good(r) /\ r \in Row /\ r.attempts \in Seq(Attempt)
  BY DEF GoodRows, Good, Row
<1>2. CASE to[t] # NoWorker /\ r.state = "PENDING"
  <2> DEFINE new == [state |-> "ASSIGNED", worker |-> to[t], finished |-> FALSE]
             a == Append(r.attempts, new)
  <2>1. new \in Attempt
    BY DEF Attempt
  <2>2. s = [r EXCEPT !.state = "ASSIGNED", !.attempts = a]
    BY <1>2 DEF Assign
  <2>3. new.state = "ASSIGNED" /\ new.worker = to[t] /\ ~new.finished
    OBVIOUS
  <2> HIDE DEF new
  <2>4. /\ a \in Seq(Attempt) /\ Len(a) = Len(r.attempts) + 1 /\ a[Len(a)] = new
        /\ \A n \in 1 .. Len(r.attempts) : a[n] = r.attempts[n]
    BY <1>1, <2>1
  <2> HIDE DEF a
  <2>5. s \in Row /\ s.state = "ASSIGNED" /\ s.attempts = a
    BY <1>1, <2>2, <2>4 DEF Row
  <2> HIDE DEF s
  <2>6. Started(s) /\ Current(s) = new
    BY <1>1, <2>4, <2>5 DEF Started, Current
  <2>7. \A n \in 1 .. Len(s.attempts) :
          n = Len(s.attempts) \/ s.attempts[n].state \in Terminal
    BY <1>1, <1>2, <2>4, <2>5 DEF Good
  <2>8. Good(s)
    BY <2>3, <2>5, <2>6, <2>7 DEF Good
  <2>9. Keeps(r, s)
    BY <1>1, <1>2, <2>4, <2>5 DEF Keeps
  <2>10. Placement(r, s, to[t])
    BY <1>2, <2>3, <2>4, <2>5, <2>6 DEF Placement
  <2> QED
    BY <2>8, <2>9, <2>10 DEF s
<1>3. CASE ~(to[t] # NoWorker /\ r.state = "PENDING")
  <2>1. s = r
    BY <1>3 DEF Assign
  <2> QED
    BY <1>1, <2>1 DEF Keeps
<1> QED
  BY <1>2, <1>3

-----------------------------------------------------------------------------
(* The inductive invariant                                                 *)

\* No active task is on a worker that is gone, or about to be forgotten.
Placed == \A t \in Tasks :
  tasks[t].state \in Active => Current(tasks[t]).worker \in known \ removed

\* The decisions still fit when they are committed.
Ahead == phase = "rpc" =>
  /\ \A t \in Tasks : dec.assign[t] # NoWorker => dec.assign[t] \in known
  /\ \A t \in dec.expire : tasks[t].state \notin Active

\* Workers are forgotten at the end of the tick that failed them; who is known
\* has a row, so that a restart of the controller finds it.
Gone ==
  /\ phase \notin {"siblings", "forget"} => removed = {}
  /\ known \subseteq registered

\* The replies of a batch are read against the snapshot it was opened with.
Snapped == phase = "apply" => GoodRows(snap) /\ TameRows(snap, tasks)

\* Requests and replies are about attempts that there are.
Numbered == \A d \in plan \cup replies : d.attempt # 0

IInv == TypeOK /\ GoodRows(tasks) /\ Placed /\ Ahead /\ Gone /\ Snapped /\ Numbered

\* What a step does to the rows: only the schedule adds attempts.
KeepsRows == \A t \in Tasks :
  /\ Keeps(tasks[t], tasks'[t])
  /\ CommitSchedule \/ Len(tasks'[t].attempts) = Len(tasks[t].attempts)

LEMMA InitInv == Init => IInv
<1> SUFFICES ASSUME Init PROVE IInv
  OBVIOUS
<1> USE KernelAssumption, ControllerAssumption
<1>1. NewRow \in Row /\ NewRow.attempts = <<>> /\ NewRow.state = "PENDING"
  BY DEF NewRow, Row
<1>2. GoodRows(NewRows)
  BY <1>1 DEF GoodRows, Good, NewRows
<1>3. NoDecision \in Decision
  BY DEF NoDecision, Decision, NoOne
<1>4. TypeOK
  BY <1>2, <1>3 DEF Init, TypeOK, GoodRows, JobStates
<1>5. Placed
  BY <1>1 DEF Init, Placed, NewRows
<1> QED
  BY <1>2, <1>4, <1>5 DEF Init, IInv, Ahead, Gone, Snapped, Numbered

LEMMA RecomputeType ==
  ASSUME NEW rows, NEW j \in JobStates
  PROVE  Recompute(rows, j) \in JobStates
<1>1. JobEnd(rows) \in JobEnds
  BY DEF JobEnd, JobEnds
<1> QED
  BY <1>1 DEF Recompute, JobStates

LEMMA KeepsReflexive ==
  ASSUME GoodRows(tasks), tasks' = tasks
  PROVE  KeepsRows
BY DEF GoodRows, Good, Row, KeepsRows, Keeps

\* Steps that leave the rows alone.
LEMMA QuietInv ==
  ASSUME IInv, UNCHANGED <<db, snap>>, TypeOK', Ahead', Gone', Numbered',
         known \subseteq known', removed' \subseteq removed,
         phase' = "apply" => phase = "apply"
  PROVE  IInv' /\ KeepsRows
<1>1. tasks' = tasks /\ snap' = snap
  BY DEF db
<1>2. GoodRows(tasks)'
  BY <1>1 DEF IInv
<1>3. Placed'
  BY <1>1 DEF IInv, Placed
<1>4. Snapped'
  BY <1>1 DEF IInv, Snapped
<1>5. KeepsRows
  BY <1>1, KeepsReflexive DEF IInv
<1> QED
  BY <1>2, <1>3, <1>4, <1>5 DEF IInv

LEMMA TickStartInv ==
  ASSUME IInv, NEW reconcile \in BOOLEAN, TickStart(reconcile)
  PROVE  IInv' /\ KeepsRows
<1> USE KernelAssumption, ControllerAssumption DEF IInv
<1>1. Decide(reconcile) => /\ dec' \in Decision /\ faults' \in Nat
                           /\ \A t \in Tasks : dec'.assign[t] # NoWorker => dec'.assign[t] \in known
                           /\ \A t \in dec'.expire : tasks[t].state \notin Active
  <2>1. \A to \in Assignments :
          /\ to \in [Tasks -> Workers \cup {NoWorker}]
          /\ \A t \in Tasks : to[t] # NoWorker => to[t] \in known
    BY DEF Assignments, Free
  <2>2. /\ Pending \subseteq Tasks
        /\ \A t \in Pending : tasks[t].state = "PENDING"
    BY DEF Pending
  <2>3. NoOne \in [Tasks -> Workers \cup {NoWorker}] /\ \A t \in Tasks : NoOne[t] = NoWorker
    BY DEF NoOne
  <2> QED
    BY <2>1, <2>2, <2>3 DEF Decide, NoDecision, Decision, Fault, TypeOK
<1>2. plan' \subseteq Desired /\ \A d \in plan' : d.attempt # 0
  <2> SUFFICES ASSUME NEW d \in plan'
               PROVE  d \in Desired /\ d.attempt # 0
    OBVIOUS
  <2>1. PICK t \in LiveRows :
          /\ d = [task |-> t, attempt |-> Len(tasks[t].attempts),
                  worker |-> Current(tasks[t]).worker, intent |-> Intent(tasks[t])]
          /\ Current(tasks[t]).worker \in polled'
    BY DEF TickStart, PlanFor
  <2>2. t \in Tasks /\ Started(tasks[t]) /\ tasks[t].attempts \in Seq(Attempt)
    BY DEF LiveRows, TypeOK, Row
  <2>3. Len(tasks[t].attempts) \in Nat \ {0}
    BY <2>2 DEF Started
  <2>4. polled' \subseteq Workers
    BY DEF TickStart, TypeOK
  <2>5. Intent(tasks[t]) \in {"start", "poll", "stop"}
    BY DEF Intent
  <2> QED
    BY <2>1, <2>2, <2>3, <2>4, <2>5 DEF Desired
<1>3. TypeOK'
  BY <1>1, <1>2 DEF TickStart, TypeOK, db, health, hosts
<1>4. Ahead'
  BY <1>1 DEF TickStart, Ahead, db, health
<1>5. Gone'
  BY DEF TickStart, Gone, health
<1>6. Numbered'
  BY <1>2 DEF TickStart, Numbered
<1> QED
  BY <1>3, <1>4, <1>5, <1>6, QuietInv DEF TickStart, db, health

-----------------------------------------------------------------------------
(* Requests and daemons                                                    *)

LEMMA HandledType ==
  ASSUME TypeOK, NEW w \in Workers, NEW desired \in SUBSET Desired
  PROVE  Handled(w, desired) \subseteq Proc
<1>1. Launched(w, desired) \subseteq Proc
  <2> SUFFICES ASSUME NEW p \in Launched(w, desired)
               PROVE  p \in Proc
    OBVIOUS
  <2>1. PICK d \in desired :
          p = [task |-> d.task, attempt |-> d.attempt, host |-> w, status |-> "BUILDING",
               stop |-> FALSE]
    BY DEF Launched
  <2>2. d.task \in Tasks /\ d.attempt \in Nat
    BY DEF Desired
  <2> QED
    BY <2>1, <2>2 DEF Proc
<1>2. Stopped(w, desired) \subseteq Proc
  BY DEF Stopped, TypeOK
<1>3. \A p \in Stopped(w, desired) : [p EXCEPT !.stop = TRUE] \in Proc
  BY <1>2 DEF Proc
<1> QED
  BY <1>1, <1>2, <1>3 DEF Handled, TypeOK

LEMMA RpcInv ==
  ASSUME IInv, NEW w \in Workers, RpcReplies(w) \/ RpcFails(w)
  PROVE  IInv' /\ KeepsRows
<1> USE DEF IInv
<1>1. Asked(w) \subseteq plan /\ plan \subseteq Desired
  BY DEF Asked, TypeOK
<1>2. CASE RpcReplies(w)
  <2>1. procs' \subseteq Proc
    BY <1>1, <1>2, HandledType DEF RpcReplies
  <2>2. \A d \in Asked(w) : Observed(w, d) \in Executing \cup ProcEnds \cup {"MISSING", "LOST"}
    <3> SUFFICES ASSUME NEW d \in Asked(w)
                 PROVE  Observed(w, d) \in Executing \cup ProcEnds \cup {"MISSING", "LOST"}
      OBVIOUS
    <3> DEFINE held == {p \in procs' : p.host = w /\ Same(p, d)}
    <3>1. CASE held = {}
      BY <3>1 DEF Observed
    <3>2. CASE held # {}
      <4>1. (CHOOSE p \in held : TRUE) \in held
        BY <3>2
      <4>2. Observed(w, d) = (CHOOSE p \in held : TRUE).status
        BY <3>2 DEF Observed
      <4> HIDE DEF held
      <4>3. held \subseteq Proc
        BY <2>1 DEF held
      <4> QED
        BY <4>1, <4>2, <4>3 DEF Proc
    <3> QED
      BY <3>1, <3>2
  <2>3. replies' \subseteq Reply /\ \A r \in replies' : r.attempt # 0
    BY <1>1, <1>2, <2>2 DEF RpcReplies, TypeOK, Reply, Desired, Numbered
  <2>4. unreached' \subseteq Workers /\ faults' \in Nat
    BY <1>2 DEF RpcReplies, TypeOK, Fault
  <2>5. TypeOK'
    BY <1>2, <2>1, <2>3, <2>4 DEF RpcReplies, TypeOK, db, health
  <2>6. Ahead' /\ Gone' /\ Numbered'
    BY <1>2, <2>3 DEF RpcReplies, Ahead, Gone, Numbered, db, health
  <2> QED
    BY <1>2, <2>5, <2>6, QuietInv DEF RpcReplies, db, health
<1>3. CASE RpcFails(w)
  <2>1. replies' \subseteq Reply /\ \A r \in replies' : r.attempt # 0
    BY <1>1, <1>3 DEF RpcFails, TypeOK, Reply, Desired, Numbered
  <2>2. late' \subseteq Late /\ faults' \in Nat
    BY <1>1, <1>3 DEF RpcFails, TypeOK, Late, Fault
  <2>3. TypeOK'
    BY <1>3, <2>1, <2>2 DEF RpcFails, TypeOK, db, health
  <2>4. Ahead' /\ Gone' /\ Numbered'
    BY <1>3, <2>1 DEF RpcFails, Ahead, Gone, Numbered, db, health
  <2> QED
    BY <1>3, <2>3, <2>4, QuietInv DEF RpcFails, db, health
<1> QED
  BY <1>2, <1>3

\* What the daemons do by themselves is nothing to the database.
LEMMA HostInv ==
  ASSUME IInv, UNCHANGED <<db, health, phase, tick, failing, removed>>,
         procs' \subseteq Proc, late' \subseteq Late, joining' \subseteq Workers, faults' \in Nat
  PROVE  IInv' /\ KeepsRows
<1> USE DEF IInv
<1>1. TypeOK'
  BY DEF TypeOK, db, health, tick
<1>2. Ahead' /\ Gone' /\ Numbered'
  BY DEF Ahead, Gone, Numbered, db, health, tick
<1> QED
  BY <1>1, <1>2, QuietInv DEF db, health, tick

LEMMA DaemonInv ==
  ASSUME IInv,
         \/ \E r \in late : LateArrives(r)
         \/ \E p \in procs : Runs(p) \/ Succeeds(p) \/ Dies(p) \/ Breaks(p)
         \/ \E w \in Workers : RestartDaemon(w) \/ ResetDaemon(w)
  PROVE  IInv' /\ KeepsRows
<1> USE DEF IInv
<1>1. CASE \E r \in late : LateArrives(r)
  <2> PICK r \in late : LateArrives(r)
    BY <1>1
  <2>1. r.worker \in Workers /\ r.desired \in SUBSET Desired
    BY DEF TypeOK, Late
  <2>2. procs' \subseteq Proc
    BY <2>1, HandledType DEF LateArrives
  <2> QED
    BY <2>2, HostInv DEF LateArrives, TypeOK
<1>2. CASE \E p \in procs : Runs(p) \/ Succeeds(p) \/ Dies(p) \/ Breaks(p)
  <2> PICK p \in procs : Runs(p) \/ Succeeds(p) \/ Dies(p) \/ Breaks(p)
    BY <1>2
  <2>1. PICK status \in Executing \cup ProcEnds : Becomes(p, status) /\ faults' \in Nat
    BY DEF Runs, Succeeds, Dies, Breaks, Fault, TypeOK, ProcEnds
  <2>2. [p EXCEPT !.status = status] \in Proc
    BY DEF TypeOK, Proc
  <2>3. procs' \subseteq Proc
    BY <2>1, <2>2 DEF Becomes, TypeOK
  <2> QED
    BY <2>1, <2>3, HostInv DEF Becomes, TypeOK
<1>3. CASE \E w \in Workers : RestartDaemon(w) \/ ResetDaemon(w)
  <2> PICK w \in Workers : RestartDaemon(w) \/ ResetDaemon(w)
    BY <1>3
  <2>1. PICK adopted \in SUBSET procs : Restarts(w, adopted) /\ faults' \in Nat
    BY DEF RestartDaemon, ResetDaemon, Fault, TypeOK
  <2>2. \A p \in procs : [p EXCEPT !.stop = FALSE] \in Proc
    BY DEF TypeOK, Proc
  <2>3. procs' \subseteq Proc
    BY <2>1, <2>2 DEF Restarts, TypeOK
  <2> QED
    BY <2>1, <2>3, HostInv DEF Restarts, TypeOK
<1> QED
  BY <1>1, <1>2, <1>3

LEMMA RegistersInv ==
  ASSUME IInv, NEW w \in Workers, Registers(w)
  PROVE  IInv' /\ KeepsRows
<1> USE DEF IInv
<1>1. TypeOK'
  BY DEF Registers, TypeOK, db, tick, Cleared
<1>2. Ahead' /\ Gone' /\ Numbered'
  BY DEF Registers, Ahead, Gone, Numbered, db, tick
<1> QED
  BY <1>1, <1>2, QuietInv DEF Registers, db, tick

-----------------------------------------------------------------------------
(* The transaction                                                         *)

LEMMA ScheduledRows ==
  ASSUME IInv, CommitSchedule
  PROVE  /\ GoodRows(Scheduled(tasks))
         /\ \/ TameRows(tasks, Scheduled(tasks))
            \/ /\ Scheduled(tasks) = Assign(tasks, dec.assign)
               /\ dec.assign \in [Tasks -> Workers \cup {NoWorker}]
<1> USE DEF IInv
<1>1. dec \in Decision
  BY DEF TypeOK
<1>2. CASE dec.expire # {}
  <2>1. Scheduled(tasks) = Expire(tasks, dec.expire)
    BY <1>2 DEF Scheduled
  <2>2. \A t \in dec.expire \cap Tasks : tasks[t].state \notin Active
    BY DEF Ahead, CommitSchedule
  <2> QED
    BY <2>1, <2>2, ExpireTame, TameRowsGood
<1>3. CASE dec.expire = {} /\ dec.preempt # {}
  <2>1. Scheduled(tasks) = Preempt(tasks, CHOOSE t \in dec.preempt : TRUE)
    BY <1>3 DEF Scheduled
  <2>2. (CHOOSE t \in dec.preempt : TRUE) \in Tasks
    BY <1>1, <1>3 DEF Decision
  <2> QED
    BY <2>1, <2>2, PreemptTame, TameRowsGood
<1>4. CASE dec.expire = {} /\ dec.preempt = {}
  BY <1>1, <1>4, AssignGood DEF Scheduled, Decision
<1> QED
  BY <1>2, <1>3, <1>4

LEMMA CommitScheduleInv ==
  ASSUME IInv, CommitSchedule
  PROVE  IInv' /\ KeepsRows
<1> USE DEF IInv
<1> DEFINE rows == Scheduled(tasks)
<1>1. removed = {}
  BY DEF CommitSchedule, Gone
<1>2. /\ GoodRows(rows)
      /\ \A t \in Tasks :
           /\ Keeps(tasks[t], rows[t])
           /\ rows[t].state \in Active => Current(rows[t]).worker \in known
  <2>1. CASE TameRows(tasks, rows)
    <3> HIDE DEF rows
    <3> QED
      BY <2>1, TameRowsGood DEF TameRows, Tame, Placed
  <2>2. CASE rows = Assign(tasks, dec.assign)
             /\ dec.assign \in [Tasks -> Workers \cup {NoWorker}]
    <3>1. \A t \in Tasks : dec.assign[t] # NoWorker => dec.assign[t] \in known
      BY DEF Ahead, CommitSchedule
    <3> QED
      BY <2>2, <3>1, AssignGood DEF Placed, Placement
  <2> QED
    BY <2>1, <2>2, ScheduledRows
<1>3. tasks' = Settle(rows, job) /\ job' = Recompute(rows, job) /\ snap' = tasks'
  BY DEF CommitSchedule
<1> HIDE DEF rows
<1>4. TameRows(rows, tasks')
  BY <1>2, <1>3, SettleTame
<1>5. GoodRows(tasks')
  BY <1>4, TameRowsGood
<1>6. KeepsRows
  <2> SUFFICES ASSUME NEW t \in Tasks
               PROVE  Keeps(tasks[t], tasks'[t])
    BY DEF KeepsRows
  <2>1. Keeps(tasks[t], rows[t]) /\ Keeps(rows[t], tasks'[t])
    BY <1>2, <1>4 DEF TameRows, Tame
  <2>2. tasks[t] \in Row /\ rows[t] \in Row /\ tasks'[t] \in Row
    BY <1>2, <1>5 DEF GoodRows
  <2> QED
    BY <2>1, <2>2, KeepsTransitive
<1>7. Placed'
  BY <1>1, <1>2, <1>4 DEF Placed, TameRows, Tame, CommitSchedule, health
<1>8. Snapped'
  BY <1>3, <1>5, TameRowsReflexive DEF Snapped
<1>9. TypeOK'
  BY <1>3, <1>5, RecomputeType DEF TypeOK, CommitSchedule, health, hosts, GoodRows
<1>10. Ahead' /\ Gone' /\ Numbered'
  BY <1>1 DEF Ahead, Gone, Numbered, CommitSchedule, health
<1> QED
  BY <1>5, <1>6, <1>7, <1>8, <1>9, <1>10

LEMMA ApplyObservationInv ==
  ASSUME IInv, NEW r \in replies, ApplyObservation(r)
  PROVE  IInv' /\ KeepsRows
<1> USE DEF IInv
<1> DEFINE u == [task |-> r.task, attempt |-> r.attempt, state |-> Meaning(r)]
<1>1. r \in Reply /\ r.attempt # 0 /\ phase = "apply" /\ phase' = phase
  BY DEF TypeOK, Numbered, ApplyObservation, InTransaction
<1>2. u.task \in Tasks /\ u.attempt \in Nat \ {0} /\ u.state \in Words
  BY <1>1 DEF Reply, Meaning, Words, ProcEnds
<1>3. GoodRows(snap) /\ TameRows(snap, tasks)
  BY <1>1 DEF Snapped
<1>4. tasks' \in {tasks, ApplyUpdate(tasks, snap, u)} /\ UNCHANGED <<snap, job, known, removed>>
  BY DEF ApplyObservation, health
<1> HIDE DEF u
<1>5. TameRows(tasks, tasks')
  BY <1>2, <1>3, <1>4, ApplyUpdateTame, TameRowsReflexive
<1>6. GoodRows(tasks')
  BY <1>5, TameRowsGood
<1>7. KeepsRows
  BY <1>5 DEF KeepsRows, TameRows, Tame
<1>8. Placed'
  BY <1>4, <1>5 DEF Placed, TameRows, Tame
<1>9. Snapped'
  BY <1>3, <1>4, <1>5, TameRowsTransitive DEF Snapped
<1>10. badBuilds' \subseteq Workers
  <2>1. CASE badBuilds' = badBuilds
    BY <2>1 DEF TypeOK
  <2>2. CASE badBuilds' # badBuilds
    <3>1. /\ BuildFailure(tasks[r.task], snap[r.task], u)
          /\ badBuilds' = badBuilds \cup {Current(tasks[r.task]).worker}
      BY <2>2 DEF ApplyObservation, u
    <3>2. tasks[r.task].state \in Active /\ r.task \in Tasks
      BY <1>1, <3>1 DEF BuildFailure, Reply
    <3> QED
      BY <3>1, <3>2 DEF Placed, TypeOK
  <2> QED
    BY <2>1, <2>2
<1>11. TypeOK'
  BY <1>6, <1>10 DEF TypeOK, ApplyObservation, health, hosts, GoodRows
<1>12. Ahead' /\ Gone' /\ Numbered'
  BY <1>1, <1>4 DEF Ahead, Gone, Numbered, ApplyObservation, health
<1> QED
  BY <1>6, <1>7, <1>8, <1>9, <1>11, <1>12

LEMMA CommitReconcileInv ==
  ASSUME IInv, CommitReconcile
  PROVE  IInv' /\ KeepsRows
<1> USE DEF IInv
<1> DEFINE settled == Settle(tasks, job)
           rows == Timeout(settled, dec.timeout)
           end == Recompute(tasks, job)
<1>1. dec.timeout \in SUBSET Tasks /\ phase = "apply"
  BY DEF TypeOK, Decision, CommitReconcile, InTransaction
<1>2. tasks' = Settle(rows, end) /\ job' = Recompute(rows, end)
  BY DEF CommitReconcile
<1>3. end \in JobStates
  BY RecomputeType DEF TypeOK
<1>4. TameRows(tasks, settled) /\ GoodRows(settled)
  BY SettleTame, TameRowsGood
<1> HIDE DEF settled, end
<1>5. TameRows(settled, rows) /\ GoodRows(rows)
  BY <1>1, <1>4, TimeoutTame, TameRowsGood
<1> HIDE DEF rows
<1>6. TameRows(rows, tasks') /\ GoodRows(tasks')
  BY <1>2, <1>5, SettleTame, TameRowsGood
<1>7. TameRows(tasks, tasks')
  BY <1>4, <1>5, <1>6, TameRowsTransitive
<1>8. KeepsRows
  BY <1>7 DEF KeepsRows, TameRows, Tame
<1>9. Placed'
  BY <1>7 DEF Placed, TameRows, Tame, CommitReconcile, health
<1>10. NewRows \in [Tasks -> Row] /\ NoDecision \in Decision
  BY DEF NewRows, NewRow, Row, NoDecision, Decision, NoOne
<1>11. TypeOK'
  BY <1>2, <1>3, <1>6, <1>10, RecomputeType
  DEF TypeOK, CommitReconcile, health, hosts, GoodRows
<1>12. Ahead' /\ Gone' /\ Snapped' /\ Numbered'
  BY <1>1 DEF Ahead, Gone, Snapped, Numbered, CommitReconcile, health
<1> QED
  BY <1>6, <1>8, <1>9, <1>11, <1>12

-----------------------------------------------------------------------------
(* Health                                                                  *)

LEMMA FoldHealthInv ==
  ASSUME IInv, FoldHealth
  PROVE  IInv' /\ KeepsRows
<1> USE DEF IInv
<1>1. misses' \in [Workers -> Nat] /\ builds' \in [Workers -> Nat]
  BY DEF FoldHealth, TypeOK
<1>2. failing' \subseteq known /\ phase' \in {"idle", "fail"}
  BY DEF FoldHealth
<1>3. TypeOK'
  BY <1>1, <1>2 DEF FoldHealth, TypeOK, db, hosts
<1>4. Ahead' /\ Gone' /\ Numbered'
  BY <1>2 DEF FoldHealth, Ahead, Gone, Numbered
<1> QED
  BY <1>2, <1>3, <1>4, QuietInv DEF FoldHealth, db

LEMMA FailWorkersInv ==
  ASSUME IInv, FailWorkers
  PROVE  IInv' /\ KeepsRows
<1> USE DEF IInv
<1>1. PICK rows \in FailOutcomes(tasks, failing) :
        tasks' = Unbind(Settle(rows, job), failing) /\ job' = Recompute(rows, job)
  BY DEF FailWorkers
<1>2. /\ TameRows(tasks, rows) /\ GoodRows(rows)
      /\ \A t \in Tasks : rows[t].state \in Active => Current(rows[t]).worker \notin failing
  BY FailTame, TameRowsGood
<1> DEFINE settled == Settle(rows, job)
<1>3. TameRows(rows, settled) /\ GoodRows(settled)
  BY <1>2, SettleTame, TameRowsGood
<1>4. tasks' = Unbind(settled, failing)
  BY <1>1
<1> HIDE DEF settled
<1>5. \A t \in Tasks :
        settled[t].state \in Active => Current(settled[t]).worker \notin failing
  BY <1>2, <1>3 DEF TameRows, Tame
<1>6. TameRows(settled, tasks') /\ GoodRows(tasks')
  BY <1>3, <1>4, <1>5, UnbindTame, TameRowsGood DEF TypeOK
<1>7. TameRows(tasks, tasks')
  BY <1>2, <1>3, <1>6, TameRowsTransitive
<1>8. KeepsRows
  BY <1>7 DEF KeepsRows, TameRows, Tame
<1>9. /\ known' = known \ failing /\ removed' = removed \cup failing
      /\ registered' = registered \ failing
      /\ phase \in {"fail", "siblings"} /\ phase' \in {"siblings", "forget"}
      /\ failing' \subseteq Workers
  BY DEF FailWorkers, Drop, TypeOK
<1>10. Placed'
  BY <1>5, <1>6, <1>7, <1>9 DEF Placed, TameRows, Tame
<1>11. TypeOK'
  BY <1>1, <1>6, <1>9, RecomputeType
  DEF TypeOK, FailWorkers, Drop, Cleared, tick, hosts, GoodRows
<1>12. Ahead' /\ Gone' /\ Snapped' /\ Numbered'
  BY <1>9 DEF Ahead, Gone, Snapped, Numbered, FailWorkers, tick
<1> QED
  BY <1>6, <1>8, <1>10, <1>11, <1>12

LEMMA ForgetInv ==
  ASSUME IInv, Forget
  PROVE  IInv' /\ KeepsRows
<1> USE DEF IInv
<1>1. UNCHANGED <<tasks, job, snap, registered>> /\ known' = known \ removed /\ removed' = {}
  BY DEF Forget, Drop, db, tick
<1>2. GoodRows(tasks') /\ KeepsRows
  BY <1>1, KeepsReflexive
<1>3. Placed'
  BY <1>1 DEF Placed
<1>4. TypeOK'
  BY <1>1 DEF TypeOK, Forget, Drop, Cleared, tick, hosts
<1>5. Ahead' /\ Gone' /\ Snapped' /\ Numbered'
  BY <1>1 DEF Ahead, Gone, Snapped, Numbered, Forget, tick
<1> QED
  BY <1>2, <1>3, <1>4, <1>5

LEMMA ControllerRestartsInv ==
  ASSUME IInv, ControllerRestarts
  PROVE  IInv' /\ KeepsRows
<1> USE DEF IInv
<1>1. /\ tasks' = tasks /\ job' = job /\ known' = registered /\ registered' = registered
      /\ removed' = {} /\ phase' = "idle"
  BY DEF ControllerRestarts, db
<1>2. GoodRows(tasks') /\ KeepsRows
  BY <1>1, KeepsReflexive
<1>3. Placed'
  BY <1>1 DEF Placed, Gone
<1>4. late' \subseteq Late
  <2>1. PICK out \in SUBSET waiting :
          late' = late \cup {[worker |-> w, desired |-> Asked(w)] : w \in out}
    BY DEF ControllerRestarts
  <2>2. \A w : Asked(w) \in SUBSET Desired
    BY DEF Asked, TypeOK
  <2> QED
    BY <2>1, <2>2 DEF TypeOK, Late
<1>5. NewRows \in [Tasks -> Row] /\ NoDecision \in Decision
  BY DEF NewRows, NewRow, Row, NoDecision, Decision, NoOne
<1>6. TypeOK'
  BY <1>1, <1>4, <1>5 DEF TypeOK, ControllerRestarts, Cleared, Fault
<1>7. Ahead' /\ Gone' /\ Snapped' /\ Numbered'
  BY <1>1 DEF Ahead, Gone, Snapped, Numbered, ControllerRestarts
<1> QED
  BY <1>2, <1>3, <1>6, <1>7

LEMMA CancelJobInv ==
  ASSUME IInv, CancelJob
  PROVE  IInv' /\ KeepsRows
<1> USE DEF IInv
<1>1. tasks' = KillNonTerminal(tasks) /\ job' = "KILLED" /\ UNCHANGED <<dec, removed, phase>>
      /\ phase # "apply"
  BY DEF CancelJob, tick, InTransaction
<1>2. TameRows(tasks, tasks') /\ GoodRows(tasks')
      /\ \A t \in Tasks : tasks'[t].state \notin Active
  BY <1>1, KillTame, TameRowsGood
<1>3. KeepsRows
  BY <1>2 DEF KeepsRows, TameRows, Tame
<1>4. Placed'
  BY <1>2 DEF Placed
<1>5. TypeOK'
  BY <1>1, <1>2 DEF TypeOK, CancelJob, health, tick, hosts, Fault, GoodRows, JobStates, JobEnds
<1>6. dec.expire \subseteq Tasks
  BY DEF TypeOK, Decision
<1>7. Ahead' /\ Gone' /\ Snapped' /\ Numbered'
  BY <1>1, <1>2, <1>6 DEF Ahead, Gone, Snapped, Numbered, CancelJob, health, tick
<1> QED
  BY <1>2, <1>3, <1>4, <1>5, <1>7

-----------------------------------------------------------------------------
(* Theorems                                                                *)

LEMMA NextInv == IInv /\ [Next]_vars => IInv' /\ KeepsRows
<1> SUFFICES ASSUME IInv, [Next]_vars
             PROVE  IInv' /\ KeepsRows
  OBVIOUS
<1>1. CASE TickStep
  BY <1>1, RpcInv, CommitScheduleInv, CommitReconcileInv, ApplyObservationInv, FoldHealthInv,
     FailWorkersInv, ForgetInv DEF TickStep
<1>2. CASE \E reconcile \in BOOLEAN : TickStart(reconcile)
  BY <1>2, TickStartInv
<1>3. CASE \E w \in Workers : RpcFails(w) \/ Registers(w)
  BY <1>3, RpcInv, RegistersInv
<1>4. CASE \/ \E r \in late : LateArrives(r)
           \/ \E p \in procs : Runs(p) \/ Succeeds(p) \/ Dies(p) \/ Breaks(p)
           \/ \E w \in Workers : RestartDaemon(w) \/ ResetDaemon(w)
  BY <1>4, DaemonInv
<1>5. CASE ControllerRestarts \/ CancelJob
  BY <1>5, ControllerRestartsInv, CancelJobInv
<1>6. CASE UNCHANGED vars
  <2>1. UNCHANGED <<db, health, phase, tick, failing, removed, hosts, faults>>
    BY <1>6 DEF vars
  <2> QED
    BY <2>1, HostInv DEF IInv, TypeOK, hosts
<1> QED
  BY <1>1, <1>2, <1>3, <1>4, <1>5, <1>6 DEF Next

LEMMA IrisInv == Spec => []IInv
<1>1. IInv /\ [Next]_vars => IInv'
  BY NextInv
<1> QED
  BY InitInv, <1>1, PTL DEF Spec

\* The rows, the tick and the daemons' state are well typed, whatever is lost,
\* delayed or restarted.
THEOREM IrisTypeCorrect == Spec => []TypeOK
<1>1. IInv => TypeOK
  BY DEF IInv
<1> QED
  BY IrisInv, <1>1, PTL

\* A task and its attempts always tell the same story: reports, decisions and
\* worker failures write the rows in any order, each from its own snapshot.
THEOREM IrisAgree == Spec => []Agree
<1>1. IInv => Agree
  <2> SUFFICES ASSUME IInv, NEW t \in Tasks
               PROVE  /\ tasks[t].state \in Active =>
                           /\ Started(tasks[t])
                           /\ Current(tasks[t]).state = tasks[t].state
                           /\ ~Current(tasks[t]).finished
                           /\ Current(tasks[t]).worker \in known
                      /\ \A n \in DOMAIN tasks[t].attempts :
                           \/ tasks[t].state \in Active /\ n = Len(tasks[t].attempts)
                           \/ tasks[t].attempts[n].state \in Terminal
    BY DEF Agree
  <2>1. Good(tasks[t]) /\ tasks[t].attempts \in Seq(Attempt)
    BY DEF IInv, GoodRows, Row
  <2>2. tasks[t].state \in Active => Current(tasks[t]).worker \in known
    BY DEF IInv, Placed
  <2> QED
    BY <2>1, <2>2 DEF Good
<1> QED
  BY IrisInv, <1>1, PTL

\* Nothing that has ended is revived: neither a task, nor an attempt, nor the
\* capacity that an attempt has given back.
THEOREM IrisEndsAreFinal == Spec => EndsAreFinal
<1> DEFINE Final ==
      \A t \in Tasks :
        /\ tasks[t].state \in Terminal => tasks'[t].state = tasks[t].state
        /\ \A n \in DOMAIN tasks[t].attempts :
             /\ n \in DOMAIN tasks'[t].attempts
             /\ tasks[t].attempts[n].state \in Terminal =>
                  tasks'[t].attempts[n].state \in Terminal
             /\ tasks[t].attempts[n].finished => tasks'[t].attempts[n].finished
<1>1. IInv /\ [Next]_vars => [Final]_vars
  <2> SUFFICES ASSUME IInv, [Next]_vars, NEW t \in Tasks
               PROVE  /\ tasks[t].state \in Terminal => tasks'[t].state = tasks[t].state
                      /\ \A n \in DOMAIN tasks[t].attempts :
                           /\ n \in DOMAIN tasks'[t].attempts
                           /\ tasks[t].attempts[n].state \in Terminal =>
                                tasks'[t].attempts[n].state \in Terminal
                           /\ tasks[t].attempts[n].finished => tasks'[t].attempts[n].finished
    OBVIOUS
  <2>1. IInv' /\ Keeps(tasks[t], tasks'[t])
    BY NextInv DEF KeepsRows
  <2>2. tasks[t].attempts \in Seq(Attempt) /\ tasks'[t].attempts \in Seq(Attempt)
    BY <2>1 DEF IInv, GoodRows, Row
  <2> QED
    BY <2>1, <2>2 DEF Keeps
<1> QED
  BY IrisInv, <1>1, PTL DEF Spec, EndsAreFinal

-----------------------------------------------------------------------------
(* Capacity                                                                *)

\* Attempt n of t in rows holds worker w.
Occupies(rows, t, n, w) ==
  /\ n \in 1 .. Len(rows[t].attempts)
  /\ ~rows[t].attempts[n].finished
  /\ rows[t].attempts[n].worker = w
  /\ w # NoWorker

Exclusive(rows) ==
  \A t, u \in Tasks : \A n, m, w :
    Occupies(rows, t, n, w) /\ Occupies(rows, u, m, w) => t = u /\ n = m

\* The workers that assignments to commit go to are free, and no two are the same.
Reserved == phase = "rpc" =>
  \A t \in Tasks : dec.assign[t] # NoWorker =>
    \A u \in Tasks : /\ \A n : ~Occupies(tasks, u, n, dec.assign[t])
                     /\ u # t => dec.assign[u] # dec.assign[t]

Slots == Exclusive(tasks) /\ Reserved

\* As long as no attempt is added, capacity is only given back.
LEMMA SlotsShrink ==
  ASSUME NEW rows, NEW next, GoodRows(rows), GoodRows(next),
         \A t \in Tasks : /\ Keeps(rows[t], next[t])
                          /\ Len(next[t].attempts) = Len(rows[t].attempts)
  PROVE  \A t \in Tasks : \A n, w : Occupies(next, t, n, w) => Occupies(rows, t, n, w)
BY DEF Occupies, Keeps

LEMMA ExclusiveShrinks ==
  ASSUME NEW rows, NEW next, Exclusive(rows),
         \A t \in Tasks : \A n, w : Occupies(next, t, n, w) => Occupies(rows, t, n, w)
  PROVE  Exclusive(next)
BY DEF Exclusive

LEMMA InitSlots == Init => Slots
BY DEF Init, Slots, Exclusive, Reserved, Occupies, NewRows, NewRow

LEMMA AssignExclusive ==
  ASSUME IInv, Slots, phase = "rpc", dec.assign \in [Tasks -> Workers \cup {NoWorker}]
  PROVE  Exclusive(Assign(tasks, dec.assign))
<1> DEFINE rows == Assign(tasks, dec.assign)
<1>1. \A t \in Tasks : \/ rows[t] = tasks[t]
                        \/ Placement(tasks[t], rows[t], dec.assign[t])
  BY AssignGood DEF IInv
<1>2. GoodRows(rows)
  BY AssignGood DEF IInv
<1> HIDE DEF rows
<1>3. ASSUME NEW t \in Tasks, NEW n, NEW w, Occupies(rows, t, n, w)
      PROVE  \/ Occupies(tasks, t, n, w)
             \/ n = Len(tasks[t].attempts) + 1 /\ w = dec.assign[t] /\ w # NoWorker
  <2>1. tasks[t].attempts \in Seq(Attempt) /\ rows[t].attempts \in Seq(Attempt)
    BY <1>2 DEF IInv, GoodRows, Row
  <2>2. CASE rows[t] = tasks[t]
    BY <1>3, <2>2 DEF Occupies
  <2>3. CASE Placement(tasks[t], rows[t], dec.assign[t])
    <3>1. CASE n \in 1 .. Len(tasks[t].attempts)
      BY <1>3, <2>3, <3>1 DEF Occupies, Placement
    <3>2. CASE n \notin 1 .. Len(tasks[t].attempts)
      <4>1. n = Len(tasks[t].attempts) + 1 /\ n = Len(rows[t].attempts)
        BY <1>3, <2>1, <2>3, <3>2 DEF Occupies, Placement
      <4> QED
        BY <1>3, <2>3, <4>1 DEF Occupies, Placement, Current
    <3> QED
      BY <3>1, <3>2
  <2> QED
    BY <1>1, <2>2, <2>3
<1>4. \A t, u \in Tasks : \A n, m, w :
        Occupies(rows, t, n, w) /\ Occupies(rows, u, m, w) => t = u /\ n = m
  <2> SUFFICES ASSUME NEW t \in Tasks, NEW u \in Tasks, NEW n, NEW m, NEW w,
                      Occupies(rows, t, n, w), Occupies(rows, u, m, w)
               PROVE  t = u /\ n = m
    OBVIOUS
  <2>1. \/ Occupies(tasks, t, n, w)
        \/ n = Len(tasks[t].attempts) + 1 /\ w = dec.assign[t] /\ w # NoWorker
    BY <1>3
  <2>2. \/ Occupies(tasks, u, m, w)
        \/ m = Len(tasks[u].attempts) + 1 /\ w = dec.assign[u] /\ w # NoWorker
    BY <1>3
  <2>3. CASE Occupies(tasks, t, n, w) /\ Occupies(tasks, u, m, w)
    BY <2>3 DEF Slots, Exclusive
  <2>4. \A x, y \in Tasks : dec.assign[x] # NoWorker =>
          /\ \A k : ~Occupies(tasks, y, k, dec.assign[x])
          /\ y # x => dec.assign[y] # dec.assign[x]
    BY DEF Slots, Reserved
  <2>5. CASE ~(Occupies(tasks, t, n, w) /\ Occupies(tasks, u, m, w))
    BY <2>1, <2>2, <2>4, <2>5
  <2> QED
    BY <2>3, <2>5
<1> QED
  BY <1>4 DEF Exclusive, rows

\* Only the start of a tick decides, and only from "rpc" does anything commit.
LEMMA NextDecides ==
  ASSUME [Next]_vars, phase' = "rpc"
  PROVE  \/ \E reconcile \in BOOLEAN : TickStart(reconcile)
         \/ phase = "rpc" /\ dec' = dec
<1>1. CASE TickStep
  BY <1>1 DEF TickStep, RpcReplies, CommitSchedule, CommitReconcile, ApplyObservation, FoldHealth,
     FailWorkers, Forget
<1>2. CASE \E w \in Workers : RpcFails(w) \/ RestartDaemon(w) \/ ResetDaemon(w) \/ Registers(w)
  BY <1>2 DEF RpcFails, RestartDaemon, ResetDaemon, Restarts, Registers, tick
<1>3. CASE \/ \E r \in late : LateArrives(r)
           \/ \E p \in procs : Runs(p) \/ Succeeds(p) \/ Dies(p) \/ Breaks(p)
  BY <1>3 DEF LateArrives, Runs, Succeeds, Dies, Breaks, Becomes, tick
<1>4. CASE ControllerRestarts \/ CancelJob
  BY <1>4 DEF ControllerRestarts, CancelJob, tick
<1>5. CASE UNCHANGED vars
  BY <1>5 DEF vars, tick
<1> QED
  BY <1>1, <1>2, <1>3, <1>4, <1>5 DEF Next

\* The scheduler reads the capacity in the snapshot of its tick.
LEMMA TickStartReserves ==
  ASSUME IInv, NEW reconcile \in BOOLEAN, TickStart(reconcile)
  PROVE  Reserved'
<1>1. tasks' = tasks
  BY DEF TickStart, db
<1>2. dec'.assign \in Assignments \cup {NoOne}
  BY DEF TickStart, Decide, NoDecision
<1>3. CASE dec'.assign = NoOne
  BY <1>3 DEF NoOne, Reserved
<1>4. CASE dec'.assign \in Assignments
  <2>1. \A t \in Tasks : dec'.assign[t] # NoWorker =>
          Free(dec'.assign[t]) /\ \A u \in Tasks : u # t => dec'.assign[u] # dec'.assign[t]
    BY <1>4 DEF Assignments
  <2>2. ASSUME NEW w, Free(w), NEW u \in Tasks, NEW n
        PROVE  ~Occupies(tasks, u, n, w)
    <3>1. DOMAIN tasks[u].attempts = 1 .. Len(tasks[u].attempts)
      BY DEF IInv, GoodRows, Row
    <3> QED
      BY <2>2, <3>1 DEF Free, Holds, Occupies
  <2> QED
    BY <1>1, <2>1, <2>2 DEF Reserved
<1> QED
  BY <1>2, <1>3, <1>4

LEMMA NextSlots == IInv /\ Slots /\ [Next]_vars => Slots'
<1> SUFFICES ASSUME IInv, Slots, [Next]_vars
             PROVE  Slots'
  OBVIOUS
<1>1. IInv' /\ KeepsRows
  BY NextInv
<1>2. GoodRows(tasks) /\ GoodRows(tasks')
  BY <1>1 DEF IInv
<1>3. CASE CommitSchedule
  <2> DEFINE rows == Scheduled(tasks)
  <2>1. GoodRows(rows) /\ phase = "rpc" /\ phase' = "apply" /\ tasks' = Settle(rows, job)
    BY <1>3, ScheduledRows DEF CommitSchedule
  <2>2. Exclusive(rows)
    <3>1. CASE TameRows(tasks, rows)
      <4> HIDE DEF rows
      <4>1. \A t \in Tasks : \A n, w : Occupies(rows, t, n, w) => Occupies(tasks, t, n, w)
        BY <1>2, <2>1, <3>1, SlotsShrink DEF TameRows, Tame
      <4> QED
        BY <4>1, ExclusiveShrinks DEF Slots
    <3>2. CASE rows = Assign(tasks, dec.assign)
               /\ dec.assign \in [Tasks -> Workers \cup {NoWorker}]
      BY <2>1, <3>2, AssignExclusive
    <3> QED
      BY <1>3, <3>1, <3>2, ScheduledRows
  <2> HIDE DEF rows
  <2>3. TameRows(rows, tasks')
    BY <2>1, SettleTame
  <2>4. \A t \in Tasks : \A n, w : Occupies(tasks', t, n, w) => Occupies(rows, t, n, w)
    BY <1>2, <2>1, <2>3, SlotsShrink DEF TameRows, Tame
  <2>5. Exclusive(tasks')
    BY <2>2, <2>4, ExclusiveShrinks
  <2> QED
    BY <2>1, <2>5 DEF Slots, Reserved
<1>4. CASE ~CommitSchedule
  <2>1. \A t \in Tasks : \A n, w : Occupies(tasks', t, n, w) => Occupies(tasks, t, n, w)
    BY <1>1, <1>2, <1>4, SlotsShrink DEF KeepsRows
  <2>2. Exclusive(tasks')
    BY <2>1, ExclusiveShrinks DEF Slots
  <2>3. Reserved'
    <3>1. CASE \E reconcile \in BOOLEAN : TickStart(reconcile)
      BY <3>1, TickStartReserves
    <3>2. CASE phase = "rpc" /\ dec' = dec
      BY <2>1, <3>2 DEF Slots, Reserved
    <3>3. CASE phase' # "rpc"
      BY <3>3 DEF Reserved
    <3> QED
      BY <3>1, <3>2, <3>3, NextDecides
  <2> QED
    BY <2>2, <2>3 DEF Slots
<1> QED
  BY <1>3, <1>4

\* No worker is promised to two attempts, although capacity is read at the start
\* of a tick and assigned at its end.
THEOREM IrisOneSlot == Spec => []OneSlot
<1>1. IInv /\ Slots => OneSlot
  <2> SUFFICES ASSUME IInv, Slots, NEW t \in Tasks, NEW u \in Tasks,
                      NEW n \in DOMAIN tasks[t].attempts, NEW m \in DOMAIN tasks[u].attempts,
                      Holds(t, n), Holds(u, m),
                      tasks[t].attempts[n].worker = tasks[u].attempts[m].worker
               PROVE  t = u /\ n = m
    BY DEF OneSlot
  <2>1. /\ DOMAIN tasks[t].attempts = 1 .. Len(tasks[t].attempts)
        /\ DOMAIN tasks[u].attempts = 1 .. Len(tasks[u].attempts)
    BY DEF IInv, GoodRows, Row
  <2> DEFINE w == tasks[t].attempts[n].worker
  <2>2. Occupies(tasks, t, n, w) /\ Occupies(tasks, u, m, w)
    BY <2>1 DEF Occupies, Holds
  <2> QED
    BY <2>2 DEF Slots, Exclusive
<1> QED
  BY IrisInv, InitSlots, NextSlots, <1>1, PTL DEF Spec
=============================================================================
