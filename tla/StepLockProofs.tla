--------------------------- MODULE StepLockProofs ---------------------------
(***************************************************************************)
(* Proofs about StepLock, for every set of workers, every backend and every *)
(* number of faults, as long as no fault is a pause or a failed refresh.   *)
(*                                                                         *)
(* The argument: a worker between its acquisition and its release owns a   *)
(* fresh lease (HoldersActive).  Nobody else can replace it, because a     *)
(* worker about to acquire has either read a lease that is still stale or  *)
(* a generation that has been superseded (ContendersToken), and because a  *)
(* late heartbeat can only write over its own worker's lease (BeatsToken). *)
(***************************************************************************)
EXTENDS StepLock, TLAPS

Reliable == "pause" \notin Faults /\ "beat" \notin Faults

Before == {"check", "active", "acquire", "write", "recheck", "mark"}

BeatOff(w) == at[w] \in Before => beat[w] = "off"

HolderActive(w) ==
  at[w] \in Holding => HeldBy(w) /\ Active /\ beat[w] \notin {"lost", "dead"}

ContenderToken(w) ==
  Backend # "local" /\ at[w] = "write" /\ known[w]["main"] = "current" => ~Active

BeatToken(w) ==
  Backend # "local" /\ beat[w] = "write" =>
    /\ known[w]["heartbeat"] = "current" => HeldBy(w)
    /\ at[w] \in Holding => known[w]["heartbeat"] = "current"

MarkerToken(w) == at[w] = "mark" => status # "SUCCESS"

\* Nobody takes a SUCCESS back when its write says what it did.
SureToken(w) == "unsure" \notin Faults => at[w] # "failing"

WorkerInv(w) ==
  /\ BeatOff(w)
  /\ HolderActive(w)
  /\ ContenderToken(w)
  /\ BeatToken(w)
  /\ MarkerToken(w)
  /\ SureToken(w)

\* What every step preserves.
IInv == TypeOK /\ \A w \in Workers : WorkerInv(w)
-----------------------------------------------------------------------------
(* Types                                                                   *)

\* The steps of the lease keep it a lease.
LEMMA ReadsType == ASSUME NEW w \in Workers, NEW t \in Threads, LockTypeOK, Reads(w, t)
                   PROVE  LockTypeOK'
  BY DEF LockTypeOK, Reads, ReadersOf, Threads

LEMMA WritesType == ASSUME NEW w \in Workers, NEW t \in Threads, LockTypeOK, Writes(w, t)
                    PROVE  LockTypeOK'
  BY DEF LockTypeOK, Writes, Supersede, Lease, Threads

LEMMA DeletesType == ASSUME NEW w \in Workers, LockTypeOK, ReleaseDeletes(w)
                     PROVE  LockTypeOK'
  BY DEF LockTypeOK, ReleaseDeletes, Supersede, Threads

LEMMA MainThreadType == ASSUME NEW w \in Workers, TypeOK, MainThread(w) PROVE TypeOK'
<1> USE DEF TypeOK, Goes, Holding, Final
<1>1. CASE SeesSuccess(w) \/ SeesFailed(w) \/ SeesRunning(w) \/ SeesNoStatus(w)
  BY <1>1 DEF SeesSuccess, SeesFailed, SeesRunning, SeesNoStatus, lockVars, LockTypeOK
<1>2. CASE HasActiveLock(w) \/ Rechecks(w)
  BY <1>2 DEF HasActiveLock, Rechecks, lockVars, LockTypeOK
<1>3. CASE TriesToAcquire(w)
  <2>1. LockTypeOK'
    BY <1>3, ReadsType DEF TriesToAcquire, AcquireBlocked, AcquireAlreadyHeld, AcquireReads,
       Threads, lockVars, LockTypeOK
  <2> QED  BY <1>3, <2>1 DEF TriesToAcquire
<1>4. CASE Acquires(w)
  <2>1. LockTypeOK'
    BY <1>4, WritesType DEF Acquires, AcquireWrites, AcquireRaced, AcquireRaises, Threads,
       lockVars, LockTypeOK
  <2> QED  BY <1>4, <2>1 DEF Acquires
<1>5. CASE \/ MarksRunning(w) \/ WritesStatus(w) \/ WritesFailed(w) \/ StopsHeartbeat(w)
           \/ JoinsHeartbeat(w)
  BY <1>5 DEF MarksRunning, WritesStatus, WritesFailed, StopsHeartbeat, JoinsHeartbeat,
     lockVars, LockTypeOK
<1>6. CASE Releases(w)
  <2>1. LockTypeOK'
    BY <1>6, ReadsType DEF Releases, ReleaseReads, ReleaseFindsOther, Threads
  <2> QED  BY <1>6, <2>1 DEF Releases
<1>7. CASE DeletesLease(w)
  BY <1>7, DeletesType DEF DeletesLease
<1> QED  BY <1>1, <1>2, <1>3, <1>4, <1>5, <1>6, <1>7 DEF MainThread

LEMMA HeartbeatType == ASSUME NEW w \in Workers, TypeOK, BeatIsDue(w) \/ Heartbeat(w)
                       PROVE  TypeOK'
<1> USE DEF TypeOK
<1>1. CASE BeatIsDue(w)
  BY <1>1 DEF BeatIsDue, lockVars, LockTypeOK
<1>2. CASE BeatReads(w)
  <2>1. LockTypeOK'
    BY <1>2, ReadsType DEF BeatReads, RefreshReads, RefreshFindsLost, Threads, lockVars,
       LockTypeOK
  <2> QED  BY <1>2, <2>1 DEF BeatReads
<1>3. CASE BeatWrites(w)
  <2>1. LockTypeOK'
    BY <1>3, WritesType DEF BeatWrites, RefreshWrites, RefreshRaises, Threads, lockVars,
       LockTypeOK
  <2> QED  BY <1>3, <2>1 DEF BeatWrites
<1> QED  BY <1>1, <1>2, <1>3 DEF Heartbeat

LEMMA FaultType ==
  ASSUME NEW w \in Workers, TypeOK,
         Crash(w) \/ StoreRaises(w) \/ SuccessRaises(w) \/ AcquireResent(w) \/ BeatRaises(w)
  PROVE  TypeOK'
<1> USE DEF TypeOK, Fault, Final, Holding
<1>1. CASE Crash(w)
  BY <1>1 DEF Crash, lockVars, LockTypeOK
<1>2. CASE StoreRaises(w)
  BY <1>2 DEF StoreRaises, lockVars, LockTypeOK
<1>3. CASE AcquireResent(w)
  <2>1. LockTypeOK'
    BY <1>3, WritesType DEF AcquireResent, AcquireWrites, Threads
  <2> QED  BY <1>3, <2>1 DEF AcquireResent, Goes
<1>4. CASE BeatRaises(w)
  <2>1. LockTypeOK'
    BY <1>4, WritesType DEF BeatRaises, RefreshWrites, Threads, lockVars, LockTypeOK
  <2> QED  BY <1>4, <2>1 DEF BeatRaises
<1>5. CASE SuccessRaises(w)
  BY <1>5 DEF SuccessRaises, Goes, lockVars, LockTypeOK
<1> QED  BY <1>1, <1>2, <1>3, <1>4, <1>5

LEMMA ExpiresType == TypeOK /\ LeaseExpires => TypeOK'
<1> SUFFICES ASSUME TypeOK, LeaseExpires PROVE TypeOK'
  OBVIOUS
<1>1. LockTypeOK'
  BY LockAssumption DEF TypeOK, LeaseExpires, LockTypeOK, Active, Lease
<1> QED  BY <1>1 DEF TypeOK, LeaseExpires, Fault

LEMMA StepType == TypeOK /\ [Next]_vars => TypeOK'
<1> SUFFICES ASSUME TypeOK, [Next]_vars PROVE TypeOK'
  OBVIOUS
<1>1. CASE UNCHANGED vars
  BY <1>1 DEF vars, lockVars, stepVars, TypeOK, LockTypeOK
<1>2. CASE Next
  BY <1>2, MainThreadType, HeartbeatType, FaultType, ExpiresType DEF Next
<1> QED  BY <1>1, <1>2

LEMMA InitType == Init => TypeOK
  BY DEF Init, LockInit, TypeOK, LockTypeOK

\* Every variable of the lease, of the status file and of the workers' threads holds a
\* value of its kind, whatever fails.
THEOREM StepTypeCorrect == Spec => []TypeOK
  BY InitType, StepType, PTL DEF Spec
-----------------------------------------------------------------------------
(* The inductive invariant                                                 *)

LEMMA InitInv == Init => IInv
  BY InitType DEF Init, LockInit, IInv, WorkerInv, BeatOff, HolderActive, ContenderToken,
     BeatToken, MarkerToken, SureToken, Before, Holding

\* Between the acquisition and the release there is nobody else.
LEMMA HoldersExclude == IInv => MutualExclusion
  BY DEF IInv, WorkerInv, HolderActive, MutualExclusion, HeldBy

\* An acquiring write succeeds only when nobody holds the lock.
LEMMA AcquireNeedsNoHolder ==
  ASSUME IInv, NEW w \in Workers, at[w] = "write", WriteMatches(w, "main")
  PROVE  \A v \in Workers : at[v] \notin Holding
<1>1. ~Active \/ HeldBy(w)
  BY DEF IInv, WorkerInv, ContenderToken, WriteMatches, Active
<1>2. at[w] \notin Holding
  BY DEF Holding
<1> QED  BY <1>1, <1>2 DEF IInv, WorkerInv, HolderActive, HeldBy

\* A refresh writes over its own lease, or over one that nobody holds.
LEMMA RefreshWritesOwn ==
  ASSUME IInv, NEW w \in Workers, beat[w] = "write", RefreshWrites(w)
  PROVE  \A v \in Workers : at[v] \in Holding => v = w
<1>1. ~Active \/ HeldBy(w)
  BY DEF IInv, WorkerInv, BeatToken, RefreshWrites, WriteMatches, Active
<1> QED  BY <1>1 DEF IInv, WorkerInv, HolderActive, HeldBy

\* A write leaves a fresh lease of its worker.
LEMMA WritesOwn == ASSUME NEW w \in Workers, NEW t \in Threads, Writes(w, t)
                   PROVE  HeldBy(w)' /\ Active'
<1>1. lease' = [owner |-> w, fresh |-> TRUE]
  BY DEF Writes
<1>2. lease' \in Lease
  BY <1>1 DEF Lease
<1>3. lease' # NoLease
  BY <1>2, LockAssumption
<1> QED  BY <1>1, <1>3 DEF HeldBy, Active

\* A step of thread t of w that writes a lease of w, when nobody else holds the lock.
LEMMA WritesInv ==
  ASSUME IInv, NEW w \in Workers, NEW t \in Threads, Writes(w, t),
         \A v \in Workers : at[v] \in Holding => v = w,
         NEW v \in Workers, at'[v] = at[v], beat'[v] = beat[v], v # w, status' = status
  PROVE  WorkerInv(v)'
<1>1. known'[v]["main"] # "current" /\ known'[v]["heartbeat"] # "current"
  BY DEF Writes, Supersede, Threads
<1> QED  BY <1>1 DEF IInv, WorkerInv, BeatOff, HolderActive, ContenderToken, BeatToken,
            MarkerToken, SureToken

LEMMA MainThreadInv ==
  ASSUME IInv, NEW w \in Workers, MainThread(w), NEW v \in Workers
  PROVE  WorkerInv(v)'
<1> USE DEF WorkerInv, BeatOff, HolderActive, ContenderToken, BeatToken, MarkerToken,
            SureToken, Before, Holding, Goes
<1>0. TypeOK /\ WorkerInv(v) /\ WorkerInv(w)
  BY DEF IInv
<1>1. CASE SeesSuccess(w) \/ SeesFailed(w) \/ SeesRunning(w) \/ SeesNoStatus(w)
            \/ HasActiveLock(w)
  BY <1>0, <1>1 DEF SeesSuccess, SeesFailed, SeesRunning, SeesNoStatus, HasActiveLock,
     lockVars, TypeOK, HeldBy, Active
<1>2. CASE TriesToAcquire(w)
  <2>1. CASE AcquireBlocked(w) \/ AcquireAlreadyHeld(w)
    BY <1>0, <1>2, <2>1 DEF TriesToAcquire, AcquireBlocked, AcquireAlreadyHeld, AcquireReads,
       lockVars, TypeOK, HeldBy, Active
  <2>2. CASE AcquireReads(w)
    BY <1>0, <1>2, <2>2 DEF TriesToAcquire, AcquireBlocked, AcquireAlreadyHeld, AcquireReads,
       Reads, ReadersOf, Threads, TypeOK, LockTypeOK, HeldBy, Active
  <2> QED  BY <1>2, <2>1, <2>2 DEF TriesToAcquire
<1>3. CASE Acquires(w)
  <2>1. CASE AcquireWrites(w)
    <3>1. \A u \in Workers : at[u] \notin Holding
      BY <1>3, <2>1, AcquireNeedsNoHolder DEF Acquires, AcquireWrites, AcquireRaced, AcquireRaises
    <3>2. HeldBy(w)' /\ Active'
      BY <2>1, WritesOwn DEF AcquireWrites, Threads
    <3>3. CASE v = w
      BY <1>0, <1>3, <2>1, <3>2, <3>3
      DEF Acquires, AcquireWrites, AcquireRaced, AcquireRaises, TypeOK
    <3>4. CASE v # w
      BY <1>3, <2>1, <3>1, <3>4, WritesInv
      DEF Acquires, AcquireWrites, AcquireRaced, AcquireRaises, Threads, TypeOK, IInv
    <3> QED  BY <3>3, <3>4
  <2>2. CASE AcquireRaced(w) \/ AcquireRaises(w)
    BY <1>0, <1>3, <2>2 DEF Acquires, AcquireWrites, AcquireRaced, AcquireRaises, lockVars,
       TypeOK, HeldBy, Active
  <2> QED  BY <1>3, <2>1, <2>2 DEF Acquires
<1>4. CASE Rechecks(w) \/ MarksRunning(w) \/ StopsHeartbeat(w) \/ JoinsHeartbeat(w)
  BY <1>0, <1>4 DEF Rechecks, MarksRunning, StopsHeartbeat, JoinsHeartbeat, lockVars, TypeOK,
     HeldBy, Active
<1>5. CASE WritesStatus(w) \/ WritesFailed(w)
  <2>1. v # w => at[v] \notin Holding
    BY <1>5, HoldersExclude DEF WritesStatus, WritesFailed, MutualExclusion
  <2> QED  BY <1>0, <1>5, <2>1 DEF WritesStatus, WritesFailed, lockVars, TypeOK, HeldBy, Active
<1>6. CASE Releases(w)
  BY <1>0, <1>6 DEF Releases, ReleaseReads, ReleaseFindsOther, Reads, ReadersOf, Threads,
     TypeOK, LockTypeOK, HeldBy, Active
<1>7. CASE DeletesLease(w)
  <2>1. v # w => at[v] \notin Holding
    BY <1>7, HoldersExclude DEF DeletesLease, MutualExclusion
  <2>2. known'[v]["main"] # "current" /\ known'[v]["heartbeat"] # "current"
    BY <1>7 DEF DeletesLease, ReleaseDeletes, Supersede, Threads
  <2> QED  BY <1>0, <1>7, <2>1, <2>2 DEF DeletesLease, ReleaseDeletes, TypeOK
<1> QED  BY <1>1, <1>2, <1>3, <1>4, <1>5, <1>6, <1>7 DEF MainThread

LEMMA HeartbeatInv ==
  ASSUME IInv, NEW w \in Workers, BeatIsDue(w) \/ Heartbeat(w), NEW v \in Workers
  PROVE  WorkerInv(v)'
<1> USE DEF WorkerInv, BeatOff, HolderActive, ContenderToken, BeatToken, MarkerToken,
            SureToken, Before, Holding
<1>0. TypeOK /\ WorkerInv(v) /\ WorkerInv(w)
  BY DEF IInv
<1>1. CASE BeatIsDue(w)
  BY <1>0, <1>1 DEF BeatIsDue, lockVars, TypeOK, HeldBy, Active
<1>2. CASE BeatReads(w)
  <2>1. CASE RefreshReads(w)
    BY <1>0, <1>2, <2>1 DEF BeatReads, RefreshReads, RefreshFindsLost, Reads, ReadersOf,
       Threads, TypeOK, LockTypeOK, HeldBy, Active
  <2>2. CASE RefreshFindsLost(w)
    BY <1>0, <1>2, <2>2 DEF BeatReads, RefreshReads, RefreshFindsLost, lockVars, TypeOK,
       HeldBy, Active
  <2> QED  BY <1>2, <2>1, <2>2 DEF BeatReads
<1>3. CASE BeatWrites(w)
  <2>1. CASE RefreshWrites(w)
    <3>1. \A u \in Workers : at[u] \in Holding => u = w
      BY <1>3, <2>1, RefreshWritesOwn DEF BeatWrites
    <3>2. CASE v = w
      <4>1. beat'[w] \in {"off", "wait"} /\ at' = at /\ status' = status
        BY <1>0, <1>3, <2>1, <3>2 DEF BeatWrites, RefreshWrites, RefreshRaises, TypeOK
      <4>2. HeldBy(w)' /\ Active'
        BY <2>1, WritesOwn DEF RefreshWrites, Threads
      <4>3. known'[w]["main"] # "current"
        BY <2>1 DEF RefreshWrites, Writes, Supersede, Threads
      <4>4. BeatOff(w)'
        BY <1>0, <1>3, <4>1 DEF BeatWrites
      <4> QED  BY <1>0, <3>2, <4>1, <4>2, <4>3, <4>4
    <3>3. CASE v # w
      BY <1>3, <2>1, <3>1, <3>3, WritesInv DEF BeatWrites, RefreshWrites, Threads, TypeOK, IInv
    <3> QED  BY <3>2, <3>3
  <2>2. CASE RefreshRaises(w)
    <3>1. at[w] \notin Holding
      BY <1>0, <1>3, <2>2 DEF BeatWrites, RefreshRaises, WriteMatches
    <3> QED  BY <1>0, <1>3, <2>2, <3>1 DEF BeatWrites, RefreshRaises, RefreshWrites, lockVars,
                TypeOK, HeldBy, Active
  <2> QED  BY <1>3, <2>1, <2>2 DEF BeatWrites
<1> QED  BY <1>1, <1>2, <1>3 DEF Heartbeat

LEMMA FaultInv ==
  ASSUME Reliable, IInv, NEW w \in Workers, NEW v \in Workers,
         Crash(w) \/ StoreRaises(w) \/ SuccessRaises(w) \/ AcquireResent(w) \/ BeatRaises(w)
  PROVE  WorkerInv(v)'
<1> USE DEF WorkerInv, BeatOff, HolderActive, ContenderToken, BeatToken, MarkerToken,
            SureToken, Before, Holding
<1>0. TypeOK /\ WorkerInv(v) /\ WorkerInv(w)
  BY DEF IInv
<1>1. CASE Crash(w)
  BY <1>0, <1>1 DEF Crash, lockVars, TypeOK, HeldBy, Active
<1>2. CASE StoreRaises(w)
  BY <1>0, <1>2 DEF StoreRaises, Final, lockVars, TypeOK, HeldBy, Active
<1>3. CASE AcquireResent(w)
  <2>1. \A u \in Workers : at[u] \notin Holding
    BY <1>3, AcquireNeedsNoHolder DEF AcquireResent, AcquireWrites, Goes
  <2>2. CASE v = w
    BY <1>0, <1>3, <2>2 DEF AcquireResent, AcquireWrites, Goes, Writes, Supersede, Threads, TypeOK
  <2>3. CASE v # w
    BY <1>3, <2>1, <2>3, WritesInv DEF AcquireResent, AcquireWrites, Goes, Threads, TypeOK, IInv
  <2> QED  BY <2>2, <2>3
<1>4. ~BeatRaises(w)
  BY DEF BeatRaises, Fault, Reliable
<1>5. CASE SuccessRaises(w)
  <2>1. v # w => at[v] \notin Holding
    BY <1>5, HoldersExclude DEF SuccessRaises, Goes, MutualExclusion
  <2>2. /\ UNCHANGED <<lockVars, beat>> /\ at[w] = "run" /\ "unsure" \in Faults
        /\ at' = [at EXCEPT ![w] = "failing"]
    BY <1>5 DEF SuccessRaises, Fault, Goes
  <2>3. HeldBy(v)' = HeldBy(v) /\ Active' = Active
    BY <2>2 DEF lockVars, HeldBy, Active
  <2>4. at'[v] = IF v = w THEN "failing" ELSE at[v]
    BY <1>0, <2>2 DEF TypeOK
  <2>5. CASE v = w
    BY <1>0, <2>2, <2>3, <2>4, <2>5 DEF lockVars
  <2>6. CASE v # w
    BY <1>0, <2>1, <2>2, <2>3, <2>4, <2>6 DEF lockVars
  <2> QED  BY <2>5, <2>6
<1> QED  BY <1>1, <1>2, <1>3, <1>4, <1>5

\* Without pauses only a lease that nobody keeps goes stale.
LEMMA ExpiresInv ==
  ASSUME Reliable, IInv, LeaseExpires, NEW v \in Workers
  PROVE  WorkerInv(v)'
<1>0. TypeOK /\ WorkerInv(v)
  BY DEF IInv
<1>1. ~KeepsFresh(lease.owner)
  BY DEF LeaseExpires, Fault, Reliable
<1>2. at[v] \notin Holding
  BY <1>0, <1>1 DEF WorkerInv, HolderActive, HeldBy, KeepsFresh
<1>3. lease'.owner = lease.owner /\ lease' # NoLease /\ ~Active'
  BY <1>0, LockAssumption DEF LeaseExpires, Active, TypeOK, LockTypeOK, Lease
<1> QED  BY <1>0, <1>2, <1>3 DEF LeaseExpires, WorkerInv, BeatOff, HolderActive,
            ContenderToken, BeatToken, MarkerToken, SureToken, Before, Holding, HeldBy, Active

LEMMA StepInv == ASSUME Reliable PROVE IInv /\ [Next]_vars => IInv'
<1> SUFFICES ASSUME IInv, [Next]_vars PROVE IInv'
  OBVIOUS
<1>1. TypeOK'
  BY StepType DEF IInv
<1>2. ASSUME NEW v \in Workers PROVE WorkerInv(v)'
  <2>1. CASE UNCHANGED vars
    BY <2>1 DEF IInv, vars, lockVars, stepVars, WorkerInv, BeatOff, HolderActive,
       ContenderToken, BeatToken, MarkerToken, SureToken, HeldBy, Active
  <2>2. CASE Next
    BY <2>2, MainThreadInv, HeartbeatInv, FaultInv, ExpiresInv DEF Next
  <2> QED  BY <2>1, <2>2
<1> QED  BY <1>1, <1>2 DEF IInv
-----------------------------------------------------------------------------
(* The theorems                                                            *)

LEMMA InvCorrect == ASSUME Reliable PROVE Spec => []IInv
  BY InitInv, StepInv, PTL DEF Spec

\* While every worker keeps up its heartbeat, two workers are never both between their
\* acquisition and their release.
THEOREM StepMutualExclusion == ASSUME Reliable PROVE Spec => []MutualExclusion
  BY InvCorrect, HoldersExclude, PTL

\* Then a worker that runs the step holds a fresh lease all along.
THEOREM StepRunnersActive == ASSUME Reliable PROVE Spec => []RunnersStayActive
<1>1. IInv => RunnersStayActive
  BY DEF IInv, WorkerInv, HolderActive, RunnersStayActive, Holding
<1> QED  BY InvCorrect, <1>1, PTL

Runners == {w \in Workers : at[w] = "run"}

\* At most one worker runs the step's function.
LEMMA RunnersAlone == ASSUME IInv, NEW w \in Workers, at[w] \in Holding
                      PROVE  \A v \in Workers : at[v] = "run" => v = w
<1>1. MutualExclusion
  BY HoldersExclude
<1> QED  BY <1>1 DEF MutualExclusion, Holding

\* A step that neither begins nor ends a run is a stutter of StepOnce.
LEMMA RunsUnchanged ==
  ASSUME TypeOK, status' = status, NEW w \in Workers, NEW to, to # "run", at[w] # "run",
         at' = [at EXCEPT ![w] = to]
  PROVE  Runners' = Runners
  BY DEF TypeOK, Runners

LEMMA RunAbandoned ==
  ASSUME IInv, status' = status, NEW w \in Workers, NEW to, to # "run", at[w] = "run",
         at' = [at EXCEPT ![w] = to]
  PROVE  Abstract!Abandon(w)
<1>1. \A v \in Workers : at[v] = "run" => v = w
  BY RunnersAlone DEF Holding
<1> QED  BY <1>1 DEF Abstract!Abandon, IInv, TypeOK

\* Every step of the workers begins, ends or abandons a run as StepOnce allows, or is
\* a stutter of it.
LEMMA StepRefines ==
  ASSUME Reliable, "unsure" \notin Faults, IInv, [Next]_vars
  PROVE  [Abstract!Next]_<<status, Runners>>
<1> USE DEF Goes
<1>1. CASE UNCHANGED vars
  BY <1>1 DEF vars, stepVars, Runners
<1>2. ASSUME NEW w \in Workers, MainThread(w)
      PROVE  [Abstract!Next]_<<status, Runners>>
  <2>1. CASE MarksRunning(w)
    <3>1. Runners = {}
      BY <2>1, RunnersAlone DEF MarksRunning, Runners, Holding
    <3>2. Runners' = {w}
      BY <2>1, <3>1 DEF MarksRunning, Runners, IInv, TypeOK
    <3>3. status # "SUCCESS"
      BY <2>1 DEF MarksRunning, IInv, WorkerInv, MarkerToken
    <3>4. Abstract!Begin(w)
      BY <2>1, <3>1, <3>2, <3>3 DEF MarksRunning, Abstract!Begin, Runners
    <3> QED  BY <3>4 DEF Abstract!Next
  <2>2. CASE WritesStatus(w)
    <3>1. Runners = {w}
      BY <2>2, RunnersAlone DEF WritesStatus, Runners, Holding
    <3>2. Runners' = {}
      BY <2>2, <3>1 DEF WritesStatus, Runners, IInv, TypeOK
    <3>3. Abstract!End(w)
      BY <2>2, <3>1, <3>2 DEF WritesStatus, Abstract!End, Runners
    <3> QED  BY <3>3 DEF Abstract!Next
  <2>0. ~WritesFailed(w)
    BY DEF WritesFailed, IInv, WorkerInv, SureToken
  <2>3. CASE ~MarksRunning(w) /\ ~WritesStatus(w)
    <3>1. /\ status' = status
          /\ at[w] # "run"
          /\ \E to \in {"skipped", "acquire", "refused", "active", "check", "recheck", "write",
                         "mark", "release", "join", "lost", "delete", "finished", "raised"} :
               at' = [at EXCEPT ![w] = to]
      BY <1>2, <2>0, <2>3 DEF MainThread, SeesSuccess, SeesFailed, SeesRunning, SeesNoStatus,
         HasActiveLock, TriesToAcquire, Acquires, Rechecks, StopsHeartbeat, JoinsHeartbeat,
         Releases, DeletesLease
    <3>2. Runners' = Runners
      BY <3>1, RunsUnchanged DEF IInv
    <3> QED  BY <3>1, <3>2
  <2> QED  BY <2>1, <2>2, <2>3
<1>3. ASSUME NEW w \in Workers, BeatIsDue(w) \/ Heartbeat(w) \/ BeatRaises(w)
      PROVE  UNCHANGED <<status, Runners>>
  BY <1>3 DEF BeatIsDue, Heartbeat, BeatReads, BeatWrites, BeatRaises, Runners
<1>4. ASSUME NEW w \in Workers, Crash(w) \/ StoreRaises(w) \/ AcquireResent(w)
      PROVE  [Abstract!Next]_<<status, Runners>>
  <2>1. /\ status' = status
        /\ \E to \in {"crashed", "stop", "raised", "check"} : at' = [at EXCEPT ![w] = to]
    BY <1>4 DEF Crash, StoreRaises, AcquireResent
  <2>2. CASE at[w] = "run"
    BY <2>1, <2>2, RunAbandoned DEF Abstract!Next
  <2>3. CASE at[w] # "run"
    BY <2>1, <2>3, RunsUnchanged DEF IInv
  <2> QED  BY <2>2, <2>3
<1>5. CASE LeaseExpires
  BY <1>5 DEF LeaseExpires, Runners
<1>6. \A w \in Workers : ~SuccessRaises(w)
  BY DEF SuccessRaises, Fault
<1> QED  BY <1>1, <1>2, <1>3, <1>4, <1>5, <1>6 DEF Next

\* While every worker keeps up its heartbeat and no applied write of SUCCESS raises, the
\* lease and the status file together run the step one worker at a time and never again
\* after a SUCCESS: StepLock implements StepOnce.
THEOREM StepImplementsOnce ==
  ASSUME Reliable, "unsure" \notin Faults PROVE Spec => RunsOnce
<1>1. Init => Abstract!Init
  BY DEF Init, Abstract!Init
<1>2. IInv /\ [Next]_vars => [Abstract!Next]_<<status, Runners>>
  BY StepRefines
<1>3. IInv /\ [Next]_vars => [Abstract!Next]_<<status, {w \in Workers : at[w] = "run"}>>
  BY <1>2 DEF Runners
<1> QED  BY InvCorrect, <1>1, <1>3, PTL DEF Spec, RunsOnce, Abstract!Spec
-----------------------------------------------------------------------------
(* Pauses                                                                  *)

\* A generation that a thread is about to write over is of a lease that was stale, or its
\* own, when it was read, and still is.
Token(w) ==
  /\ at[w] = "write" /\ known[w]["main"] = "current" => ~Active
  /\ beat[w] = "write" /\ known[w]["heartbeat"] = "current" => HeldBy(w)

Tokens == \A w \in Workers : Token(w)

LEMMA InitTokens == Init => Tokens
  BY DEF Init, Tokens, Token

\* Once the lock file is replaced or deleted no generation read before is current.
LEMMA SupersedeTokens ==
  ASSUME known' = Supersede(known), NEW w \in Workers
  PROVE  Token(w)'
  BY DEF Supersede, Token, Threads

LEMMA MainThreadTokens ==
  ASSUME Backend # "s3", TypeOK, Tokens, NEW w \in Workers, MainThread(w), NEW v \in Workers
  PROVE  Token(v)'
<1>1. CASE AcquireReads(w) /\ Goes(w, "acquire", "write") /\ UNCHANGED beat
  <2>1. at'[v] = IF v = w THEN "write" ELSE at[v]
    BY <1>1 DEF Goes, TypeOK
  <2>2. /\ known'[v]["heartbeat"] = known[v]["heartbeat"]
        /\ v # w => known'[v]["main"] = known[v]["main"]
    BY <1>1 DEF AcquireReads, Reads, ReadersOf, Threads, TypeOK, LockTypeOK
  <2> QED  BY <1>1, <2>1, <2>2 DEF AcquireReads, Reads, Tokens, Token, Active, HeldBy
<1>2. CASE Reads(w, "main") /\ Goes(w, "release", "delete") /\ UNCHANGED beat
  <2>1. at'[v] = IF v = w THEN "delete" ELSE at[v]
    BY <1>2 DEF Goes, TypeOK
  <2>2. /\ known'[v]["heartbeat"] = known[v]["heartbeat"]
        /\ v # w => known'[v]["main"] = known[v]["main"]
    BY <1>2 DEF Reads, ReadersOf, Threads, TypeOK, LockTypeOK
  <2> QED  BY <1>2, <2>1, <2>2 DEF Reads, Tokens, Token, Active, HeldBy
<1>3. CASE Reads(w, "main") /\ Goes(w, "release", "finished") /\ UNCHANGED beat
  <2>1. at'[v] = IF v = w THEN "finished" ELSE at[v]
    BY <1>3 DEF Goes, TypeOK
  <2>2. /\ known'[v]["heartbeat"] = known[v]["heartbeat"]
        /\ v # w => known'[v]["main"] = known[v]["main"]
    BY <1>3 DEF Reads, ReadersOf, Threads, TypeOK, LockTypeOK
  <2> QED  BY <1>3, <2>1, <2>2 DEF Reads, Tokens, Token, Active, HeldBy
<1>4. CASE known' = Supersede(known)
  BY <1>4, SupersedeTokens
<1>5. CASE /\ UNCHANGED lockVars
           /\ \E from, to : Goes(w, from, to) /\ to # "write"
           /\ \A u \in Workers : beat'[u] = "write" => beat[u] = "write"
  BY <1>5 DEF Goes, TypeOK, lockVars, Tokens, Token, Active, HeldBy
<1>6. MainThread(w) =>
        \/ AcquireReads(w) /\ Goes(w, "acquire", "write") /\ UNCHANGED beat
        \/ Reads(w, "main") /\ Goes(w, "release", "delete") /\ UNCHANGED beat
        \/ Reads(w, "main") /\ Goes(w, "release", "finished") /\ UNCHANGED beat
        \/ known' = Supersede(known)
        \/ /\ UNCHANGED lockVars
           /\ \E from, to : Goes(w, from, to) /\ to # "write"
           /\ \A u \in Workers : beat'[u] = "write" => beat[u] = "write"
  <2>1. CASE SeesSuccess(w) \/ SeesFailed(w) \/ SeesRunning(w) \/ SeesNoStatus(w)
             \/ HasActiveLock(w) \/ Rechecks(w) \/ JoinsHeartbeat(w) \/ WritesStatus(w)
             \/ WritesFailed(w)
    BY <2>1 DEF SeesSuccess, SeesFailed, SeesRunning, SeesNoStatus, HasActiveLock, Rechecks,
       JoinsHeartbeat, WritesStatus, WritesFailed
  <2>2. CASE MarksRunning(w) \/ StopsHeartbeat(w)
    BY <2>2 DEF MarksRunning, StopsHeartbeat, TypeOK
  <2>3. CASE TriesToAcquire(w)
    BY <2>3 DEF TriesToAcquire, AcquireBlocked, AcquireAlreadyHeld
  <2>4. CASE Acquires(w)
    BY <2>4 DEF Acquires, AcquireWrites, AcquireRaced, AcquireRaises, Writes
  <2>5. CASE Releases(w) \/ DeletesLease(w)
    BY <2>5 DEF Releases, ReleaseReads, ReleaseFindsOther, DeletesLease, ReleaseDeletes
  <2> QED  BY <2>1, <2>2, <2>3, <2>4, <2>5 DEF MainThread
<1> QED  BY <1>1, <1>2, <1>3, <1>4, <1>5, <1>6

LEMMA HeartbeatTokens ==
  ASSUME Backend # "s3", TypeOK, Tokens, NEW w \in Workers, BeatIsDue(w) \/ Heartbeat(w),
         NEW v \in Workers
  PROVE  Token(v)'
<1>1. CASE BeatIsDue(w)
  BY <1>1 DEF BeatIsDue, lockVars, TypeOK, Tokens, Token, Active, HeldBy
<1>2. CASE BeatReads(w)
  <2>1. CASE RefreshReads(w)
    <3>1. /\ known'[v]["main"] = known[v]["main"]
          /\ v # w => known'[v]["heartbeat"] = known[v]["heartbeat"] /\ beat'[v] = beat[v]
      BY <1>2, <2>1 DEF BeatReads, RefreshReads, RefreshFindsLost, Reads, ReadersOf, Threads,
         TypeOK, LockTypeOK
    <3> QED  BY <1>2, <2>1, <3>1 DEF BeatReads, RefreshReads, Reads, Tokens, Token, Active, HeldBy
  <2>2. CASE RefreshFindsLost(w)
    BY <1>2, <2>2 DEF BeatReads, RefreshReads, RefreshFindsLost, lockVars, TypeOK, Tokens, Token,
       Active, HeldBy
  <2> QED  BY <1>2, <2>1, <2>2 DEF BeatReads
<1>3. CASE BeatWrites(w)
  <2>1. CASE RefreshWrites(w)
    BY <2>1, SupersedeTokens DEF RefreshWrites, Writes
  <2>2. CASE RefreshRaises(w) /\ beat' = [beat EXCEPT ![w] = "dead"]
    BY <1>3, <2>2 DEF BeatWrites, RefreshRaises, lockVars, TypeOK, Tokens, Token, Active, HeldBy
  <2> QED  BY <1>3, <2>1, <2>2 DEF BeatWrites
<1> QED  BY <1>1, <1>2, <1>3 DEF Heartbeat

LEMMA FaultTokens ==
  ASSUME TypeOK, Tokens, NEW w \in Workers, NEW v \in Workers,
         Crash(w) \/ StoreRaises(w) \/ SuccessRaises(w) \/ AcquireResent(w) \/ BeatRaises(w)
  PROVE  Token(v)'
<1>1. CASE AcquireResent(w) \/ (BeatRaises(w) /\ RefreshWrites(w))
  BY <1>1, SupersedeTokens DEF AcquireResent, AcquireWrites, RefreshWrites, Writes
<1>2. CASE Crash(w) \/ StoreRaises(w) \/ SuccessRaises(w)
  BY <1>2 DEF Crash, StoreRaises, SuccessRaises, Goes, lockVars, TypeOK, Tokens, Token, Active,
     HeldBy
<1>3. CASE BeatRaises(w) /\ UNCHANGED lockVars
  BY <1>3 DEF BeatRaises, lockVars, TypeOK, Tokens, Token, Active, HeldBy
<1> QED  BY <1>1, <1>2, <1>3 DEF BeatRaises

LEMMA StepTokens == ASSUME Backend # "s3" PROVE TypeOK /\ Tokens /\ [Next]_vars => Tokens'
<1> SUFFICES ASSUME TypeOK, Tokens, [Next]_vars, NEW v \in Workers PROVE Token(v)'
  BY DEF Tokens
<1>1. CASE UNCHANGED vars
  BY <1>1 DEF vars, lockVars, stepVars, Tokens, Token, Active, HeldBy
<1>2. CASE LeaseExpires
  <2>1. lease'.owner = lease.owner /\ lease' # NoLease /\ ~Active'
    BY <1>2, LockAssumption DEF LeaseExpires, Active, TypeOK, LockTypeOK, Lease
  <2> QED  BY <1>2, <2>1 DEF LeaseExpires, Tokens, Token, HeldBy, Active
<1>3. CASE Next /\ ~LeaseExpires
  BY <1>3, MainThreadTokens, HeartbeatTokens, FaultTokens DEF Next
<1> QED  BY <1>1, <1>2, <1>3

\* Whoever writes the lock file while its lease is fresh is the holder.
LEMMA StepKeepsOwner ==
  ASSUME TypeOK, Tokens, [Next]_vars, Active, lease' # NoLease
  PROVE  lease'.owner = lease.owner
<1>1. ASSUME NEW w \in Workers, at[w] = "write", AcquireWrites(w)
      PROVE  lease'.owner = lease.owner
  <2>1. HeldBy(w)
    BY <1>1 DEF AcquireWrites, WriteMatches, Tokens, Token, Active
  <2> QED  BY <1>1, <2>1 DEF AcquireWrites, Writes, HeldBy
<1>2. ASSUME NEW w \in Workers, beat[w] = "write", RefreshWrites(w)
      PROVE  lease'.owner = lease.owner
  <2>1. HeldBy(w)
    BY <1>2 DEF RefreshWrites, WriteMatches, Tokens, Token, Active
  <2> QED  BY <1>2, <2>1 DEF RefreshWrites, Writes, HeldBy
<1>3. ASSUME NEW w \in Workers, MainThread(w) PROVE lease'.owner = lease.owner
  <2>1. CASE Acquires(w)
    BY <1>1, <2>1 DEF Acquires, AcquireRaced, AcquireRaises, lockVars, Goes
  <2>2. CASE ~Acquires(w)
    BY <1>3, <2>2 DEF MainThread, SeesSuccess, SeesFailed, SeesRunning, SeesNoStatus,
       HasActiveLock, TriesToAcquire, AcquireBlocked, AcquireAlreadyHeld, AcquireReads, Rechecks,
       MarksRunning, WritesStatus, WritesFailed, StopsHeartbeat, JoinsHeartbeat, Releases,
       ReleaseReads, ReleaseFindsOther, Reads, DeletesLease, ReleaseDeletes, lockVars
  <2> QED  BY <2>1, <2>2
<1>4. ASSUME NEW w \in Workers, BeatIsDue(w) \/ Heartbeat(w) PROVE lease'.owner = lease.owner
  BY <1>2, <1>4 DEF BeatIsDue, Heartbeat, BeatReads, BeatWrites, RefreshReads, RefreshFindsLost,
     RefreshRaises, Reads, lockVars
<1>5. ASSUME NEW w \in Workers,
             Crash(w) \/ StoreRaises(w) \/ SuccessRaises(w) \/ AcquireResent(w) \/ BeatRaises(w)
      PROVE  lease'.owner = lease.owner
  BY <1>1, <1>2, <1>5 DEF Crash, StoreRaises, SuccessRaises, AcquireResent, BeatRaises, Goes,
     lockVars
<1>6. CASE LeaseExpires
  BY <1>6, LockAssumption DEF LeaseExpires, Active, TypeOK, LockTypeOK, Lease
<1>7. CASE UNCHANGED vars
  BY <1>7 DEF vars, lockVars
<1> QED  BY <1>3, <1>4, <1>5, <1>6, <1>7 DEF Next

\* No write replaces a fresh lease of another worker, not even when workers are paused for
\* longer than the timeout and their heartbeats fail.  With S3 the two threads of a worker
\* share what they have read, and the theorem needs the heartbeats.
THEOREM StepFreshNotOverwritten ==
  ASSUME Backend # "s3" \/ Reliable PROVE Spec => FreshNotOverwritten
<1>1. TypeOK /\ Tokens /\ [Next]_vars
        => [Active /\ lease' # NoLease => lease'.owner = lease.owner]_vars
  BY StepKeepsOwner
<1>2. CASE Backend # "s3"
  <2>1. TypeOK /\ Tokens /\ [Next]_vars => (TypeOK /\ Tokens)'
    BY <1>2, StepTokens, StepType
  <2> QED  BY InitType, InitTokens, <1>1, <2>1, PTL DEF Spec, FreshNotOverwritten
<1>3. CASE Backend = "s3" /\ Reliable
  <2>1. IInv => TypeOK /\ Tokens
    BY <1>3 DEF IInv, WorkerInv, ContenderToken, BeatToken, Tokens, Token
  <2> QED  BY <1>1, <1>3, <2>1, InvCorrect, PTL DEF Spec, FreshNotOverwritten
<1> QED  BY <1>2, <1>3
=============================================================================
