-------------------------- MODULE StepRunnerProofs --------------------------
(***************************************************************************)
(* Proofs about StepRunner, for every set of steps, every graph of         *)
(* dependencies (cyclic ones too) and every number of threads.             *)
(***************************************************************************)
EXTENDS StepRunner, TLAPS

\* What the runner's sets say of the futures and of the status files.
DiskInv ==
  /\ \A s \in completed : dryRun \/ disk[s] = "SUCCESS"
  /\ \A s \in Steps : /\ job[s] = "ok" => disk[s] = "SUCCESS"
                      /\ job[s] # "none" => ~dryRun

\* The step the loop is at is in no set yet, nor is one it has not come to.
PlaceInv ==
  /\ current \in scheduled \cup {NoStep}
  /\ main = "place" => current # NoStep
  /\ completed \cup failed \cup running \cup waiting \subseteq scheduled \ {current}

IInv == TypeOK /\ DiskInv /\ DepsFirst /\ PlaceInv /\ OnePlace

LEMMA InitInv == Init => IInv
  BY RunnerAssumption
  DEF Init, IInv, TypeOK, DiskInv, DepsFirst, PlaceInv, OnePlace, Ended

\* The step at which the loop is, and a waiting one, are launched from no other place.
LEMMA LaunchInv ==
  ASSUME IInv, NEW s \in Steps, DepsMet(s), UNCHANGED argVars, UNCHANGED disk,
         LaunchSkips(s) \/ LaunchSubmits(s) \/ LaunchRaises(s)
  PROVE  DiskInv' /\ DepsFirst'
<1> USE RunnerAssumption DEF IInv, argVars
<1>1. CASE LaunchSkips(s)
  BY <1>1 DEF LaunchSkips, SkipsLaunch, TypeOK, DiskInv, DepsFirst
<1>2. CASE LaunchSubmits(s)
  <2>1. ~dryRun /\ job' = [job EXCEPT ![s] = "queued"] /\ completed' = completed
    BY <1>2 DEF LaunchSubmits, SkipsLaunch
  <2>2. \A d \in Deps[s] : disk[d] = "SUCCESS"
    BY <2>1 DEF DepsMet, DiskInv
  <2> QED  BY <2>1, <2>2 DEF TypeOK, DiskInv, DepsFirst
<1>3. CASE LaunchRaises(s)
  BY <1>3 DEF LaunchRaises, DiskInv, DepsFirst
<1> QED  BY <1>1, <1>2, <1>3

LEMMA LaunchType ==
  ASSUME IInv, NEW s \in Steps,
         LaunchSkips(s) \/ LaunchSubmits(s) \/ LaunchRaises(s)
  PROVE  /\ job' \in [Steps -> {"none", "queued", "executing", "ok", "error"}]
         /\ completed' \subseteq Steps /\ running' \subseteq Steps
         /\ \/ completed' = completed \cup {s} /\ running' = running
            \/ completed' = completed /\ running' = running \cup {s}
            \/ completed' = completed /\ running' = running
  BY DEF LaunchSkips, LaunchSubmits, LaunchRaises, IInv, TypeOK

\* Every statement of the runner's thread preserves the invariant.
LEMMA RunInv == ASSUME IInv, Run PROVE IInv'
<1> USE RunnerAssumption
<1>1. CASE IterableEnds
  BY <1>1 DEF IterableEnds, IInv, TypeOK, DiskInv, DepsFirst, PlaceInv, OnePlace, argVars, sets,
     Ended
<1>2. CASE Harvest
  <2>1. PICK done \in SUBSET Finished :
          /\ running' = running \ done
          /\ completed' = completed \cup {s \in done : job[s] = "ok"}
          /\ failed' = failed \cup {s \in done : job[s] = "error"}
          /\ failures' = failures \cup {s \in done : job[s] = "error"}
    BY <1>2 DEF Harvest
  <2>2. done \subseteq running
    BY DEF Finished
  <2>3. main' = "flush" /\ UNCHANGED <<argVars, disk, job, scheduled, waiting, current>>
    BY <1>2 DEF Harvest
  <2>4. TypeOK'
    BY <2>1, <2>2, <2>3 DEF IInv, TypeOK, argVars
  <2>5. DiskInv' /\ DepsFirst'
    BY <2>1, <2>2, <2>3 DEF IInv, TypeOK, DiskInv, DepsFirst, argVars
  <2>6. PlaceInv'
    BY <2>1, <2>2, <2>3 DEF IInv, PlaceInv
  <2>7. OnePlace'
    BY <2>1, <2>2, <2>3 DEF IInv, OnePlace
  <2> QED  BY <2>4, <2>5, <2>6, <2>7 DEF IInv
<1>3. CASE FlushEnds
  BY <1>3 DEF FlushEnds, IInv, TypeOK, DiskInv, DepsFirst, PlaceInv, OnePlace, argVars, sets
<1>4. CASE Drain
  BY <1>4 DEF Drain, IInv, TypeOK, DiskInv, DepsFirst, PlaceInv, OnePlace, argVars, sets, Ended
<1>5. ASSUME NEW s \in Steps, Pulls(s) PROVE IInv'
  <2>1. TypeOK'
    BY <1>5 DEF Pulls, IInv, TypeOK, argVars
  <2> QED  BY <1>5, <2>1 DEF Pulls, IInv, DiskInv, DepsFirst, PlaceInv, OnePlace, argVars
<1>6. ASSUME NEW s \in Steps, FlushFails(s) PROVE IInv'
  <2>1. TypeOK'
    BY <1>6 DEF FlushFails, IInv, TypeOK, argVars
  <2> QED  BY <1>6, <2>1 DEF FlushFails, IInv, DiskInv, DepsFirst, PlaceInv, OnePlace, argVars
<1>7. ASSUME NEW s \in Steps, FlushLaunches(s) PROVE IInv'
  <2>1. /\ s \in waiting /\ waiting' = waiting \ {s} /\ main = "flush" /\ DepsMet(s)
        /\ LaunchSkips(s) \/ LaunchSubmits(s) \/ LaunchRaises(s)
        /\ main' \in {"flush", "aborted"}
        /\ UNCHANGED <<argVars, disk, scheduled, failed, failures, current>>
    BY <1>7 DEF FlushLaunches, LaunchRaises
  <2>2. TypeOK'
    BY <2>1, LaunchType DEF IInv, TypeOK, argVars, Ended
  <2>3. DiskInv' /\ DepsFirst'
    BY <2>1, LaunchInv
  <2>4. PlaceInv' /\ OnePlace'
    BY <2>1, LaunchType DEF IInv, PlaceInv, OnePlace
  <2> QED  BY <2>2, <2>3, <2>4 DEF IInv
<1>8. ASSUME NEW s \in Steps, PlaceFails(s) PROVE IInv'
  <2>1. TypeOK'
    BY <1>8 DEF PlaceFails, IInv, TypeOK, argVars
  <2>2. DiskInv' /\ DepsFirst'
    BY <1>8 DEF PlaceFails, IInv, DiskInv, DepsFirst, argVars
  <2>3. PlaceInv' /\ OnePlace'
    BY <1>8 DEF PlaceFails, IInv, TypeOK, PlaceInv, OnePlace
  <2> QED  BY <2>1, <2>2, <2>3 DEF IInv
<1>9. ASSUME NEW s \in Steps, PlaceLaunches(s) PROVE IInv'
  <2>1. /\ current = s /\ main = "place" /\ DepsMet(s) /\ current' = NoStep
        /\ LaunchSkips(s) \/ LaunchSubmits(s) \/ LaunchRaises(s)
        /\ main' \in {"pull", "aborted"}
        /\ UNCHANGED <<argVars, disk, scheduled, failed, waiting, failures>>
    BY <1>9 DEF PlaceLaunches, LaunchRaises
  <2>2. TypeOK'
    BY <2>1, LaunchType DEF IInv, TypeOK, argVars, Ended
  <2>3. DiskInv' /\ DepsFirst'
    BY <2>1, LaunchInv
  <2>4. s \notin completed \cup failed \cup running \cup waiting /\ s \in scheduled
    BY <1>9, <2>1 DEF IInv, PlaceInv
  <2>5. PlaceInv' /\ OnePlace'
    BY <2>1, <2>4, LaunchType DEF IInv, TypeOK, PlaceInv, OnePlace
  <2> QED  BY <2>2, <2>3, <2>5 DEF IInv
<1>10. ASSUME NEW s \in Steps, PlaceWaits(s) PROVE IInv'
  <2>1. TypeOK'
    BY <1>10 DEF PlaceWaits, IInv, TypeOK, argVars
  <2>2. DiskInv' /\ DepsFirst'
    BY <1>10 DEF PlaceWaits, IInv, DiskInv, DepsFirst, argVars
  <2>3. PlaceInv' /\ OnePlace'
    BY <1>10 DEF PlaceWaits, IInv, TypeOK, PlaceInv, OnePlace
  <2> QED  BY <2>1, <2>2, <2>3 DEF IInv
<1> QED  BY <1>1, <1>2, <1>3, <1>4, <1>5, <1>6, <1>7, <1>8, <1>9, <1>10 DEF Run
\* A status that is SUCCESS stays so, and a future is set by its own job.
LEMMA PoolInv ==
  ASSUME IInv, NEW s \in Steps, Pool(s) \/ PeerEnds(s)
  PROVE  IInv'
<1>1. CASE JobStarts(s)
  BY <1>1 DEF JobStarts, IInv, TypeOK, DiskInv, DepsFirst, PlaceInv, OnePlace, argVars, sets
<1>2. CASE JobSucceeds(s)
  BY <1>2 DEF JobSucceeds, IInv, TypeOK, DiskInv, DepsFirst, PlaceInv, OnePlace, argVars, sets
<1>3. CASE JobFails(s)
  BY <1>3 DEF JobFails, IInv, TypeOK, DiskInv, DepsFirst, PlaceInv, OnePlace, argVars, sets
<1>4. CASE PeerEnds(s)
  BY <1>4 DEF PeerEnds, IInv, TypeOK, DiskInv, DepsFirst, PlaceInv, OnePlace, argVars, sets
<1> QED  BY <1>1, <1>2, <1>3, <1>4 DEF Pool

LEMMA StepInv == IInv /\ [Next]_vars => IInv'
<1> SUFFICES ASSUME IInv, [Next]_vars PROVE IInv'
  OBVIOUS
<1>1. CASE UNCHANGED vars
  BY <1>1 DEF vars, argVars, sets, IInv, TypeOK, DiskInv, DepsFirst, PlaceInv, OnePlace
<1>2. CASE Next
  BY <1>2, RunInv, PoolInv DEF Next
<1> QED  BY <1>1, <1>2

LEMMA InvCorrect == Spec => []IInv
  BY InitInv, StepInv, PTL DEF Spec

\* Every variable holds a value of its kind.
THEOREM RunnerTypeCorrect == Spec => []TypeOK
<1>1. IInv => TypeOK
  BY DEF IInv
<1> QED  BY InvCorrect, <1>1, PTL

\* A step is given to the pool only after the status files of all its dependencies say
\* SUCCESS, for every graph of steps.
THEOREM RunnerDepsFirst == Spec => []DepsFirst
<1>1. IInv => DepsFirst
  BY DEF IInv
<1> QED  BY InvCorrect, <1>1, PTL

\* A step is in one of the runner's sets at a time: it is launched once.
THEOREM RunnerOnePlace == Spec => []OnePlace
<1>1. IInv => OnePlace
  BY DEF IInv
<1> QED  BY InvCorrect, <1>1, PTL

-----------------------------------------------------------------------------
(* Every step is accounted for                                             *)

\* A failed step has a reason, and the first one had a reason of its own.
CauseInv ==
  /\ FailedForCause
  /\ failures \subseteq failed
  /\ failed # {} => failures # {}

\* The iterable has ended and run drains what is left.
Draining ==
  \/ main \in {"drain", "returned", "raised"}
  \/ main \in {"harvest", "flush"} /\ current = NoStep

\* A step the loop has passed is in one of the sets until run raises out of the loop,
\* and the loop of the drain starts after the last step.
PassedInv ==
  /\ main \in {"pull", "drain", "returned", "raised"} => current = NoStep
  /\ main # "aborted" => scheduled \ {current} \subseteq completed \cup failed \cup running \cup waiting
  /\ Draining => scheduled = Steps
  /\ main \in {"returned", "raised"} =>
       running \cup waiting = {} /\ (main = "raised" <=> failures # {})

AInv == IInv /\ CauseInv /\ PassedInv

LEMMA InitAccount == Init => AInv
<1>1. Init => CauseInv /\ PassedInv
  BY DEF Init, CauseInv, FailedForCause, PassedInv, Draining
<1> QED  BY <1>1, InitInv DEF AInv

\* A launch leaves the failed steps and their futures as they are.
LEMMA LaunchCause ==
  ASSUME IInv, CauseInv, NEW s \in Steps, s \notin failed, UNCHANGED <<failed, failures>>,
         LaunchSkips(s) \/ LaunchSubmits(s) \/ LaunchRaises(s)
  PROVE  CauseInv'
<1>1. \A r \in failed : job[r] = "error" => job'[r] = "error"
  BY DEF LaunchSkips, LaunchSubmits, LaunchRaises, IInv, TypeOK
<1> QED  BY <1>1 DEF CauseInv, FailedForCause

\* Every statement of the runner's thread keeps the reasons.
LEMMA RunCause == ASSUME IInv, CauseInv, Run PROVE CauseInv'
<1>1. CASE IterableEnds \/ FlushEnds \/ Drain
  BY <1>1 DEF IterableEnds, FlushEnds, Drain, CauseInv, FailedForCause, sets
<1>2. CASE Harvest
  BY <1>2 DEF Harvest, CauseInv, FailedForCause
<1>3. ASSUME NEW s \in Steps, Pulls(s) \/ PlaceWaits(s) PROVE CauseInv'
  BY <1>3 DEF Pulls, PlaceWaits, CauseInv, FailedForCause
<1>4. ASSUME NEW s \in Steps, FlushFails(s) \/ PlaceFails(s) PROVE CauseInv'
  BY <1>4 DEF FlushFails, PlaceFails, DepFailed, CauseInv, FailedForCause
<1>5. ASSUME NEW s \in Steps, FlushLaunches(s) \/ PlaceLaunches(s) PROVE CauseInv'
  <2>1. /\ s \notin failed /\ UNCHANGED <<failed, failures>>
        /\ LaunchSkips(s) \/ LaunchSubmits(s) \/ LaunchRaises(s)
    BY <1>5 DEF FlushLaunches, PlaceLaunches, IInv, OnePlace, PlaceInv
  <2> QED  BY <2>1, LaunchCause
<1> QED  BY <1>1, <1>2, <1>3, <1>4, <1>5 DEF Run

\* A step leaves one of the sets for another, and the loop leaves a step for a set.
LEMMA RunPassed == ASSUME IInv, CauseInv, PassedInv, Run PROVE PassedInv'
<1> USE RunnerAssumption
<1>1. CASE IterableEnds
  BY <1>1 DEF IterableEnds, PassedInv, Draining, sets
<1>2. CASE Harvest
  <2>1. PICK done \in SUBSET Finished :
          /\ running' = running \ done
          /\ completed' = completed \cup {s \in done : job[s] = "ok"}
          /\ failed' = failed \cup {s \in done : job[s] = "error"}
    BY <1>2 DEF Harvest
  <2>2. done \subseteq {s \in done : job[s] = "ok"} \cup {s \in done : job[s] = "error"}
    BY DEF Finished
  <2>3. /\ main = "harvest" /\ main' = "flush"
        /\ UNCHANGED <<scheduled, waiting, current>>
    BY <1>2 DEF Harvest
  <2> QED  BY <2>1, <2>2, <2>3 DEF PassedInv, Draining
<1>3. CASE FlushEnds
  BY <1>3 DEF FlushEnds, PassedInv, Draining, sets
<1>4. CASE Drain
  BY <1>4 DEF Drain, PassedInv, Draining, sets
<1>5. ASSUME NEW s \in Steps, Pulls(s) PROVE PassedInv'
  BY <1>5 DEF Pulls, PassedInv, Draining, IInv, TypeOK
<1>6. ASSUME NEW s \in Steps, FlushFails(s) PROVE PassedInv'
  BY <1>6 DEF FlushFails, PassedInv, Draining
<1>7. ASSUME NEW s \in Steps, FlushLaunches(s) PROVE PassedInv'
  <2>1. /\ main = "flush" /\ waiting' = waiting \ {s}
        /\ UNCHANGED <<scheduled, failed, failures, current>>
    BY <1>7 DEF FlushLaunches
  <2>2. CASE LaunchRaises(s)
    BY <2>1, <2>2 DEF LaunchRaises, PassedInv, Draining
  <2>3. CASE (LaunchSkips(s) \/ LaunchSubmits(s)) /\ UNCHANGED main
    <3>1. completed \cup running \cup {s} = completed' \cup running'
      BY <2>3 DEF LaunchSkips, LaunchSubmits
    <3> QED  BY <2>1, <2>3, <3>1 DEF PassedInv, Draining
  <2> QED  BY <1>7, <2>2, <2>3 DEF FlushLaunches
<1>8. ASSUME NEW s \in Steps, PlaceFails(s) \/ PlaceWaits(s) PROVE PassedInv'
  BY <1>8 DEF PlaceFails, PlaceWaits, PassedInv, Draining
<1>9. ASSUME NEW s \in Steps, PlaceLaunches(s) PROVE PassedInv'
  <2>1. /\ main = "place" /\ current = s /\ current' = NoStep
        /\ UNCHANGED <<scheduled, failed, failures, waiting>>
    BY <1>9 DEF PlaceLaunches
  <2>2. CASE LaunchRaises(s)
    BY <2>1, <2>2 DEF LaunchRaises, PassedInv, Draining
  <2>3. CASE (LaunchSkips(s) \/ LaunchSubmits(s)) /\ main' = "pull"
    <3>1. completed \cup running \cup {s} = completed' \cup running'
      BY <2>3 DEF LaunchSkips, LaunchSubmits
    <3> QED  BY <2>1, <2>3, <3>1 DEF PassedInv, Draining
  <2> QED  BY <1>9, <2>2, <2>3 DEF PlaceLaunches
<1> QED  BY <1>1, <1>2, <1>3, <1>4, <1>5, <1>6, <1>7, <1>8, <1>9 DEF Run

\* A future ends once: a job that has raised stays so.
LEMMA PoolAccount ==
  ASSUME IInv, CauseInv, PassedInv, NEW s \in Steps, Pool(s) \/ PeerEnds(s)
  PROVE  CauseInv' /\ PassedInv'
<1>1. /\ UNCHANGED <<sets, main, current>>
      /\ \A r \in failed : job[r] = "error" => job'[r] = "error"
  BY DEF Pool, JobStarts, JobSucceeds, JobFails, PeerEnds, IInv, TypeOK
<1> QED  BY <1>1 DEF CauseInv, FailedForCause, PassedInv, Draining, sets

LEMMA StepAccount == AInv /\ [Next]_vars => AInv'
<1> SUFFICES ASSUME AInv, [Next]_vars PROVE AInv'
  OBVIOUS
<1>1. IInv'
  BY StepInv DEF AInv
<1>2. CASE UNCHANGED vars
  BY <1>1, <1>2 DEF vars, sets, AInv, CauseInv, FailedForCause, PassedInv, Draining
<1>3. CASE Next
  BY <1>1, <1>3, RunCause, RunPassed, PoolAccount DEF Next, AInv
<1> QED  BY <1>2, <1>3

LEMMA AccountCorrect == Spec => []AInv
  BY InitAccount, StepAccount, PTL DEF Spec

\* A step fails because its job raised or because a dependency failed, whatever the
\* graph, the order in which jobs end and what other executors do to the status files.
THEOREM RunnerFailedForCause == Spec => []FailedForCause
<1>1. AInv => FailedForCause
  BY DEF AInv, CauseInv
<1> QED  BY AccountCorrect, <1>1, PTL

\* When run ends by itself every step has completed or failed, and it raises exactly
\* when one has failed.
THEOREM RunnerAccounted == Spec => []Accounted
<1>1. ASSUME AInv, main \in {"returned", "raised"}
      PROVE  completed \cup failed = Steps /\ (main = "raised" <=> failed # {})
  <2>1. Steps \subseteq completed \cup failed
    BY <1>1, RunnerAssumption DEF AInv, PassedInv, Draining
  <2>2. completed \cup failed \subseteq Steps
    BY <1>1 DEF AInv, IInv, TypeOK
  <2>3. main = "raised" <=> failed # {}
    BY <1>1 DEF AInv, PassedInv, CauseInv
  <2> QED  BY <2>1, <2>2, <2>3
<1>2. AInv => Accounted
  BY <1>1 DEF Accounted
<1> QED  BY AccountCorrect, <1>2, PTL
=============================================================================
