---------------------------- MODULE ZephyrStages ----------------------------
(***************************************************************************)
(* What a Zephyr pipeline promises to the caller of run_pipeline: its      *)
(* stages are sequential barriers.  A stage begins when every shard of the *)
(* stage before is done, the pipeline finishes when every shard of its     *)
(* last stage is done, and it ends, if only with an error.                 *)
(***************************************************************************)
EXTENDS Naturals

CONSTANTS Shards, NumStages

VARIABLES
  stage,     \* the stage that has begun last, 0 before the first one
  done,      \* the shards of that stage that have a result
  outcome    \* "running", "finished" or "failed"

vars == <<stage, done, outcome>>

Init == stage = 0 /\ done = {} /\ outcome = "running"

Begin ==
  /\ outcome = "running" /\ stage < NumStages
  /\ stage = 0 \/ done = Shards
  /\ stage' = stage + 1
  /\ done' = {}
  /\ UNCHANGED outcome

\* A shard may still be computed after the pipeline has failed.
Compute(s) ==
  /\ stage > 0 /\ s \notin done
  /\ done' = done \cup {s}
  /\ UNCHANGED <<stage, outcome>>

Finish ==
  /\ outcome = "running" /\ stage = NumStages /\ done = Shards
  /\ outcome' = "finished"
  /\ UNCHANGED <<stage, done>>

Fail ==
  /\ outcome = "running"
  /\ outcome' = "failed"
  /\ UNCHANGED <<stage, done>>

Next == Begin \/ Finish \/ Fail \/ \E s \in Shards : Compute(s)

Safety == Init /\ [][Next]_vars

Spec == Safety /\ <>(outcome # "running")
=============================================================================
