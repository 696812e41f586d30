------------------------------ MODULE StepOnce ------------------------------
(***************************************************************************)
(* What the status file and the lease of a step promise together: one      *)
(* worker at a time runs the step's function, a step that has succeeded is *)
(* never run again, and only the worker that runs it ends it.              *)
(***************************************************************************)
CONSTANT Workers

VARIABLES
  status,   \* "none" | "RUNNING" | "SUCCESS" | "FAILED"
  running   \* the workers that run the function

Init == status = "none" /\ running = {}

Begin(w) ==
  /\ running = {}
  /\ status # "SUCCESS"
  /\ running' = {w}
  /\ status' = "RUNNING"

End(w) ==
  /\ running = {w}
  /\ running' = {}
  /\ status' \in {"SUCCESS", "FAILED"}

\* The worker dies, or cannot write the status: RUNNING stays.
Abandon(w) ==
  /\ running = {w}
  /\ running' = {}
  /\ UNCHANGED status

Next == \E w \in Workers : Begin(w) \/ End(w) \/ Abandon(w)

Spec == Init /\ [][Next]_<<status, running>>
=============================================================================
