CONSTANTS
  Workers = {w1, w2, w3}
  NoLease = NoLease
  Backend = "s3"
  ForceRunFailed = TRUE
  Faults = {"crash", "error", "resent"}
  MaxFaults = 2
SPECIFICATION Spec
INVARIANT TypeOK
INVARIANT MutualExclusion
INVARIANT RunnersStayActive
PROPERTY RunsOnce
SYMMETRY WorkerSymmetry
CHECK_DEADLOCK FALSE
