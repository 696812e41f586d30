CONSTANTS
  Tasks = {t1, t2}
  Workers = {w1, w2}
  NoWorker = NoWorker
  Gang = TRUE
  MaxRetriesFailure = 0
  MaxRetriesPreemption = 1
  MaxTaskFailures = 0
  SliceOf <- OneSlice
  MinUnreachable = 1
  BuildThreshold = 2
  Faults = {"lost", "preempt", "timeout", "expire"}
  MaxFaults = 2
SPECIFICATION Spec
INVARIANT JobSettled
INVARIANT GangTogether
SYMMETRY Symmetry
