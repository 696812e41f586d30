CONSTANTS
  Tasks = {t1, t2}
  Workers = {w1, w2}
  NoWorker = NoWorker
  Gang = TRUE
  MaxRetriesFailure = 0
  MaxRetriesPreemption = 1
  MaxTaskFailures = 0
  SliceOf <- OneSlice
  MinUnreachable = 1
  BuildThreshold = 2
  Faults = {"preempt"}
  MaxFaults = 1
SPECIFICATION Spec
PROPERTY PreemptSparesSiblings
SYMMETRY Symmetry
