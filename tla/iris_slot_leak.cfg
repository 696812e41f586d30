CONSTANTS
  Tasks = {t1}
  Workers = {w1, w2}
  NoWorker = NoWorker
  Gang = FALSE
  MaxRetriesFailure = 1
  MaxRetriesPreemption = 1
  MaxTaskFailures = 0
  SliceOf <- OwnSlice
  MinUnreachable = 1
  BuildThreshold = 2
  Faults = {"preempt"}
  MaxFaults = 1
SPECIFICATION FairSpec
PROPERTY SlotReturns
