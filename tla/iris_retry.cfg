CONSTANTS
  Tasks = {t1}
  Workers = {w1, w2}
  NoWorker = NoWorker
  Gang = FALSE
  MaxRetriesFailure = 1
  MaxRetriesPreemption = 0
  MaxTaskFailures = 0
  SliceOf <- OwnSlice
  MinUnreachable = 1
  BuildThreshold = 1
  Faults = {"lost", "late", "sick", "fails", "restart", "preempt", "expire", "cancel", "crash"}
  MaxFaults = 2
SPECIFICATION FairSpec
INVARIANT TypeOK
INVARIANT Agree
INVARIANT OneSlot
INVARIANT JobSettled
INVARIANT ChargedOnce
PROPERTY EndsAreFinal
PROPERTY CurrentSlotReturns
PROPERTY JobStops
