SPECIFICATION Spec
CONSTANTS
  LevelTargets <- Wide
  MaxSegmentsPerLevel = 2
  MaxSeq = 5
  MaxLocal = 9
  AgeTrim = FALSE
  Faults <- AllFaults
  MaxFaults = 1
  MaxCrashes = 1
  MaxLosses = 0
INVARIANT TypeOK
INVARIANT AckedReachable
PROPERTY FreshSeqs
PROPERTY TailMonotone
