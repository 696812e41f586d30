CONSTANTS
  Slots = {w1, w2}
  NoTask = NoTask
  NumStages = 1
  NumShards = 2
  MaxShardFailures = 1
  MaxShardInfraFailures = 2
  MaxIncarnations = 2
  LossyCalls <- ButResults
  Faults <- FaultKinds
  MaxFaults = 1
SPECIFICATION Spec
INVARIANT DispatchExclusive
PROPERTY FirstResultWins
SYMMETRY SlotSymmetry
CHECK_DEADLOCK FALSE
