CONSTANTS
  Slots = {w1, w2}
  NoTask = NoTask
  NumStages = 2
  NumShards = 2
  MaxShardFailures = 2
  MaxShardInfraFailures = 3
  MaxIncarnations = 1
  LossyCalls = {}
  Faults = {"slow"}
  MaxFaults = 1
SPECIFICATION Spec
INVARIANT StaleResultsRejected
SYMMETRY SlotSymmetry
CHECK_DEADLOCK FALSE
