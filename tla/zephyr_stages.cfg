CONSTANTS
  Slots = {w1, w2}
  NoTask = NoTask
  NumStages = 2
  NumShards = 2
  MaxShardFailures = 2
  MaxShardInfraFailures = 2
  MaxIncarnations = 2
  LossyCalls <- Idempotent
  Faults = {"crash", "lost"}
  MaxFaults = 1
SPECIFICATION FairSpec
INVARIANT TypeOK
INVARIANT NoShardLost
INVARIANT StageBarrier
PROPERTY SequentialStages
CHECK_DEADLOCK FALSE
