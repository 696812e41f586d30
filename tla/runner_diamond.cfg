CONSTANTS
  source = source
  left = left
  right = right
  sink = sink
  NoStep = NoStep
  Steps = {source, left, right, sink}
  Deps <- Diamond
  MaxConcurrent = 2
SPECIFICATION FairSpec
INVARIANT TypeOK
INVARIANT DepsFirst
INVARIANT OnePlace
INVARIANT FailedForCause
INVARIANT Accounted
PROPERTY Drains
CHECK_DEADLOCK FALSE
