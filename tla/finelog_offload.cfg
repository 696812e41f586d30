SPECIFICATION FairSpec
CONSTANTS
  LevelTargets <- Targets
  MaxSegmentsPerLevel = 3
  MaxSeq = 4
  MaxLocal = 1
  AgeTrim = TRUE
  Faults <- OffloadFaults
  MaxFaults = 1
  MaxCrashes = 0
  MaxLosses = 1
INVARIANT AckedDurable
INVARIANT ReadSafe
INVARIANT SeenOnce
INVARIANT ArchivedHeld
PROPERTY FreshSeqs
PROPERTY ArchiveGrows
PROPERTY EventuallyAcked
PROPERTY CycleEnds
