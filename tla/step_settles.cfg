CONSTANTS
  Workers = {w1, w2}
  NoLease = NoLease
  Backend = "gcs"
  ForceRunFailed = FALSE
  Faults = {"crash", "error", "resent", "beat", "unsure", "pause"}
  MaxFaults = 2
SPECIFICATION FairSpec
PROPERTY FreshNotOverwritten
PROPERTY AllSettle
CHECK_DEADLOCK FALSE
