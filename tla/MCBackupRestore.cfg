SPECIFICATION FairSpec
CONSTANTS
  MaxRuns = 2
  MaxExecs = 2
  Restores = {q1}
  MaxCrashes = 1
  RetryLimit = 1
  Retention = 1
CHECK_DEADLOCK FALSE
INVARIANTS
  BackupSafe
PROPERTIES
  SlotFreedAfterCrash
