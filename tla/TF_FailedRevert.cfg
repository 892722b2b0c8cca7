SPECIFICATION Spec
CONSTANTS
  Lengths = 2
  MaxVersions = 2
  MaxChanges = 0
  MaxSaves = 1
  MaxReverts = 1
  FailingReads = {"reload", "revert"}
  FailingWrites = FALSE
INVARIANTS CleanIsSaved
CHECK_DEADLOCK FALSE
