SPECIFICATION FairSpec
CONSTANTS
  Keys = {k1, k2}
  Values = {v1}
  Unset = Unset
  MaxChanges = 3
  MaxSessions = 2
  MayFail = TRUE
INVARIANTS
  NothingLost
  FlushIsDurable
PROPERTIES
  WriteBehindSpec
  EventuallyWritten
  WhenFlushedReturns
  HealthyCloseReachesDatabase
CHECK_DEADLOCK FALSE
