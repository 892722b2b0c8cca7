SPECIFICATION FairSpec
CONSTANTS
  Keys = {k1, k2}
  Values = {v1}
  Unset = Unset
  MaxChanges = 2
  MaxSessions = 1
  MayFail = TRUE
PROPERTIES
  CloseReachesDatabase
CHECK_DEADLOCK FALSE
