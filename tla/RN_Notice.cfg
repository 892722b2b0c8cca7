SPECIFICATION NoticeSpec
CONSTANTS
  Windows = {w1, w2}
  Keys <- NoticeKeys
  Values <- Numbers
  Unset = Unset
  MaxQueue = 2
  CheckInterval = 2
  MaxTime = 3
  MaxRelease = 2
INVARIANTS
  CheckedToday
PROPERTIES
  OnceADayEach
  DismissedStays
SYMMETRY Symmetric
CHECK_DEADLOCK FALSE
