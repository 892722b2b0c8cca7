SPECIFICATION FairSpec
CONSTANTS
  Windows = {w1, w2}
  Keys = {k1}
  Values = {v1, v2}
  Unset = Unset
  MaxQueue = 1
INVARIANTS
  NoneLeftBehind
PROPERTY EventuallyAgree
CHECK_DEADLOCK FALSE
