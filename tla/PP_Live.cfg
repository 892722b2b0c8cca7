SPECIFICATION FairSpec
CONSTANTS
  Data = {d1}
  NoData = NoData
  MaxEpoch = 2
  MaxSend <- ClientSendsTwo
  MaxInFlight = 1
  Lossy = FALSE
  HandsOff = TRUE
INVARIANTS
  GapFree
PROPERTIES
  EventuallyDelivered
CHECK_DEADLOCK FALSE
