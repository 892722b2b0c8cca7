SPECIFICATION Spec
CONSTANTS
  Data = {d1}
  NoData = NoData
  MaxEpoch = 2
  MaxSend <- ClientSendsMore
  MaxInFlight = 1
  Lossy = TRUE
  HandsOff = FALSE
INVARIANTS
  UnackWindow
  NothingForgotten
  WatchdogArmed
PROPERTY ChannelSpec
CHECK_DEADLOCK FALSE
