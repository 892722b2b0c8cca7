SPECIFICATION Spec
CONSTANTS
  Connections = {"management", "extensionHost"}
  Fatal = {"management"}
  MaxAttempts = 2
  MaxLosses = 3
INVARIANTS TimersOnlyWhileLost BothOnOneSocket NoneForgotten
PROPERTIES BackOrGivenUp ServerLetsGo
CHECK_DEADLOCK FALSE
