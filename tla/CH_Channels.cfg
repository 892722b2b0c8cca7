SPECIFICATION Spec
CONSTANTS
  Calls = {"p"}
  Listens = {"l"}
  MaxListens = 3
INVARIANTS
  RunOnce
  ServerFollows
  AnswerUnderWay
PROPERTIES
  CallsEnd
CHECK_DEADLOCK FALSE
