SPECIFICATION Spec
CONSTANTS
  Extensions <- MCExtensions
  Events <- MCEvents
  Dependencies <- MCDependencies
  ActivatedBy <- MCActivatedBy
  Idle = Idle
  MaxVersions = 2
  MaxQueue = 1
  MaxCrashes = 1
INVARIANTS DependenciesFirst RunningIsKnown NoneHangs
PROPERTY ActivatedInTheEnd
CHECK_DEADLOCK FALSE
