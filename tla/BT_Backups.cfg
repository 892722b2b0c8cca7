SPECIFICATION FairSpec
CONSTANTS
  MaxContents = 3
  MaxSessions = 2
  MaxShutdowns = 2
  MaxFailures = 1
INVARIANTS
  BackupIsCurrent
  BackupsMatch
  ShutdownKeepsContents
PROPERTY EventuallyBackedUp
CHECK_DEADLOCK FALSE
