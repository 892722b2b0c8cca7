SPECIFICATION FairSpec
CONSTANTS
  Lengths = 2
  MaxVersions = 2
  MaxChanges = 1
  MaxSaves = 2
  MaxReverts = 1
  FailingReads = {"reload"}
  FailingWrites = TRUE
INVARIANTS CleanIsSaved SingleSave NothingOverwrittenUnseen
PROPERTIES ReloadKeepsEdits SavesEnd ReloadShowsFile
CHECK_DEADLOCK FALSE
