SPECIFICATION Spec
CONSTANTS
  MaxRows = 2
  MaxDay = 2
  MaxCrashes = 1
  Retentions = {0, 1}
  AudioDays = 1
  FtsBuilds = {TRUE, FALSE}
INVARIANT RowHasFile
 
INVARIANT SearchFindsTable
PROPERTY DeletedStaysDeleted
CHECK_DEADLOCK FALSE
