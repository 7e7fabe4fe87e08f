SPECIFICATION Spec
CONSTANTS
  Models = {"turbo", "small"}
  Legacy = "custom"
  MaxJobs = 2
  MaxFaults = 1
  MaxSelects = 2
INVARIANT MarkedIsWhole
INVARIANT SelectedStaysInstalled
INVARIANT CancelledNeverInstalls
INVARIANT RemovalIsAlone
INVARIANT ToldTheTruth
PROPERTY DownloadEnds
CHECK_DEADLOCK FALSE
