SPECIFICATION FairSpec
CONSTANTS
  MaxSessions = 1
  MaxChunks = 1
  MaxCrashes = 0
  Gpu = FALSE
  LiveInsertion = TRUE
  Retain = TRUE
  QtClipboard = TRUE
  Faults = {}
CHECK_DEADLOCK FALSE
PROPERTY StopReturns
