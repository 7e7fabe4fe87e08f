SPECIFICATION FairSpec
CONSTANTS
  MaxSessions = 2
  MaxChunks = 1
  MaxCrashes = 1
  Gpu = TRUE
  LiveInsertion = TRUE
  Retain = TRUE
  QtClipboard = FALSE
  Faults = {"build", "mic", "silence", "copy", "provider", "text", "retain", "database", "insert", "live"}
CHECK_DEADLOCK FALSE
 
INVARIANT OneDictation
 
PROPERTY KeepsContract
PROPERTY DictationEnds
