SPECIFICATION StreamingSpec
CONSTANTS
  Speeches <- SomeSpeeches
  Courtesies = {"thanks"}
  MaxRecordings = 2
  TrimAfter = 2
  HardLimit = 3
  Near = 3
  Drivers = {"dictate", "file"}
  Ways = {"segment", "sentence"}
 
 
INVARIANT ProcessorOwned
CHECK_DEADLOCK FALSE
