SPECIFICATION FairSpec
CONSTANTS
  Calls <- AllCalls
  MaxRequests = 4
  MaxPipe = 2
  MaxRecordings = 2
  MaxFrame = 2
CHECK_DEADLOCK FALSE
INVARIANT RunOnce
INVARIANT AnsweredBeforeQuit
 
 
 
