SPECIFICATION DaemonSpec
CONSTANTS
  Sessions = {s1, s2}
  NoSession = NoSession
  MaxGeneration = 5
  Files = {s2}
  LiveSessions = {s1}
  TimedSessions = {s1}
  Stops = {t1}
  Cancels = {c1}
  Faults <- AllFaults
  Overlapping = TRUE
  MaxDeltas = 1
INVARIANTS
  ResultsNotCancelled
  AnsweredOnce
  
CHECK_DEADLOCK FALSE
