SPECIFICATION Spec
CONSTANTS
  MaxRequests = 1
  SleepRounds = 2
CHECK_DEADLOCK FALSE
INVARIANT ObjectsOutliveThreads
INVARIANT ArgumentsOutliveStart
INVARIANT NothingProcessedIsLost
INVARIANT MainInv
PROPERTY Exits
