CONSTANTS
  w1 = w1
  w2 = w2
  Worker = {w1,w2}
  nMap = 3
  nReduce = 2
  MaxCrashes = 1
  MaxWriteErrors = 1
SPECIFICATION FairSpec
CHECK_DEADLOCK FALSE
INVARIANT TypeOK
INVARIANT FinishedIsWritten
INVARIANT InputsReady
PROPERTY ImplementsJob
PROPERTY JobEnds
