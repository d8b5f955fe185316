CONSTANTS
  Builds = {"lab2CD"}
  h1 = h1
  Heartbeats = {h1}
  MaxTerm = 3
  MaxLogIndex = 2
  MaxOldLog = 1
  MaxSnapshotIndex = 1
SPECIFICATION FairSpec
CHECK_DEADLOCK FALSE
PROPERTY CatchesUp
