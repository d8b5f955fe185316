CONSTANTS
  Builds = {"lab2B", "lab2CD"}
  h1 = h1
  Heartbeats = {h1}
  MaxTerm = 3
  MaxLogIndex = 2
  MaxOldLog = 1
  MaxSnapshotIndex = 1
SPECIFICATION FairSpec
CHECK_DEADLOCK FALSE
INVARIANT TypeOK
INVARIANT CommitsAgree
INVARIANT CommitHasMajority
INVARIANT PanicsOnlyOnFirstConflict
PROPERTY CatchesUpBehindLeader
PROPERTY KilledGoesQuiet
