CONSTANTS
  s1 = s1
  s2 = s2
  s3 = s3
  None = None
  Server = {s1,s2,s3}
  Candidates = {s1,s2,s3}
  MaxTerm = 2
  MaxLogIndex = 1
  MaxPerTerm = 1
  MaxSnapshotIndex = 0
  MaxInFlight = 2
  MaxRounds = 2
  MaxCrashes = 1
SPECIFICATION CSpec
SYMMETRY Symmetry
CHECK_DEADLOCK FALSE
INVARIANT StateMachineSafety
