CONSTANTS
  s1 = s1
  s2 = s2
  s3 = s3
  None = None
  Server = {s1,s2,s3}
  Candidates = {s1,s2}
  MaxTerm = 3
  MaxLogIndex = 2
  MaxPerTerm = 1
  MaxSnapshotIndex = 0
  MaxInFlight = 2
  MaxRounds = 1
  MaxCrashes = 0
SPECIFICATION CSpec
SYMMETRY Symmetry
CHECK_DEADLOCK FALSE
INVARIANT StateMachineSafety
INVARIANT ElectableHasCommitted
INVARIANT LogMatching
