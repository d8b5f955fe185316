CONSTANTS
  s1 = s1
  s2 = s2
  None = None
  Server = {s1,s2}
  Candidates = {s1,s2}
  MaxTerm = 2
  MaxLogIndex = 2
  MaxPerTerm = 2
  MaxSnapshotIndex = 1
  MaxInFlight = 3
  MaxRounds = 2
  MaxCrashes = 1
SPECIFICATION Spec
SYMMETRY Symmetry
CHECK_DEADLOCK FALSE
INVARIANT AcksAreDurable
INVARIANT SnapshotMeetsLog
PROPERTY CommitsKept
