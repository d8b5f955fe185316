CONSTANTS
  s1 = s1
  s2 = s2
  s3 = s3
  None = None
  Server = {s1,s2,s3}
  Candidates = {s1,s2,s3}
  MaxTerm = 2
  MaxLogIndex = 0
  MaxPerTerm = 0
  MaxSnapshotIndex = 0
  MaxInFlight = 3
  MaxRounds = 3
  MaxCrashes = 1
SPECIFICATION VSpec
SYMMETRY Symmetry
CHECK_DEADLOCK FALSE
INVARIANT TypeOK
INVARIANT ElectionSafety
INVARIANT OneVotePerTerm
INVARIANT LeaderHasMajority
PROPERTY VotesKept
