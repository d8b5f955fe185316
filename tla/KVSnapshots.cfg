CONSTANTS
  c1 = c1
  c2 = c2
  Server = {0,1}
  Clerk = {c1}
  Script <- JustWrite
  MaxTerm = 2
  MaxLogIndex = 2
  MaxTries <- WriterRetries
  MaxSnapshots = 2
  MaxRestarts = 1
SPECIFICATION Spec
CHECK_DEADLOCK FALSE
INVARIANT TypeOK
INVARIANT ReplicasAgree
INVARIANT BatchInLog
