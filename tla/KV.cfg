CONSTANTS
  c1 = c1
  c2 = c2
  Server = {0,1}
  Clerk = {c1,c2}
  Script <- WriterAndReader
  MaxTerm = 2
  MaxLogIndex = 2
  MaxTries <- WriterRetries
  MaxSnapshots = 0
  MaxRestarts = 0
SPECIFICATION Spec
CHECK_DEADLOCK FALSE
INVARIANT NotifyNeverBlocks
PROPERTY ImplementsAtomicKV
