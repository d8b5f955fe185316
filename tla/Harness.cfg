CONSTANTS
  Server = {0, 1}
  MaxTerm = 2
  MaxLogIndex = 2
  SnapShotInterval = 1
  MaxRestarts = 1
  Expected = 1
  MaxTries = 1
SPECIFICATION Spec
CHECK_DEADLOCK FALSE
INVARIANT TypeOK
INVARIANT HeldIsChosen
INVARIANT NoFalseAlarm
INVARIANT OrderFailures
INVARIANT OneTellsTruth
