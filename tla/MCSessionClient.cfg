CONSTANTS
  s1 = s1
  None = None
  Sessions <- MCSessions
  MaxChanges = 2
  MaxCalls = 2
SPECIFICATION ClientSpec
CHECK_DEADLOCK FALSE
INVARIANTS ClientTypeOK
PROPERTIES HintFollows FlagFollows ScreenAgrees LastLockWins LockRequestsSpec
