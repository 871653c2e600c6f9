CONSTANTS
  s1 = s1
  s2 = s2
  None = None
  Sessions <- MCSessions
  MaxChanges = 5
SPECIFICATION Spec
CHECK_DEADLOCK FALSE
INVARIANT ResetWhenGone
PROPERTIES ConnectionFollows CopyFollows
