CONSTANTS
  t1 = t1
  t2 = t2
  none = none
  Threads <- TwoThreads
  Levels <- OneLevel
  QueueMax = 1
  MaxCalls = 2
  None <- none
SPECIFICATION Spec
CHECK_DEADLOCK FALSE
INVARIANT LevelIsLogged
