CONSTANTS
  w1 = w1
  w2 = w2
  w3 = w3
  c1 = c1
  c2 = c2
  t1 = t1
  t2 = t2
  t3 = t3
  owner = owner
  none = none
  Workers <- ThreeWorkers
  Callers <- TwoCallers
  Owner <- owner
  Tasks <- ThreeTasks
  None <- none
SPECIFICATION FairSpec
CHECK_DEADLOCK FALSE
INVARIANT TypeOK
INVARIANT StartedInOrder
INVARIANT RunOnce
INVARIANT DrainedAtJoin
INVARIANT NoStrandedTask
INVARIANT NoSleepThroughStop
PROPERTY ImplementsTaskPool
PROPERTY KeepsTaskPoolPromise
