CONSTANTS
  m1 = m1
  m2 = m2
  r1 = r1
  r2 = r2
  s1 = s1
  s2 = s2
  nobody = nobody
  none = none
  Managers <- TwoManagers
  Rows <- TwoRows
  Sessions <- TwoSessions
  NoSession <- nobody
  Values <- TwoValues
  Created = 0
  MaxCalls = 2
  None <- none
SPECIFICATION Spec
CHECK_DEADLOCK FALSE
SYMMETRY Symmetry
INVARIANT LastUpdateStands
INVARIANT ReadsStandUntilUpdated
PROPERTY AnswerIsStored
