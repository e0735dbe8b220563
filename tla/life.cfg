CONSTANTS
  s1 = s1
  s2 = s2
  w1 = w1
  b1 = b1
  b2 = b2
  junk = junk
  none = none
  Sessions <- TwoSessions
  Workers <- OneWorker
  Blocks <- TwoBlocks
  MaxRounds = 2
  Junk <- junk
  None <- none
SPECIFICATION FairSpec
CHECK_DEADLOCK FALSE
INVARIANT TypeOK
INVARIANT PromptBytesAreRight
INVARIANT HandlersHaveTheirObjects
INVARIANT CleanEndUnlessKept
PROPERTY ServerEnds
