CONSTANTS
  junk = junk
  MaxSends = 3
  MaxReplies = 2
  Junk <- junk
  Endpoints = 2
  MaxPassword <- TwoBlocksAndMore
  AnswerLen = 2
  BlockSize = 5
  Word = 16
SPECIFICATION BuildSpec
CHECK_DEADLOCK FALSE
INVARIANT TypeOK
INVARIANT PacketsFormOneRun
INVARIANT IoOutlivesConnection
INVARIANT HashIsOfPassword
INVARIANT AnswerIsFromServer
PROPERTY EndIsTheEnd
