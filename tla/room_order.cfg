CONSTANTS
  r1 = r1
  s1 = s1
  s2 = s2
  w1 = w1
  hello = hello
  empty = empty
  other = other
  io_thread = io_thread
  none = none
  Rooms <- OneRoom
  Sessions <- TwoSessions
  RoomOf <- AllInOneRoom
  Workers <- OneWorker
  Messages <- ThreeMessages
  Testers <- TesterMessages
  Parsable <- ParsableMessages
  BodyLen <- BodyLens
  MaxSends = 2
  Io <- io_thread
  None <- none
SYMMETRY Symmetry
SPECIFICATION Spec
CHECK_DEADLOCK FALSE
INVARIANT TypeOK
INVARIANT SameOrderForAll
INVARIANT AnsweredOnceInOrder
INVARIANT ReadsStayFramed
INVARIANT IoNeverBlocksParser
PROPERTY ImplementsOrderedBroadcast
