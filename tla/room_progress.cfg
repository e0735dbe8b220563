CONSTANTS
  r1 = r1
  s1 = s1
  s2 = s2
  w1 = w1
  hello = hello
  empty = empty
  other = other
  io_thread = io_thread
  none = none
  Rooms <- OneRoom
  Sessions <- TwoSessions
  RoomOf <- AllInOneRoom
  Workers <- OneWorker
  Messages <- TwoMessages
  Testers <- TesterMessages
  Parsable <- ParsableMessages
  BodyLen <- BodyLens
  MaxSends = 1
  Io <- io_thread
  None <- none
SPECIFICATION FairSpec
CHECK_DEADLOCK FALSE
PROPERTY ConnectionsJoin
PROPERTY PacketsAnswered
PROPERTY KeepsBroadcastPromise
PROPERTY ReadsEnd
