\* One pair, used twice, and longer streams: partial sends, full buffers, resets, refused connects.
CONSTANTS
  pair1 = pair1
  pair2 = pair2
  Listen = Listen
  NoEvent = NoEvent
  Pairs = {pair1}
  MaxEvents = 2
  BufSize = 2
  SockRoom = 1
  MaxUnits = 3
  MaxConnects = 2
  MaxTalkers = 2
  MaxClosers = 2
SPECIFICATION FairSpec
INVARIANTS
  TypeOK
  InterestMatchesBuffers
  StreamIntact
PROPERTIES
  RelaysStreams
CHECK_DEADLOCK FALSE
