\* Two pairs, one of them reused: batches in which one event closes what another
\* points to, and in which `break' drops the events of a pair that goes on.
CONSTANTS
  pair1 = pair1
  pair2 = pair2
  Listen = Listen
  NoEvent = NoEvent
  Pairs = {pair1, pair2}
  MaxEvents = 2
  BufSize = 2
  SockRoom = 1
  MaxUnits = 2
  MaxConnects = 2
  MaxTalkers = 1
  MaxClosers = 1
SPECIFICATION FairSpec
INVARIANTS
  NoUseAfterFree
  ClosedQueueSound
PROPERTY DataMoves
CHECK_DEADLOCK FALSE
