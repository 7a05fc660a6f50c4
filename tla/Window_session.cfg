SPECIFICATION Spec
CONSTANTS
  MaxConns = 2
  MaxMoves = 3
  EventCap = 1
  MaxQueue = 1
  Misses = 2
CHECK_DEADLOCK FALSE
PROPERTIES
  ConnIsRead
  EndFreesSession
  PulledOutEndsTunnel
  AskedToEndEnds
