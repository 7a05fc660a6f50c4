SPECIFICATION Safety
CONSTANTS
  p1 = p1
  p2 = p2
  p3 = p3
  a1 = a1
  a2 = a2
  a3 = a3
  hem = hem
  NoPeer = NoPeer
  Torn = Torn
  Peers = {p1, p2}
  Order <- MCTwo
  Addrs = {a1, a2, hem}
  Endpoint <- MCEndpointTwo
  Covers <- MCNarrow
  HEM = hem
  PreRoutes = {}
  Polls = 2
  MaxMoves = 0
CHECK_DEADLOCK FALSE
INVARIANTS
  AwaitedOutside
