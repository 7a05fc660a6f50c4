SPECIFICATION Spec
CONSTANTS
  p1 = p1
  p2 = p2
  p3 = p3
  a1 = a1
  a2 = a2
  a3 = a3
  hem = hem
  NoPeer = NoPeer
  Torn = Torn
  Peers = {p1, p2, p3}
  Order <- MCThree
  Addrs = {a1, a2, a3, hem}
  Endpoint <- MCEndpoint
  Covers <- MCWide
  HEM = hem
  PreRoutes = {}
  Polls = 2
  MaxMoves = 3
CHECK_DEADLOCK FALSE
INVARIANTS
  LeavesNothing
  PSKsAccounted
  EndpointOutside
  SettledOnPeer
  StateNamesPeer
  OneTurnEach
PROPERTIES
  DownMeansDown
  GivesUpAfterAll
  EndsWhenAsked
  SettlesOrEnds
