SPECIFICATION Spec
CONSTANTS
  c1 = c1
  c2 = c2
  c3 = c3
  alice = alice
  bob = bob
  Anonymous = Anonymous
  NoConn = NoConn
  Conns = {c1, c2, c3}
  Principals = {alice, bob}
  Who <- MCWhoThree
  Traffic <- MCMixed
  MaxRequests = 2
  MaxBacklog = 1
  MaxRuns = 2
CHECK_DEADLOCK FALSE
INVARIANTS
  OneTunnel
  SessionAgrees
  NeverOrphaned
  OneReplyPerRequest
  StrangersGetNothing
PROPERTIES
  NoWindowNoTunnel
  ExclusiveSpec
  StoppedByOwnerOnly
