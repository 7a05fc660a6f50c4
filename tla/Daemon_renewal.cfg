SPECIFICATION Safety
CONSTANTS
  c1 = c1
  c2 = c2
  c3 = c3
  alice = alice
  bob = bob
  Anonymous = Anonymous
  NoConn = NoConn
  Conns = {c1, c2}
  Principals = {alice, bob}
  Who <- MCWhoPair
  Traffic <- MCRenew
  MaxRequests = 2
  MaxBacklog = 1
  MaxRuns = 2
CHECK_DEADLOCK FALSE
INVARIANT
  RenewedByOwnerOnly
