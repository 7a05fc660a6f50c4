SPECIFICATION Spec
CONSTANTS
  Ids = {i1, i2}
  Peers = {p1, p2}
  Settings = {s1, s2}
  Nobody = Nobody
  Absent = Absent
  Alien = Alien
  Procs = {w1, w2}
  MaxPeers = 2
  MaxCommands = 3
  MaxAtOnce = 2
SYMMETRY Alike
CHECK_DEADLOCK FALSE
INVARIANTS
  FinishedLoads
  PSKUnwraps
  NoNamelessKey
PROPERTIES
  PlacingHarmsNobody
  NothingLaundered
