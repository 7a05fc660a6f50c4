SPECIFICATION Spec
CONSTANTS
  p1 = p1
  p2 = p2
  d1 = d1
  d2 = d2
  None = None
  Procs = {p1, p2}
  Downs = {d1, d2}
  Kinds <- MCKinds
CHECK_DEADLOCK FALSE
INVARIANTS
  EndsClean
  SaysDownIsDown

  
