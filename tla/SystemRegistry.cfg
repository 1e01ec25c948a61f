SPECIFICATION FairSpec
CONSTANTS
  c1 = c1
  c2 = c2
  c3 = c3
  p1 = p1
  p2 = p2
  None = None
  Callers = {c1, c2, c3}
  Outside = {c2}
  Paths = {p1, p2}
  MaxCalls = 3
INVARIANTS
  TypeOK
  Registered
  DropWaits
PROPERTY DropStopsAll
CHECK_DEADLOCK FALSE
