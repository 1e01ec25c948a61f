SPECIFICATION Spec
CONSTANTS
  c1 = c1
  c2 = c2
  c3 = c3
  k1 = k1
  k2 = k2
  t1 = t1
  t2 = t2
  NoMessage = NoMessage
  Calls = {c1, c2}
  Children = {}
  ChildName <- MCChildName
  Tasks = {t1, t2}
  Throughput = 1
  Capacity = 0
  Unwinding = FALSE
CHECK_DEADLOCK FALSE
INVARIANT NoStalledUnstash
