CONSTANTS
  s1 = s1
  d1 = d1
  w1 = w1
  c1 = c1
  NoSession = NoSession
  Sessions = {s1}
  Deliveries = {d1}
  Workers = {w1}
  Callers = {c1}
  AuditLimit = 1
  MaxQueue = 1
  Faults = {}
  MaxFaults = 0
SPECIFICATION Spec
INVARIANT CountedOnce
CHECK_DEADLOCK FALSE
