CONSTANTS
  s1 = s1
  d1 = d1
  w1 = w1
  NoSession = NoSession
  Sessions = {s1}
  Deliveries = {d1}
  Workers = {w1}
  Callers = {}
  AuditLimit = 1
  MaxQueue = 1
  Faults = {}
  MaxFaults = 0
SPECIFICATION Spec
INVARIANT CountedNotRefunded
CHECK_DEADLOCK FALSE
