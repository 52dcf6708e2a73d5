CONSTANTS
  s1 = s1
  d1 = d1
  w1 = w1
  c1 = c1
  NoSession = NoSession
  Sessions = {s1}
  Deliveries = {d1}
  Workers = {w1}
  Callers = {c1}
  AuditLimit = 1
  MaxQueue = 1
  Faults = {"read", "mongo", "commit", "crash", "reopen"}
  MaxFaults = 2
SPECIFICATION Spec
INVARIANT PaymentTracked
INVARIANT RefundedOncePerProcessor
CHECK_DEADLOCK FALSE
