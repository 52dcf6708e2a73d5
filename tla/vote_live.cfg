CONSTANTS
  s1 = s1
  d1 = d1
  d2 = d2
  w1 = w1
  NoSession = NoSession
  Sessions = {s1}
  Deliveries = {d1, d2}
  Workers = {w1}
  Callers = {}
  AuditLimit = 1
  MaxQueue = 1
  Faults = {"webhook", "read", "mongo", "crash", "reopen"}
  MaxFaults = 1
SPECIFICATION FairSpec
INVARIANT CountedOnce
INVARIANT NoPaymentLost
PROPERTY PaidIsSettled
CHECK_DEADLOCK FALSE
