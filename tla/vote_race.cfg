CONSTANTS
  s1 = s1
  s2 = s2
  d1 = d1
  w1 = w1
  w2 = w2
  NoSession = NoSession
  Sessions = {s1, s2}
  Deliveries = {d1}
  Workers = {w1, w2}
  Callers = {}
  AuditLimit = 1
  MaxQueue = 1
  Faults = {}
  MaxFaults = 0
SPECIFICATION Spec
SYMMETRY Symmetry
INVARIANT TypeOK
INVARIANT CountedOncePerProcessor
INVARIANT LedgerMatchesVotes
INVARIANT PaymentTracked
PROPERTY ImplementsSettlement
CHECK_DEADLOCK FALSE
