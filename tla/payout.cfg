CONSTANTS
  c1 = c1
  w1 = w1
  a1 = a1
  r1 = r1
  s1 = s1
  s2 = s2
  s3 = s3
  Null = Null
  Nobody = Nobody
  Records = {r1}
  Refunds = {s1, s2}
  Workers = {w1}
  Admins = {a1}
  RefundCron = c1
  Callers <- MCCallers
  RefundAmount <- MCRefundAmount
  Refused = {s2}
  Amounts = {1}
  Threshold = 2
  MaxEarned = 1
  MaxQueue = 1
  MaxTransfers = 2
  MaxBusy = 2
  MaxVerified = 1
  Faults = {"call", "record", "crash"}
  MaxFaults = 1
SPECIFICATION FairSpec
INVARIANT TypeOK
INVARIANT EveryTransferAccounted
INVARIANT RefundedOnceUnlessDropped
INVARIANT BooksBalance
INVARIANT OverpaidOnlyByOverlap
INVARIANT OpenedByFailures
PROPERTY ImplementsLedger
PROPERTY RefundsArePaid
CHECK_DEADLOCK FALSE
