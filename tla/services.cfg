CONSTANTS
  h1 = h1
  h2 = h2
  p1 = p1
  t1 = t1
  Nothing = Nothing
  Handlers = {h1, h2}
  PoolSize = 3
  Payments = {p1}
  Tickets = {t1}
  Charges <- MCCharges
  Faults = {"sql", "mongo", "redis", "file", "restart"}
  MaxFaults = 1
  MaxRequests = 2
  MaxWork = 3
  MaxJobs = 1
SPECIFICATION FairSpec
 
INVARIANT WalletSound
INVARIANT PlansAsPaid
INVARIANT PurchaseAccounted
INVARIANT IssuedOnceUnlessRaced
PROPERTY ImplementsAccounts
PROPERTY PurchaseDelivered
CHECK_DEADLOCK FALSE
