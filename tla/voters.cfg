CONSTANTS
  q1 = q1
  q2 = q2
  x1 = x1
  x2 = x2
  Nobody = Nobody
  Requests = {q1, q2}
  Forms = {q2}
  Lines = {x1, x2}
  Email <- MCEmail
  Capacity = 1
  Chunk = 2
  PerPage = 1
  MaxBroadcasts = 1
  MaxBatch = 3
  Together = FALSE
  Faults = {"csv", "job", "mail", "crash"}
  MaxFaults = 1
SPECIFICATION FairSpec
INVARIANT WithinPlan
INVARIANT MailAccounted
PROPERTY BroadcastEnds
CHECK_DEADLOCK FALSE
