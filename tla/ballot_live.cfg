CONSTANTS
  v1 = v1
  r1 = r1
  w1 = w1
  w2 = w2
  p1 = p1
  p2 = p2
  a = a
  b = b
  c = c
  NoVoter = NoVoter
  NoBallot = NoBallot
  NoActor = NoActor
  Voters = {v1}
  Requests = {r1}
  Workers = {w1, w2}
  Posts = {p1}
  Candidates = {a, b}
  Places = {1}
  MaxVotes <- OnePostMax
  Ballots <- SmallBallots
  AuditLimit = 1
  Faults = {"cast", "process", "crash", "stall"}
  MaxFaults = 1
SPECIFICATION FairSpec
INVARIANT OneRunPerPost
INVARIANT BallotTracked
PROPERTY MarkedIsStored
CHECK_DEADLOCK FALSE
