CONSTANTS
  v1 = v1
  r1 = r1
  r2 = r2
  w1 = w1
  p1 = p1
  p2 = p2
  a = a
  b = b
  c = c
  NoVoter = NoVoter
  NoBallot = NoBallot
  NoActor = NoActor
  Voters = {v1}
  Requests = {r1, r2}
  Workers = {w1}
  Posts = {p1, p2}
  Candidates = {a, b, c}
  Places = {1, 2}
  MaxVotes <- TwoPostsMax
  Ballots <- TwoBallots
  AuditLimit = 1
  Faults = {}
  MaxFaults = 0
SPECIFICATION Spec
SYMMETRY Symmetry
INVARIANT TypeOK
INVARIANT OneRunPerPost
INVARIANT VotesMarkVoter
INVARIANT BallotTracked
PROPERTY ImplementsBallotBox
CHECK_DEADLOCK FALSE
