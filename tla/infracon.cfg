CONSTANTS
  c1 = c1
  c2 = c2
  c3 = c3
  e1 = e1
  e2 = e2
  k1 = k1
  k2 = k2
  u1 = u1
  t1 = t1
  t2 = t2
  p1 = p1
  p2 = p2
  d1 = d1
  d2 = d2
  d3 = d3
  f1 = f1
  x1 = x1
  x2 = x2
  None = None
  Nothing = Nothing
  Nowhere = Nowhere
  Nobody = Nobody
  Commands = {c1, c2, c3}
  Emails = {e1, e2}
  Passwords = {k1, k2}
  Users = {u1}
  Tokens = {t1, t2}
  Pulls = {p1, p2}
  Deploys = {d1, d2, d3}
  Generated = {d1, d2}
  Folders = {f1}
  Paths = {f1}
  Files = {x1, x2}
  Ports = {3000, 8000}
  DefaultPort = 8000
  MaxTime = 3
SPECIFICATION Spec
INVARIANT SignedUpOnce
INVARIANT TokenStands
INVARIANT DeployedAsAsked
INVARIANT PulledWhole
CHECK_DEADLOCK FALSE
