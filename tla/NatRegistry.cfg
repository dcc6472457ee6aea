SPECIFICATION Spec
CONSTANTS
  h1 = h1  h2 = h2  p1 = p1  p2 = p2  q1 = q1
  Hash = {h1, h2}
  EP4 = {p1, p2}
  EP6 = {q1}
  SessionAddrs <- MCSessionAddrs
  Version = {0, 1}
  TTL = 3
  Wrap = 8
  SweepEvery = 2
  None = None
INVARIANTS IndexExact ExpiresOnTime
PROPERTY NoRevival
