SPECIFICATION Spec
CONSTANTS
  Conn = {c1, c2, c3}
  Hash = {h1}
  Addr4 = {a4}
  Addr6 = {}
  LowID = {l1, l2}
  RequestID = {None}
  Ed3kConn = {}
  MaxEd3kClaims = 2
  ConnLimits = {0}
  MaxLogins = 1
  RowPerHash = FALSE
  StoreFails = FALSE
  None = None
SYMMETRY Symmetry
PROPERTY HeldRowKept
CHECK_DEADLOCK FALSE
