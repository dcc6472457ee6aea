SPECIFICATION Spec
CONSTANTS
  Conn = {c1, c2, c3}
  Hash = {h1}
  Addr4 = {a4}
  Addr6 = {}
  LowID = {l1, l2}
  RequestID = {None}
  Ed3kConn = {c1, c2, c3}
  MaxEd3kClaims = 2
  ConnLimits = {0, 2}
  MaxLogins = 1
  RowPerHash = FALSE
  StoreFails = FALSE
  None = None
SYMMETRY Symmetry
INVARIANTS  SlotsExact   ClaimsSound
 
CHECK_DEADLOCK FALSE
