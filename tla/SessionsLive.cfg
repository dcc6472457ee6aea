SPECIFICATION FairSpec
CONSTANTS
  Conn = {c1, c2}
  Hash = {h1}
  Addr4 = {a4}
  Addr6 = {a6}
  LowID = {l1}
  RequestID = {None}
  Ed3kConn = {}
  MaxEd3kClaims = 2
  ConnLimits = {0}
  MaxLogins = 1
  RowPerHash = TRUE
  StoreFails = TRUE
  None = None
INVARIANTS IndexSound 
PROPERTIES LoginDecided CloseCompletes
CHECK_DEADLOCK FALSE
