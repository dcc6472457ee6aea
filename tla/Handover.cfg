SPECIFICATION Spec
CONSTANTS
  s1 = s1
  s2 = s2
  Session <- TwoSessions
  Initial <- FirstLoggedIn
  Stores = {"memory", "file", "database"}
  SlowLogins = FALSE
  SocketsFail = {"memory", "file"}
  MaxWrites = 1
  MaxHandovers = 2
INVARIANTS
  OneServer
  StreamExact
  
  NoStaleDeadline
CHECK_DEADLOCK FALSE
