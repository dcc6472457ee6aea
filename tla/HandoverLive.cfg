SPECIFICATION FairSpec
CONSTANTS
  s1 = s1
  s2 = s2
  Session <- TwoSessions
  Initial <- FirstLoggedIn
  Stores = {"memory"}
  SlowLogins = FALSE
  SocketsFail = {}
  MaxWrites = 1
  MaxHandovers = 1
PROPERTIES
  HandoverEnds
  ParkingEnds
CHECK_DEADLOCK FALSE
