SPECIFICATION PoolSpec
CONSTANTS
  Client = {c1, c2}
  Ceiling = 5
  Word = 8
  Allow = TRUE
  MaxCfg = 6
INVARIANTS
  CountsExact
  ReachExact
  RoomIsReal
PROPERTY HolderKept
CHECK_DEADLOCK FALSE
