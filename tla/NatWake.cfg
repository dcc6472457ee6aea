SPECIFICATION FairSpec
CONSTANTS
  first = first  second = second  target = target  r1 = r1  r2 = r2
  Hash = {first, second, target}
  Pairs <- OneTarget
  Request = {r1, r2}
  HasIPv6 = {first, target}
  Wakeable = {target}
  Registers <- TargetRegisters
  Fickle = {target}
  MaxWaiters = 1
  MaxPending = 1
  None = None
CHECK_DEADLOCK FALSE
INVARIANTS WaitsOnce WaitWillEnd
PROPERTIES EndedByOwn Sync2Answered
