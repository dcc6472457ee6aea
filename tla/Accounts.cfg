SPECIFICATION Spec
CONSTANTS
  Worker = {w1, w2}
  Payments = 2
  Days <- LastForever
  OperatorDays = {1}
  RefundWindow = 1
  AbandonAfter = 0
  NoExpiry = NoExpiry
  MaxTime = 2
  MaxEvents = 4
  MaxFaults = 1
SYMMETRY Symmetry
INVARIANTS OnlyPaidPasses MarksHonoured StateSettled
PROPERTIES DisabledKept ImplementsLedger
CHECK_DEADLOCK FALSE
