SPECIFICATION Spec
CONSTANTS
  Worker = {w1, w2}
  Payments = 2
  Days <- OneDay
  OperatorDays = {}
  RefundWindow = 0
  AbandonAfter = 1
  NoExpiry = NoExpiry
  MaxTime = 2
  MaxEvents = 5
  MaxFaults = 0
SYMMETRY Symmetry
PROPERTY ReopensWhenRunOut
CHECK_DEADLOCK FALSE
