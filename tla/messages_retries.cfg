SPECIFICATION Spec
CONSTANTS
  Nil = Nil
  Members = {p1}
  MaxBatches = 1
  Kinds = {"open"}
  MaxRetries = 2
  MaxFaults = 0
INVARIANT TwoRetries
CHECK_DEADLOCK FALSE
