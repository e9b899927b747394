SPECIFICATION FairSpec
CONSTANTS
  Nil = Nil
  Members = {p1, p2}
  MaxBatches = 2
  Kinds = {"open"}
  MaxRetries = 1
  MaxFaults = 1
INVARIANTS
  EveryTryIsMade
  ResendReachesOnce
PROPERTIES
  KeepsPromise
  EveryTextSettles
CHECK_DEADLOCK FALSE
