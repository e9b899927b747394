SPECIFICATION FairSpec
CONSTANTS
  Members = {m1}
  Nil = Nil
  Polls = {x}
  OwnFetches = {y}
  Points <- TwoPoints
  Validities = {TRUE}
  MaxInc = 1
  MaxSeq = 2
  MaxEpoch = 2
  MaxActs = 1
INVARIANTS BoardIsCurrent
PROPERTIES ChangesArrive
CHECK_DEADLOCK FALSE
