SPECIFICATION Spec
CONSTANTS
  Nil = Nil
  MaxInc = 2
  MaxVer = 2
  Loops = {l1, l2}
  Posts = {x}
  MaxCalls = 0
  MaxFaults = 2
PROPERTY ConsentFirst
CHECK_DEADLOCK FALSE
