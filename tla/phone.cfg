SPECIFICATION FairSpec
CONSTANTS
  Nil = Nil
  MaxInc = 2
  MaxVer = 2
  Loops = {l1, l2}
  Posts = {x}
  MaxCalls = 0
  MaxFaults = 2
INVARIANTS
  StoppedIsQuiet
  OneLoop
  AckedWasShown
PROPERTIES
  ChangeIsSeen
  ClosingStopsLoops
  IncidentIsFound
CHECK_DEADLOCK FALSE
