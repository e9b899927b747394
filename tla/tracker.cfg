SPECIFICATION Spec
CONSTANTS
  Nil = Nil
  Origin = Origin
  Members = {p1}
  Workers = {w1, w2}
  Areas = {A, B}
  Incidents = {1, 2}
  Settings <- Together
  MaxSent = 2
  MaxVer = 2
  MaxLoads = 3
SYMMETRY Alike
INVARIANTS
  TypeOK
  MemoryMatchesRows
  PositionsStayHome
  ContactLogsIn
  ArrivedHere
CHECK_DEADLOCK FALSE
