SPECIFICATION Spec
CONSTANTS
  Nil = Nil
  p1 = p1
  p2 = p2
  x = x
  A = A
  B = B
  rally = rally
  Admins = {a1, a2}
  Members = {p1}
  Teams = {1, 2}
  Missions = {x}
  Areas = {A, B}
  Points = {rally}
  Roster <- AllInTwo
  Incidents = {1, 2}
  OpenForms <- CallUps
  TaskForms <- NoForms
  OverrideForms <- OwnArea
  PlanForms <- OnePlan
  Phases = {}
  Phones = {p1}
  MaxVer = 2
  AllowAbort = TRUE
SYMMETRY Alike
INVARIANTS
  TypeOK
  OneActive
  SInv
CHECK_DEADLOCK FALSE
