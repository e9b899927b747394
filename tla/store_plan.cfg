SPECIFICATION WatchSpec
CONSTANTS
  Nil = Nil
  p1 = p1
  p2 = p2
  x = x
  A = A
  B = B
  rally = rally
  Admins = {a1, a2}
  Members = {p1, p2}
  Teams = {1, 2}
  Missions = {x}
  Areas = {A, B}
  Points = {rally}
  Roster <- OneEach
  Incidents = {1}
  OpenForms <- CallUps
  TaskForms <- MoveToB
  OverrideForms <- NoForms
  PlanForms <- Plans
  Phases = {}
  Phones = {}
  MaxVer = 3
  AllowAbort = TRUE
SYMMETRY Alike
INVARIANTS
  RallyFitsArea
  PlanInForce
PROPERTIES
  OtherTeamsUntouched
CHECK_DEADLOCK FALSE
