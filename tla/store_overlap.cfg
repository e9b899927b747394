SPECIFICATION Spec
CONSTANTS
  Nil = Nil
  p1 = p1
  p2 = p2
  x = x
  A = A
  B = B
  rally = rally
  Admins = {a1, a2}
  Members = {p1}
  Teams = {1}
  Missions = {x}
  Areas = {A, B}
  Points = {rally}
  Roster <- AllInOne
  Incidents = {1}
  OpenForms <- CallUp
  TaskForms <- AreaTasks
  OverrideForms <- AreaOverrides
  PlanForms <- NoForms
  Phases = {"MOVING", "ARRIVED"}
  Phones = {p1}
  MaxVer = 3
  AllowAbort = FALSE
SYMMETRY Alike
INVARIANTS
  EffFollowsTask
  AckedIsCurrent
  ArrivedWhereAssigned
PROPERTIES
  VersionCountsChanges
CHECK_DEADLOCK FALSE
