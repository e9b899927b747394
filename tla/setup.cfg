SPECIFICATION SetupSpec
CONSTANTS
  ann = ann  bob = bob  cho = cho  mia = mia  kim = kim
  w1 = w1  w2 = w2  x = x  y = y  s = s  t = t
  Nil = Nil
  Admins = {ann, bob, cho}
  Members = {mia, kim}
  Workers = {w1, w2}
  Enrolled <- Staff
  Forms <- Updates
  Scenes <- Kinds
  AdminTTL = 3
  AdminIdle = 1
  MemberTTL = 3
  Grace = 1
  MaxTime = 2
  MaxEra = 1
  MaxCloses = 1
  MaxArea = 2
  Names = {x, y}
  Shapes = {s, t}
  Teams = {1}
  Mobiles = {1, 2}
  Logins = {1, 2, 3}
  Roll <- Roster
  AddForms <- Newcomer
  PutForms <- Edits
  RosterFiles <- People
  AreaFiles <- Places
  PlanFiles <- Tasks
  PreviewTTL = 0
  MaxPreviews = 1
  MaxDeploys = 1
SYMMETRY Alike
INVARIANTS
  AnAdminRemains
  ResetEndsSessions
  SessionsEndWithIncident
  UsedAreaIsFrozen
  EditsStand
  ImportsApplyOnce
CHECK_DEADLOCK FALSE
