SPECIFICATION Spec
CONSTANTS
  Areas = {1, 2}
  Center <- MCCenter
  Radius <- MCRadius
  Korea <- MCKorea
  Fixes <- JudgedFixes
  StartTime = 200
  TimeStep = 10
  MaxTime = 250
  MaxEvidence = 3
INVARIANTS
  TypeOK
  TransitionsPersisted
  ArrivalTimeMatchesPhase
PROPERTIES
  DeparturesCounted
  SuspicionStands
  PresenceSpec
