SPECIFICATION Spec
CONSTANTS
  Areas = {1, 2}
  Center <- MCCenter
  Radius <- MCRadius
  Korea <- MCKorea
  Fixes <- SuspectFixes
  StartTime = 200
  TimeStep = 10
  MaxTime = 240
  MaxEvidence = 3
PROPERTIES
  SuspicionRecorded
