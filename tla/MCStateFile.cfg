SPECIFICATION Spec
CONSTANTS
  c1 = c1
  c2 = c2
  Commands <- MCCommands
  MaxEdits = 2
CHECK_DEADLOCK FALSE
INVARIANTS
  TypeOK
  UpdatesSurvive
  TornHasCause
  AcceptedIsSaved
  LogAheadHasCause
  LogFollowsSaves
PROPERTY
  EveryCommandEnds
