SPECIFICATION Spec
CONSTANTS
  c1 = c1
  c2 = c2
  r1 = r1
  Commands <- MCCommands
  Recorders <- MCRecorders
  MaxStarts = 3
CHECK_DEADLOCK FALSE
INVARIANTS
  TypeOK
  ReadableIsComplete
  DamageHasCause
  QaPassesAreBacked
  AcquisitionSeesFailure
PROPERTIES
  EveryProcessEnds
  LogRefined
