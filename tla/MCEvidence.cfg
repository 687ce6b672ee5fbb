SPECIFICATION Spec
CONSTANTS
  p1 = p1
  p2 = p2
  s1 = s1
  s2 = s2
  c1 = c1
  c2 = c2
  Recorders <- MCRecorders
  Specs <- MCSpecs
  Commands <- MCCommands
  MaxIteration = 2
  MaxRuns = 2
SYMMETRY Alike
INVARIANTS
  TypeOK
  Attested
  LastRunRecorded
