SPECIFICATION Spec
CONSTANTS
  p1 = p1
  p2 = p2
  h1 = h1
  h2 = h2
  RuntimeRecorders <- MCRuntimeRecorders
  HookRecorders <- MCHookRecorders
  MaxPolls = 2
CHECK_DEADLOCK FALSE
INVARIANTS
  TypeOK
  OneKey
  LateNeverFails
PROPERTY
  EveryRecorderEnds
