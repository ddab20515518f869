SPECIFICATION Spec
CONSTANTS
  Lines = 2
  Commands = {0, 1}
  Broken = {1}
  Length <- MCLength
  MaxAttempts = 2
  MaxBeside = 3
  MaxClicks = 3
INVARIANT TypeOK
INVARIANT OneBlockAtATime
INVARIANT BlockInOrder
INVARIANT EchoIsOwn
PROPERTY BlockEnds
CHECK_DEADLOCK FALSE
