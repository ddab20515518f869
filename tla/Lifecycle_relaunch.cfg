SPECIFICATION Spec
CONSTANTS
  MaxLaunches = 2
  MaxKnocks = 1
  InitEachRun = FALSE
PROPERTY FirstClientServed
CHECK_DEADLOCK FALSE
