SPECIFICATION Spec
CONSTANTS
  MaxLaunches = 2
  MaxKnocks = 2
  InitEachRun = TRUE
INVARIANT TypeOK
INVARIANT QuietWhenStopped
INVARIANT LinkedIsHeard
PROPERTY FirstClientServed
PROPERTY StopReturnsWithoutClient
CHECK_DEADLOCK FALSE
