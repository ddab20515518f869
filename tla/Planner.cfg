SPECIFICATION Spec
CONSTANTS
  NaN = NaN
  Targets <- MCTargets
  Length = 2
  Reach = 1
  MaxCommands = 2
  MaxRuns = 2
INVARIANT TypeOK
INVARIANT WithinLimits
INVARIANT PlanContinues
INVARIANT SmoothPath
PROPERTY HeadCatchesUp
CHECK_DEADLOCK FALSE
