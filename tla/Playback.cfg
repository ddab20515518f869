SPECIFICATION Spec
CONSTANTS
  Poses = {"home", "a", "b", "far"}
  HomePose = "home"
  Unreachable = {"far"}
  Programs <- MCPrograms
  TestProgram <- MCTestProgram
  Axes = 3
  Periods = {1, 3}
  NormalPeriod = 3
  MaxSetBack = 3
  MaxClicks = 7
INVARIANT TypeOK
INVARIANT PlaysInOrder
PROPERTY VerdictIsTrue
PROPERTY PlaybackEnds
CHECK_DEADLOCK FALSE
