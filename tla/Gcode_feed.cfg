SPECIFICATION Spec
CONSTANTS
  Axes = {"x", "b"}
  Linear = {"x"}
  Values = {1}
  Feeds = {1, 2}
  Lines <- MCLines
  Inch = 3
  Rapid = 9
  Homing = 5
  MaxLines = 3
INVARIANT FeedIsModal
CHECK_DEADLOCK FALSE
