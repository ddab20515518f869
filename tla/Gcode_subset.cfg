SPECIFICATION Spec
CONSTANTS
  Lines <- MCLines
  Length = 4
  Reach = 1
  Inch = 2
  MaxLines = 5
INVARIANT TypeOK
INVARIANT SameMoves
INVARIANT PlayedValidates
CHECK_DEADLOCK FALSE
