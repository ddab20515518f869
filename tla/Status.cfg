SPECIFICATION Spec
CONSTANT MaxMessages = 4
INVARIANT TypeOK
INVARIANT OneStored
INVARIANT NoDoubleDispatch
INVARIANT WaitsForTaken
PROPERTY UnhurriedReturns
PROPERTY LineWhenUnhurried
CHECK_DEADLOCK FALSE
