SPECIFICATION Spec
CONSTANTS
  Lines = {1, 2}
  MaxBatch = 2
  MaxSamples = 3
  MaxLineQueue = 1
INVARIANT PairedActuation
CHECK_DEADLOCK FALSE
