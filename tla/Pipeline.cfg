SPECIFICATION Spec
CONSTANTS
  Lines = {1, 2}
  MaxBatch = 2
  MaxSamples = 4
  MaxLineQueue = 1
INVARIANT TypeOK
INVARIANT PairedWhenQuiet
INVARIANT QueuesEmptyWhenStopped
INVARIANT OldSamplesDrained
INVARIANT LineNotAhead
PROPERTY NeverReplays
PROPERTY CallbackReturns
PROPERTY FifoWhenQuiet
CHECK_DEADLOCK FALSE
