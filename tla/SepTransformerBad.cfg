SPECIFICATION Spec
CONSTANTS
  N = 4
  Key <- MCKey
  KeyOf <- DistinctKeyOf
  Bad = {2}
  BatchSize = 4
  MaxRetry = 1
  ChunkSize = 2
  MaxUnprocessedRetries = 1
  Faults <- NoFaults
INVARIANT BadRecordIsKept
CHECK_DEADLOCK FALSE
