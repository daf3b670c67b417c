SPECIFICATION FairSpec
CONSTANTS
  N = 4
  Key <- MCKey
  KeyOf <- MCKeyOf
  Bad = {3}
  BatchSize = 4
  MaxRetry = 1
  ChunkSize = 2
  MaxUnprocessedRetries = 1
  Faults <- AllFaults
INVARIANTS PassedIsStored GoodRecordNotDeadLettered
PROPERTY ShardDrains
CHECK_DEADLOCK FALSE
