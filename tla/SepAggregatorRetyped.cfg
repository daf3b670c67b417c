SPECIFICATION SpecPaths
CONSTANTS
  Event <- Retyping
  DayLength = 8
  Key <- PathKeys
  Aggregate <- Aggregates
  AggregateOf <- AggregateOfKey
  TypesOf <- TypesOfKey
  Amount = {0, 2}
  BatchSize = 2
  MaxChanges = 3
  MaxRetry = 1
  Faults <- NoFaults
  None = None
INVARIANT TotalsExact
CHECK_DEADLOCK FALSE
