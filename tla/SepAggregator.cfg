SPECIFICATION SpecPaths
CONSTANTS
  Event <- MCEvents
  DayLength = 8
  Key <- PathKeys
  Aggregate <- Aggregates
  AggregateOf <- AggregateOfKey
  TypesOf <- TypesOfKey
  Amount = {0, 2}
  BatchSize = 2
  MaxChanges = 3
  MaxRetry = 1
  Faults <- AllFaults
  None = None
INVARIANTS TotalsAccounted EventsCountOnce
CHECK_DEADLOCK FALSE
