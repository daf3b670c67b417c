SPECIFICATION FairSpec
CONSTANTS
  Submitted <- Specs
  Metric <- Metrics
  MaxMemory = 1
  MaxUpsets = 2
INVARIANTS OperatorIsSound ScalingSettles
PROPERTIES PhaseMoves ServiceSettles
CHECK_DEADLOCK FALSE
