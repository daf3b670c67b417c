SPECIFICATION FairSpec
CONSTANTS
  Submitted <- Specs
  Metric <- Metrics
  MaxMemory = 1
  MaxUpsets = 2
PROPERTIES ResetLeavesDegraded
CHECK_DEADLOCK FALSE
