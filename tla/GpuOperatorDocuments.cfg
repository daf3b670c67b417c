SPECIFICATION Spec
CONSTANTS
  Submitted <- Specs
  Metric <- TwoReplicas
  MaxMemory = 1
  MaxUpsets = 0
INVARIANTS DegradedMeansExhausted NeverFlaps
CHECK_DEADLOCK FALSE
