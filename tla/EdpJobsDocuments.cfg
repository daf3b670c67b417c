SPECIFICATION SpecMetrics
CONSTANTS
  j1 = j1  j2 = j2  w1 = w1  w2 = w2
  Job = {j1}
  Worker = {w1, w2}
  MaxReceive = 1
  MaxCount = 2
  Faults = {"aws"}
  None = None
INVARIANT CompletionsAreCounted
PROPERTY FinalIsFinal
CHECK_DEADLOCK FALSE
