SPECIFICATION SpecMetrics
CONSTANTS
  j1 = j1  j2 = j2  w1 = w1  w2 = w2
  Job = {j1}
  Worker = {w1, w2}
  MaxReceive = 2
  MaxCount = 2
  Faults <- AllFaults
  None = None
INVARIANTS AcknowledgedIsStarted FailuresAreCounted
PROPERTIES ModelRunsOnce CleanupSparesEnded EndedStaysEnded EveryJobEnds
CHECK_DEADLOCK FALSE
