SPECIFICATION FairSpec
CONSTANTS
  User <- Users
  Request <- Requests
  MaxItems = 2
  MaxChanges = 3
  MaxSecond = 1
  MaxFaults = 1
  None = None
INVARIANTS NothingIsMissed
PROPERTIES NoGhosts ChangesSettle
CHECK_DEADLOCK FALSE
