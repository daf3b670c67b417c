SPECIFICATION Spec
CONSTANTS
  User <- Users
  Request <- Requests
  MaxItems = 2
  MaxChanges = 3
  MaxSecond = 2
  MaxFaults = 0
  None = None
INVARIANTS AuditKeepsEveryChange
CHECK_DEADLOCK FALSE
