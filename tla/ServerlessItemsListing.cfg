SPECIFICATION Spec
CONSTANTS
  User <- Users
  Request <- Requests
  MaxItems = 2
  MaxChanges = 3
  MaxSecond = 2
  MaxFaults = 0
  None = None
PROPERTIES ListContainsCreated
CHECK_DEADLOCK FALSE
