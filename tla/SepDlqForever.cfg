SPECIFICATION FairSpec
CONSTANTS
  ambiguous = ambiguous  invalid = invalid  strange = strange
  c1 = c1  c2 = c2  c3 = c3  c4 = c4  h1 = h1  h2 = h2
  Event = {ambiguous}
  Copy = {c1, c2}
  FirstCopy <- OneFirst
  Invocation = {h1, h2}
  ErrorType <- MCErrorType
  ReasonWords <- MCReasonWords
  BodyWords <- MCBodyWords
  Poison = {ambiguous}
  MaxDelay = 15
  MaxMessages = 2
  MaxReceive = 2
  AttemptCap = 1
  Faults <- NoFaults
  None = None

PROPERTY RetriesAreLimited
CHECK_DEADLOCK FALSE
