SPECIFICATION FairSpec
CONSTANTS
  ambiguous = ambiguous  invalid = invalid  strange = strange
  c1 = c1  c2 = c2  c3 = c3  c4 = c4  h1 = h1  h2 = h2
  Event = {ambiguous, strange, invalid}
  Copy = {c1, c2, c3, c4}
  FirstCopy <- ThreeFirst
  Invocation = {h1, h2}
  ErrorType <- MCErrorType
  ReasonWords <- MCReasonWords
  BodyWords <- MCBodyWords
  Poison = {}
  MaxDelay = 15
  MaxMessages = 2
  MaxReceive = 2
  AttemptCap = 1
  Faults <- Outages
  None = None

INVARIANT DrainsAreSound
PROPERTIES BackoffGrows NonTransientLeaves
CHECK_DEADLOCK FALSE
