SPECIFICATION Spec
CONSTANTS
  m1 = m1  m2 = m2  w1 = w1  w2 = w2
  Message = {m1, m2}
  Worker = {w1, w2}
  Row <- MCRow
  Key <- MCKey
  RowsOf <- HealthyRows
  KeyOf <- MCKeyOf
  Malformed <- MCMalformed
  Unreadable <- MCUnreadable
  BatchSize = 2
  MaxReceive = 2
  Faults <- NoFaults
  None = None
INVARIANT NoEventLost
CHECK_DEADLOCK FALSE
