CONSTANTS
  Users = {a, b}
  Calls = {k1, k2, k3}
  MaxTick = 3
  TicksPerSec = 2
  DbMayFail = TRUE
  None = None
SPECIFICATION Spec
INVARIANT TypeOK
INVARIANT UnreadBoundedByIncoming
CHECK_DEADLOCK FALSE
