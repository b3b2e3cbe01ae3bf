CONSTANTS
  Users = {a, b}
  Calls = {k1, k2, k3}
  MaxTick = 3
  TicksPerSec = 2
  DbMayFail = FALSE
  None = None
SPECIFICATION Spec
CHECK_DEADLOCK FALSE
INVARIANT DrainOnlyAddressedToUser
