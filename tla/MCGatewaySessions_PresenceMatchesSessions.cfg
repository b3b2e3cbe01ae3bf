CONSTANTS
  Users = {u1, u2}
  Gateways = {g1, g2}
  Conns = {c1}
  None = None
  Friends <- MCFriends
  RpcFailures = FALSE
  MaxCrashes = 0
SYMMETRY MCSymmetry
SPECIFICATION Spec
INVARIANT PresenceMatchesSessions
