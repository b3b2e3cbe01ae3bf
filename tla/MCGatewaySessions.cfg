CONSTANTS
  Users = {u1, u2}
  Gateways = {g1, g2}
  Conns = {c1, c2}
  None = None
  Friends <- MCFriends
  RpcFailures = TRUE
  MaxCrashes = 1
SYMMETRY MCSymmetry
SPECIFICATION Spec
INVARIANT TypeOK
INVARIANT RegistryHoldsLiveSessions
PROPERTY DirectoryRefinement
