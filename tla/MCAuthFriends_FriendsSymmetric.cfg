CONSTANTS
  Users = {u1, u2}
  Unknown = u0
  Calls = {c1, c2, c3}
  Tokens = {t1, t2}
  DbMayFail = FALSE
  None = None
SYMMETRY MCSymmetry
SPECIFICATION Spec
INVARIANT FriendsSymmetric
CHECK_DEADLOCK FALSE
