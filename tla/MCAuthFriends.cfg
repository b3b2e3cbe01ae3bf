CONSTANTS
  Users = {u1, u2}
  Unknown = u0
  Calls = {c1, c2, c3}
  Tokens = {t1, t2}
  DbMayFail = TRUE
  None = None
SYMMETRY MCSymmetry
SPECIFICATION Spec
INVARIANT TypeOK
INVARIANT ConsentedFriendship
CHECK_DEADLOCK FALSE
