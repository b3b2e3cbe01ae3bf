CONSTANTS
  PresenceCalls = {s1, s2}
  GatewayCalls = {}
  NoOwner = NoOwner
  GwPoolSize = 1
  AuthCalls = {}
  RedisPoolSize = 2
  MySQLPoolSize = 2
  SingleNode = TRUE
  DbMayDrop = FALSE
  MaxOnline = 2
SYMMETRY MCSymmetry
SPECIFICATION Spec
INVARIANT NoPoolDeadlock
