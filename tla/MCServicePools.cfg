CONSTANTS
  PresenceCalls = {s1, s2}
  GatewayCalls = {g1, g2}
  NoOwner = NoOwner
  GwPoolSize = 1
  AuthCalls = {a1}
  RedisPoolSize = 3
  MySQLPoolSize = 2
  SingleNode = TRUE
  DbMayDrop = FALSE
  MaxOnline = 2
SYMMETRY MCSymmetry
SPECIFICATION Spec
INVARIANT TypeOK
INVARIANT PoolsConserved
INVARIANT NoPoolDeadlock
