CONSTANTS
  NumReqs = 3
  SaveMayFail = TRUE
  NumPings = 1
SPECIFICATION Spec
INVARIANT TypeOK
INVARIANT FramesInSendOrder
PROPERTY EveryRequestAnswered
CHECK_DEADLOCK FALSE
