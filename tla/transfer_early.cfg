CONSTANTS
  p1 = p1
  p2 = p2
  Peers = {p1, p2}
  W = 3
  MSS = 2
  AckCap = 1
  MaxBytes <- BytesShort
  MaxMsg = 3
  Wants <- ReadsAll
  Polls = {p2}
  Outstanding = 6
  MaxLoss = 0
  MaxTicks = 1
  Spurious = TRUE
  Reach = 2
SPECIFICATION Spec
CHECK_DEADLOCK FALSE
INVARIANTS TypeOK AckedArrived ThreadPerToken WindowHasTail
