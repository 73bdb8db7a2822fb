CONSTANTS
  p1 = p1
  p2 = p2
  Peers = {p1, p2}
  W = 8
  MSS = 2
  AckCap = 2
  MaxBytes <- BytesShort
  MaxMsg = 4
  Wants <- ReadsAll
  Polls = {p2}
  Outstanding = 4
  MaxLoss = 1
  MaxTicks = 1
  Spurious = FALSE
  Reach = 1
SPECIFICATION FairSpec
CHECK_DEADLOCK FALSE
PROPERTIES Delivered WriteReturns
