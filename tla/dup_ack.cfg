CONSTANTS
  p1 = p1
  p2 = p2
  Peers = {p1, p2}
  W = 8
  MSS = 2
  AckCap = 2
  MaxBytes <- BytesShort
  MaxMsg = 2
  Wants <- ReadsAll
  Polls = {p2}
  Outstanding = 2
  MaxLoss = 0
  MaxTicks = 1
  Spurious = TRUE
  Reach = 1
SPECIFICATION FairSpec
CHECK_DEADLOCK FALSE
PROPERTIES Delivered
