CONSTANTS
  p1 = p1
  p2 = p2
  Peers = {p1, p2}
  W = 4
  MSS = 2
  AckCap = 2
  MaxBytes <- BytesOneWay
  MaxMsg = 3
  Wants <- ReadsAll
  Polls = {p2}
  Outstanding = 6
  MaxLoss = 0
  MaxTicks = 0
  Spurious = FALSE
  Reach = 1
SPECIFICATION FairSpec
CHECK_DEADLOCK FALSE
PROPERTIES Delivered
