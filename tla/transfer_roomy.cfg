CONSTANTS
  p1 = p1
  p2 = p2
  Peers = {p1, p2}
  W = 5
  MSS = 2
  AckCap = 2
  MaxBytes <- BytesOneWay
  MaxMsg = 3
  Wants <- ReadsOneWay
  Polls = {}
  Outstanding = 2
  MaxLoss = 1
  MaxTicks = 2
  Spurious = FALSE
  Reach = 1
SPECIFICATION Spec
CHECK_DEADLOCK FALSE
PROPERTIES ReliableStream ReadNXTForward UnreadKept
