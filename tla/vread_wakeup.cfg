CONSTANTS
  p1 = p1
  p2 = p2
  Peers = {p1, p2}
  W = 5
  MSS = 2
  AckCap = 2
  MaxBytes <- BytesShort
  MaxMsg = 2
  Wants <- ReadsAll
  Polls = {}
  Outstanding = 2
  MaxLoss = 0
  MaxTicks = 0
  Spurious = FALSE
  Reach = 1
SPECIFICATION Spec
CHECK_DEADLOCK FALSE
INVARIANTS WaitsOnlyForData
