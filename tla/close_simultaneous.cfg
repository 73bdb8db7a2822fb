SPECIFICATION Spec
CONSTANTS
  p1 = p1
  p2 = p2
  Peers = {p1, p2}
  App <- ReplApps
  Chunks <- NoChunks
  Closers = {p1, p2}
  WINDOW_SIZE = 8
  Reach = 2
  MaxStuck = 1
  MaxLoss = 0
INVARIANT LeavesFinWait1
CHECK_DEADLOCK FALSE
