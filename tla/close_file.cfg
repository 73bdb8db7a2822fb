SPECIFICATION FairSpec
CONSTANTS
  p1 = p1
  p2 = p2
  Peers = {p1, p2}
  App <- FileApps
  Chunks <- FileChunks
  Closers = {p2}
  WINDOW_SIZE = 8
  Reach = 2
  MaxStuck = 1
  MaxLoss = 1
INVARIANTS TypeOK OneFin FinsExchanged FinAfterData FileComplete
PROPERTY OrderlyClose
CHECK_DEADLOCK FALSE
