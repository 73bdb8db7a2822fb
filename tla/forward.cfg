SPECIFICATION FairSpec
CONSTANTS
  h1 = h1
  h2 = h2
  h3 = h3
  r1 = r1
  r2 = r2
  r3 = r3
  Nodes = {h1, h2, h3, r1, r2, r3}
  Width = 5
  Ifaces <- MCIfaces
  Neighbors <- MCNeighbors
  Static <- MCStatic
  Learnable <- MCLearnable
  Near <- MCNear
  Traffic <- MCTraffic
  TTL = 4
  MaxLoss = 1
INVARIANTS TypeOK LongestMatch
PROPERTIES PacketsEnd Arrives
CHECK_DEADLOCK FALSE
