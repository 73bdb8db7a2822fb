SPECIFICATION FairSpec
CONSTANTS
  r1 = r1
  r2 = r2
  r3 = r3
  Nodes = {r1, r2, r3}
  NoNode = NoNode
  Origins = {r1}
  RipNeighbors <- Line
  Dist <- LineDist
  INFTY = 4
  Handlers = {"h1"}
  MaxStarts = 3
  MaxFaults = 1
INVARIANTS TypeOK NoneExpires
PROPERTY Settles
