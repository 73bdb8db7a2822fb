SPECIFICATION Spec
CONSTANTS
  r1 = r1
  r2 = r2
  r3 = r3
  Nodes = {r1, r2, r3}
  NoNode = NoNode
  Origins = {r1}
  RipNeighbors <- Triangle
  Dist <- TriangleDist
  INFTY = 4
  Handlers = {"h1", "h2"}
  MaxStarts = 3
  MaxFaults = 2
INVARIANT CostSound
CONSTRAINT FirstUnits
