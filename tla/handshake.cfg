SPECIFICATION FairSpec
CONSTANTS
  c1 = c1
  c2 = c2
  Clients = {c1, c2}
  NoClient = NoClient
  MaxLoss = 1
  MaxEarly = 1
INVARIANTS TypeOK Synchronized ClientFirst
PROPERTIES ConnectReturns DispatcherServes AllConnect
CHECK_DEADLOCK FALSE
