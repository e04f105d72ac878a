SPECIFICATION Spec
CONSTANTS
  Client = Client
  Port = Port
  g1 = g1
  g2 = g2
  p1 = p1
  RexmtVals = {0, 1}
  TimeoutVals = {1, 2}
  SrvTries = 1
  DiskMayFail = FALSE
  MaxXfers = 1
  QueueMax = 1
  MaxDup = 0
  Wrap = 4
  Servers = {s1, s2}
  GetFiles = {g1}
  PutFiles = {p1}
  Blocks <- TwoBlocks
SYMMETRY ServerSymmetry
INVARIANT Delivered
