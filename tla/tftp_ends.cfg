SPECIFICATION FairSpec
CONSTANTS
  Client = Client
  Port = Port
  g1 = g1
  g2 = g2
  p1 = p1
  RexmtVals = {1}
  TimeoutVals = {2}
  SrvTries = 2
  DiskMayFail = TRUE
  MaxXfers = 1
  QueueMax = 1
  MaxDup = 1
  Wrap = 3
  Servers = {s1}
  GetFiles = {g1}
  PutFiles = {p1}
  Blocks <- FiveOrTwo
INVARIANT GetIntegrity
INVARIANT ServerNotAhead
INVARIANT GetInv
PROPERTY TransfersEnd
