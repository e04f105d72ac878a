SPECIFICATION RemoteSpec
CONSTANTS
  Plans <- MCPlans
  OldSize = 3
  RcpFaults = {"open", "read", "srcalloc", "mkdir", "create", "sinkalloc", "write", "truncate", "chmod", "times", "dirtimes", "cut"}
  MaxRcpFaults = 1
  StatusWrap = 2
  IntMax = 2
  ServerFaults = {"down", "illegal", "slow", "connect2", "mismatch", "unknown", "denied", "nologin", "fork", "nodir"}
  MaxIn = 1
  MaxOut = 1
  LoginFaults = {"noname", "port", "mismatch", "unknown", "root", "ptys"}
  MaxUnits = 2
  MaxKeys = 2
  MaxResizes = 1
  MaxControls = 1
  MaxEvents = 3
  MaxChildren = 1
  MaxSessions = 4
INVARIANT RcpSafe
PROPERTY RemoteEnds
INVARIANT RshSafe
INVARIANT RlSafe
CHECK_DEADLOCK FALSE
