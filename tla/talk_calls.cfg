SPECIFICATION FairSpec
CONSTANTS
    Users <- MCUsers
    Machines <- MCMachines
    Host <- MCHost
    Name <- MCName
    Pid <- MCPid
    Callees <- MCCallees
    MaxId = 8
    MaxCalls = 2
    MaxActive = 2
    MaxMishaps = 2
    Kinds = {"loss", "early", "alarm", "ring", "quit", "restart", "absent", "refusing"}
INVARIANT CallsRight
INVARIANT DeletesOwn
PROPERTY SetupEnds
CHECK_DEADLOCK FALSE
