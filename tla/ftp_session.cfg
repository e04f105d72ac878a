SPECIFICATION FairSpec
CONSTANTS
  DefaultPort = 99
  Block = 2
  LoginLimit = 1
  UniqueMax = 1
  Scripts <- MCScripts
  RemoteFiles <- MCRemote
  LocalFiles <- MCLocal
  MaxMishaps = 1
  WireMax = 2
INVARIANT DialogueHolds
INVARIANT SameFile
PROPERTY PromptReturns
CHECK_DEADLOCK FALSE
