SPECIFICATION FairSpec
CONSTANTS
  Confs <- MCConfs
  Msgs <- MCMsgs
  Facs = {"user", "mail", "kern", "syslog"}
  Pris = {0, 1}
  LocalHostName = "here"
  SuspendTime = 2
  RetryMax = 2
  MarkInterval = 2
  NoHops = TRUE
  ForceSync = FALSE
  MaxMsgs = 3
  MayFail = TRUE
  MaxEvents = 1
INVARIANT LinesAccounted
INVARIANT CrashCauses
PROPERTY NothingStuck
CHECK_DEADLOCK FALSE
