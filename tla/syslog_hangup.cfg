SPECIFICATION FairSpec
CONSTANTS
  Confs <- HupConfs
  Msgs <- OneMsg
  Facs = {"user", "mail", "kern", "syslog"}
  Pris = {0, 1}
  LocalHostName = "here"
  SuspendTime = 2
  RetryMax = 2
  MarkInterval = 2
  NoHops = TRUE
  ForceSync = FALSE
  MaxMsgs = 0
  MayFail = FALSE
  MaxEvents = 2
PROPERTY ReadOnHangup
CHECK_DEADLOCK FALSE
