SPECIFICATION FairSpec
CONSTANTS
  TermNames <- MCNames
  HaveDisplay = TRUE
  LinemodeClients = {TRUE}
  KnownNames = {"vt100"}
  AlwaysLinemode = TRUE
  NoKludge = FALSE
  HaveTIOCEXT = TRUE
  Commands <- NoCommands
  Windows = {1, 2}
  TtyChanges = {"echo", "edit", "trapsig"}
  MaxCommands = 1
  MaxChanges = 3
INVARIANT SessionHolds
PROPERTY Settles
CHECK_DEADLOCK FALSE
