SPECIFICATION ModesSpec
CONSTANTS
  TermNames <- MCNames
  HaveDisplay = FALSE
  LinemodeClients = {TRUE, FALSE}
  KnownNames = {"vt100"}
  AlwaysLinemode = FALSE
  NoKludge = FALSE
  HaveTIOCEXT = TRUE
  Commands <- AllCommands
  Windows = {1}
  TtyChanges = {"edit", "flow"}
  MaxCommands = 2
  MaxChanges = 1
  Streams <- MCStreams
INVARIANT OptionsAgree
INVARIANT ModesCurrent
INVARIANT OutputTrue
INVARIANT InTrue
PROPERTY SynchEnds
CHECK_DEADLOCK FALSE
