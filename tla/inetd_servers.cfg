SPECIFICATION FairSpec
CONSTANTS
  Services = {"finger", "talk", "time", "mux"}
  Stream = {"finger", "mux"}
  Inline = {"time"}
  Mux = {"mux"}
  Pids = {2, 3}
  Confs <- Reloads
  toomany = 2
  QueueMax = 1
  MaxHups = 1
  MaxFails = 1
INVARIANT SocketsKept
INVARIANT OneServer
PROPERTY ServicesReopen
CHECK_DEADLOCK FALSE
