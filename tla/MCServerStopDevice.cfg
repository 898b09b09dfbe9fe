CONSTANTS
  Clients = {c1, c2}
  NoThread = NoThread
  UseCharDevice = TRUE
  MayFail = TRUE
  MaxTicks = 1
  MaxStops = 2
SPECIFICATION FairSpec
PROPERTIES ShutdownCompletes CrashOnlyAtEdges
\* A stop that is lost in sem_init leaves a process that waits for ever, which
\* is what ShutdownCompletes names.
CHECK_DEADLOCK FALSE
