\* MaxStops bounds the signals a waiting process may still get; where it may
\* wait is what the properties say.
CHECK_DEADLOCK FALSE
CONSTANTS
  Clients = {c1, c2}
  NoThread = NoThread
  UseCharDevice = FALSE
  MayFail = TRUE
  MaxTicks = 1
  MaxStops = 1
SPECIFICATION PatientSpec
INVARIANTS TypeOK OneUserOfTheFile ServicesStopFirst StopWakesClock
PROPERTIES ShutdownCompletes EveryClientServed
