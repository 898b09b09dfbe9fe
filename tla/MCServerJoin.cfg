CONSTANTS
  Clients = {c1, c2}
  NoThread = NoThread
  UseCharDevice = TRUE
  MayFail = FALSE
  MaxTicks = 1
  MaxStops = 1
SPECIFICATION PatientSpec
PROPERTY FinishedClientsAreJoined
