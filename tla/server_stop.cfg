SPECIFICATION Spec
CONSTANTS
  Clients = {c1}
  MaxRequests = 1
  MayClose = FALSE
  MayStop = TRUE
  Faults = FALSE
INVARIANT StopClearsClients
CHECK_DEADLOCK FALSE
