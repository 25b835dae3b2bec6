SPECIFICATION Spec
CONSTANTS
  Clients = {c1}
  MaxRequests = 1
  MayClose = TRUE
  MayStop = FALSE
  Faults = FALSE
INVARIANT SurvivesDisconnect
CHECK_DEADLOCK FALSE
