SPECIFICATION FairSpec
CONSTANTS
  Clients = {c1, c2}
  MaxRequests = 2
  MayClose = FALSE
  MayStop = TRUE
  Faults = FALSE
PROPERTIES RequestsAnswered StopJoinsEveryThread
CHECK_DEADLOCK FALSE
