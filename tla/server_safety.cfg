SPECIFICATION Spec
CONSTANTS
  Clients = {c1, c2}
  MaxRequests = 2
  MayClose = TRUE
  MayStop = TRUE
  Faults = TRUE
SYMMETRY Symmetry
INVARIANTS Inv EchoInOrder NoLostWakeup QuiescentAfterStop
CHECK_DEADLOCK FALSE
