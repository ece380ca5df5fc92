SPECIFICATION Spec
CONSTANTS
  Clients = {c1}
  None = None
  MaxAttempts = 1
  Granted = TRUE
INVARIANT
  RefusalIsNotDisconnection
CHECK_DEADLOCK FALSE
