SPECIFICATION Spec
CONSTANTS
  Clients = {c1}
  None = None
  MaxAttempts = 1
  Granted = TRUE
INVARIANT
  NoRunIsRefused
CHECK_DEADLOCK FALSE
