SPECIFICATION FairSpec
CONSTANTS
  Clients = {c1}
  None = None
  MaxAttempts = 1
  Granted = TRUE
PROPERTY
  UpIsAnnounced
CHECK_DEADLOCK FALSE
