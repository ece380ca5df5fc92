SPECIFICATION Spec
CONSTANTS
  Users = {u1}
  None = None
  Foreign = Foreign
  MaxBuilds = 1
  MaxEdits = 0
  Interruptible <- Neither
  StepsFail = FALSE
  ReadsFail = FALSE
  RemovalsFail = TRUE
  OneAtATime = TRUE
PROPERTIES
  RemovedIsGone
