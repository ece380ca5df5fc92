SPECIFICATION Spec
CONSTANTS
  Users = {u1, u2}
  None = None
  Foreign = Foreign
  MaxBuilds = 2
  MaxEdits = 0
  Interruptible <- Neither
  StepsFail = FALSE
  ReadsFail = FALSE
  RemovalsFail = FALSE
  OneAtATime = TRUE
INVARIANTS
  GrantsNameTheHelper
