SPECIFICATION Spec
CONSTANTS
  Clients = {c1, c2}
  None = None
  MaxAttempts = 2
  Granted = TRUE
INVARIANTS
  VerdictIsGenuine
  VerdictIsComplete
  OnlyOwnSession
  OverIsOver
  RunsAreReported
VIEW View
SYMMETRY ClientSymmetry
CHECK_DEADLOCK FALSE
