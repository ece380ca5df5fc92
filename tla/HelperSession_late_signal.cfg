SPECIFICATION Spec
CONSTANTS
  Pids = {p1, p2}
  Stops = {s1}
  None = None
  MaxPolls = 1
  MaxBorn = 2
PROPERTIES
  RecycledPidIsLeft
CHECK_DEADLOCK FALSE
