CONSTANTS
  Machines <- MCStated
  DotD <- MCDotD
  ClosureMax = 24
  VisitedMax = 3
  NeededMax = 3
  RpathMax = 2
SPECIFICATION Spec
INVARIANTS
  EverythingIsOutside
CHECK_DEADLOCK FALSE
