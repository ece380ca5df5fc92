CONSTANTS
  Machines <- MCMachines
  DotD <- MCDotD
  ClosureMax = 24
  VisitedMax = 3
  NeededMax = 3
  RpathMax = 2
SPECIFICATION Spec
INVARIANTS
  VerdictIsSound
  RefusalIsDeserved
  NothingElseIsOverlooked
PROPERTIES
  WalkEnds
CHECK_DEADLOCK FALSE
