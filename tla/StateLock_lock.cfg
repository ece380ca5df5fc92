CONSTANTS
  p1 = p1 
  p2 = p2 
  p3 = p3 
  p4 = p4
  bare = bare 
  absent = absent
  Bare = bare
  Absent = absent
  Procs <- ThreeProcs
  Recycled <- OnePid
  CrashPoints <- AllSteps
SPECIFICATION FairSpec
INVARIANTS
  HolderKeepsLock OneReclaimer
PROPERTIES
  RefinesMutex SomebodyEnters
CHECK_DEADLOCK FALSE
