CONSTANTS
  p1 = p1 
  p2 = p2 
  p3 = p3 
  p4 = p4
  bare = bare 
  absent = absent
  Bare = bare
  Absent = absent
  Procs <- FourProcs
  Recycled <- Nowhere
  CrashPoints <- Nowhere
SPECIFICATION Spec
INVARIANT MutualExclusion
SYMMETRY AnyPid
CHECK_DEADLOCK FALSE
