SPECIFICATION FairSpec
CONSTANTS
  Pids = {p1, p2}
  Stops = {s1, s2}
  None = None
  MaxPolls = 1
  MaxBorn = 2
INVARIANTS
  OneTunnel
  TelemetryIsCurrent
  TunnelIsOnRecord
PROPERTIES
  OnlyTunnelsSignalled
  StoppedIsGone
  SignalledTunnelEnds
CHECK_DEADLOCK FALSE
