CONSTANTS
  s1 = s1
  s2 = s2
  i1 = i1
  i2 = i2
  v1 = v1
  none = none
  gone = gone
  Services <- OneService
  Interactives <- TwoTerminals
  Viewers <- NoProcess
  None = none
  Gone = gone
  Window = 6
  Threshold = 2
  Breaker = 4
  Clamp = 4
  Curve <- ShortCurve
  StreakLimit = 4
  StepSecs = 2
  UseTotp = FALSE
  Outcomes <- NoTelemetry
  CrashPoints <- InPreparation
  ReusePids = TRUE
  WritesMayFail = FALSE
  ClockMayJumpBack = FALSE
  CodeIsImmediate = FALSE
  MaxTime = 3
  MaxEdits = 0
SPECIFICATION FairSpec
PROPERTIES DeadOwnerReplaced
CHECK_DEADLOCK FALSE
