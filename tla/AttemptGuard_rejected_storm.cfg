CONSTANTS
  s1 = s1
  s2 = s2
  i1 = i1
  i2 = i2
  v1 = v1
  none = none
  gone = gone
  Services <- OneService
  Interactives <- NoProcess
  Viewers <- NoProcess
  None = none
  Gone = gone
  Window = 8
  Threshold = 2
  Breaker = 4
  Clamp = 4
  Curve <- ShortCurve
  StreakLimit = 2
  StepSecs = 2
  UseTotp = FALSE
  Outcomes <- Rejected
  CrashPoints <- Nowhere
  ReusePids = FALSE
  WritesMayFail = FALSE
  ClockMayJumpBack = FALSE
  CodeIsImmediate = FALSE
  MaxTime = 20
  MaxEdits = 0
SPECIFICATION Spec
INVARIANTS BarrenAttemptsEnd
CHECK_DEADLOCK FALSE
