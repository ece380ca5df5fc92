CONSTANTS
  s1 = s1
  s2 = s2
  i1 = i1
  i2 = i2
  v1 = v1
  none = none
  gone = gone
  Services <- OneService
  Interactives <- NoProcess
  Viewers <- NoProcess
  None = none
  Gone = gone
  Window = 20
  Threshold = 3
  Breaker = 4
  Clamp = 4
  Curve <- SteepCurve
  StreakLimit = 4
  StepSecs = 2
  UseTotp = FALSE
  Outcomes <- Sessions
  CrashPoints <- InPreparation
  ReusePids = FALSE
  WritesMayFail = FALSE
  ClockMayJumpBack = FALSE
  CodeIsImmediate = FALSE
  MaxTime = 16
  MaxEdits = 1
SPECIFICATION Spec
INVARIANTS BarrenAttemptsEnd AttemptRate
PROPERTIES PauseIsEarned
CHECK_DEADLOCK FALSE
