CONSTANTS
  s1 = s1
  s2 = s2
  i1 = i1
  i2 = i2
  v1 = v1
  none = none
  gone = gone
  None = none
  Gone = gone
  Services <- OneService
  Interactives <- OneTerminal
  Viewers <- OneViewer
  Window = 6
  Threshold = 2
  Breaker = 4
  Clamp = 4
  Curve <- ShortCurve
  StreakLimit = 4
  StepSecs = 1
  UseTotp = TRUE
  Outcomes <- AnyOutcome
  CrashPoints <- Everywhere
  ReusePids = FALSE
  WritesMayFail = TRUE
  ClockMayJumpBack = TRUE
  CodeIsImmediate = TRUE
  MaxTime = 2
  MaxEdits = 0
SPECIFICATION FairSpec
INVARIANTS AttemptOwnsProfile
PROPERTIES AdmissionSeesTunnels DeadOwnerReplaced NoReplay
CHECK_DEADLOCK FALSE
