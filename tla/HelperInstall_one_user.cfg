SPECIFICATION Spec
CONSTANTS
  Users = {u1}
  None = None
  Foreign = Foreign
  MaxBuilds = 2
  MaxEdits = 2
  Interruptible <- Both
  StepsFail = TRUE
  ReadsFail = FALSE
  RemovalsFail = TRUE
  OneAtATime = TRUE
INVARIANTS
  GrantsNameTheHelper
  HelperIsComplete
  LiveIsProven
PROPERTIES
  OldRuleStays
  ForeignIsLeftAlone
  LegacyIsRetired
