CONSTANTS
  none = none
  Approvals <- MCApprovals
  Outputs <- MCOutputs
  Profiles <- MCProfiles
  Meaningless <- MCMeaningless
SPECIFICATION Spec
INVARIANTS
  OneSpelling
  CommandIsApproved
  ApprovedIsEnough
  DecodersAgree
