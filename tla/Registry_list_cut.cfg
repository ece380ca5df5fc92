CONSTANTS
  prof1 = prof1
  prof2 = prof2
  None = None
  Procs = {writer1, writer2}
  Profiles <- MCProfiles
  Texts <- MCTexts
  Installed <- MCNothing
  Inodes <- MCInodes
  ListMax = 1
SPECIFICATION Spec
INVARIANTS
  NeverSilentlyTruncated
