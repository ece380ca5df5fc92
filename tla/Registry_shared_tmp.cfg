CONSTANTS
  prof1 = prof1
  prof2 = prof2
  None = None
  Procs = {writer1, writer2}
  Profiles <- MCProfiles
  Texts <- MCTexts
  Installed <- MCInstalled
  Inodes <- MCInodes
  ListMax = 1
SYMMETRY Symmetry
VIEW View
SPECIFICATION Spec
INVARIANTS
  MalformedNeverExists
