SPECIFICATION Spec
CONSTANTS
  a = a
  b = b
  Releases <- MCReleases
  Edited = {}
  NoRelease = NoRelease
  MaxVersion = 1
  MaxProposals = 1
  MaxWork = 1
  MaxFaults = 1
  StagedBusy = TRUE
SYMMETRY Symmetry
INVARIANTS NoWorkLost
CHECK_DEADLOCK FALSE
