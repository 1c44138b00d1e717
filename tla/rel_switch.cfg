SPECIFICATION FairSpec
CONSTANTS
  a = a
  b = b
  Releases <- MCReleases
  Edited = {b}
  NoRelease = NoRelease
  MaxVersion = 2
  MaxProposals = 2
  MaxWork = 1
  MaxFaults = 2
  StagedBusy = FALSE
INVARIANTS NoWorkLost ServesSelected
PROPERTIES SwitchAtomic SwitchEnds
