SPECIFICATION Spec
CONSTANTS
  Releases = {a}
  Edited = {a}
  NoRelease = NoRelease
  a = a
  b = b
  MaxVersion = 2
  MaxProposals = 2
  MaxWork = 0
  MaxFaults = 0
  StagedBusy = FALSE
PROPERTIES InstalledAsConfirmed
CHECK_DEADLOCK FALSE
