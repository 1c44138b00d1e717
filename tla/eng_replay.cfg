SPECIFICATION Spec
CONSTANTS
  collect = collect
  deploy = deploy
  tidy = tidy
  missing = missing
  NoStep = NoStep
  Steps <- MCPair
  Entry <- collect
  RequestSteps <- MCRequestSteps
  GatedSteps = {}
  OnSuccess <- MCPairOnSuccess
  OnFailure <- MCPairOnFailure
  PauseAfter = {}
  Threads = {t1}
  RequestIds = {1, 2, 3, 4}
  MaxCrashes = 1
PROPERTIES NoBlindReplay
CHECK_DEADLOCK FALSE
