SPECIFICATION Spec
CONSTANTS
  collect = collect
  deploy = deploy
  tidy = tidy
  missing = missing
  NoStep = NoStep
  Steps <- MCPair
  Entry <- collect
  RequestSteps <- MCRequestSteps
  GatedSteps <- MCGatedSteps
  OnSuccess <- MCPairOnSuccess
  OnFailure <- MCPairOnFailure
  PauseAfter <- MCRequestSteps
  Threads = {t1, t2}
  RequestIds = {1, 2, 3, 4}
  MaxCrashes = 0
PROPERTIES ApprovalUsedOnce
CHECK_DEADLOCK FALSE
