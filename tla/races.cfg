SPECIFICATION RacesSpec
CONSTANTS
  collect = collect
  deploy = deploy
  tidy = tidy
  missing = missing
  NoStep = NoStep
  Steps <- MCPair
  Entry <- collect
  RequestSteps <- MCRequestSteps
  GatedSteps <- MCGatedSteps
  OnSuccess <- MCPairOnSuccess
  OnFailure <- MCPairOnFailure
  PauseAfter <- MCRequestSteps
  Threads = {t1, t2}
  RequestIds = {1, 2, 3, 4}
  MaxCrashes = 0
  Turns = {e1, e2}
  Sockets = {w1}
  MaxEnters = 1
INVARIANTS OneOpenRequest TabsHold
PROPERTIES CancelledIsSealed
CHECK_DEADLOCK FALSE
SYMMETRY Symmetry
