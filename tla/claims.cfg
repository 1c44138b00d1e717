SPECIFICATION ClaimsSpec
CONSTANTS
  collect = collect
  deploy = deploy
  tidy = tidy
  missing = missing
  NoStep = NoStep
  Steps <- MCSteps
  Entry <- collect
  RequestSteps <- MCRequestSteps
  GatedSteps <- MCGatedSteps
  OnSuccess <- MCOnSuccess
  OnFailure <- MCOnFailure
  PauseAfter <- MCRequestSteps
  Threads = {t1}
  RequestIds = {1, 2, 3, 4}
  MaxCrashes = 2
  c1 = c1
  c2 = c2
  Chains <- MCChains
  NoChain = NoChain
  Triggers = {t}
  Agents = {}
  RunIds = {1}
  MaxRequests = 0
  MaxJobs = 0
  MaxFails = 1
INVARIANTS ClaimHasOwner 
PROPERTIES ClaimSettles DueIsClaimed
CHECK_DEADLOCK FALSE
