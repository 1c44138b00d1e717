SPECIFICATION Spec
CONSTANTS
  c1 = c1
  c2 = c2
  Chains <- MCChains
  NoChain = NoChain
  Triggers = {t}
  Agents = {a}
  RunIds = {1, 2}
  MaxRequests = 1
  MaxJobs = 1
  MaxFails = 1
SYMMETRY Symmetry
INVARIANTS DrainedIsQuiet
CHECK_DEADLOCK FALSE
