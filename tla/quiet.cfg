SPECIFICATION QuietSpec
CONSTANTS
  s1 = s1
  s2 = s2
  k1 = k1
  k2 = k2
  Streams <- MCStreams
  First = s1
  Stops <- MCStops
  None = None
  MaxSlices = 2
  MaxControlFails = 1
  c1 = c1
  c2 = c2
  Chains <- MCChains
  NoChain = NoChain
  Triggers = {t}
  Agents = {a}
  RunIds = {1, 2}
  MaxRequests = 1
  MaxJobs = 1
  MaxFails = 1
  now = now
  once = once
  Criteria = {now, once}
  Conditional = {once}
  Historical = {once}
  Clarifying = {once}
  MaxChanges = 2
  MaxClarified = 1
  MaxTries = 2
  WebCalls = {"x", "y"}
  Results = {"green", "red"}
  MaxAttempted = 7
  MaxRuns = 3
  MaxEpochs = 1
  MaxBreaks = 1
VIEW View
SYMMETRY Symmetry
INVARIANTS
  QuietTypeOK OneGeneration AckMeansClean ResumeIsFreshUncrossed
  AdmissionClosed DrainedIsQuietUncrossed SchedulerAlive
  VerdictsHold RepeatsHold
PROPERTIES StopEndsSessionUnsplit
CHECK_DEADLOCK FALSE
