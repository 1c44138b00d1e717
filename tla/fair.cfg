SPECIFICATION FairParts
CONSTANTS
  deploy = deploy
  NoStep = NoStep
  Steps <- MCRetry
  Entry <- deploy
  RequestSteps = {}
  GatedSteps <- MCRetry
  OnSuccess <- MCRetryOnSuccess
  OnFailure <- MCRetryOnFailure
  PauseAfter = {}
  Threads = {t1, t2}
  RequestIds = {1, 2, 3}
  MaxCrashes = 0
  s1 = s1
  s2 = s2
  Streams <- MCStreams
  First = s1
  Stops = {k1}
  None = None
  MaxSlices = 2
  MaxControlFails = 1
  InputIds = {i1, i2, i3}
  MaxSessions = 3
  MaxInputFails = 1
  MaxQueued = 2
PROPERTIES StopQuiesces OneLateCall StopTerminates QueuedIsRead
CHECK_DEADLOCK FALSE
