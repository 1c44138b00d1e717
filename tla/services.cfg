SPECIFICATION ServicesSpec
CONSTANTS
  a1 = a1
  i1 = i1
  i2 = i2
  i3 = i3
  InputIds <- MCInputs
  MaxSessions = 3
  MaxInputFails = 1
  MaxQueued = 2
  MaxCalls = 3
  BatchSizes = {1, 2}
  MaxAttempts = 3
  MaxFailures = 2
  p1 = p1
  p2 = p2
  p3 = p3
  r1 = r1
  r2 = r2
  Processes <- MCProcesses
  Runs <- MCRuns
  ParentOf <- MCParentOf
  NoRunId = NoRunId
  NoProcess = NoProcess
  UnlinksOpen = TRUE
  Solvers = {u1, u2}
  MaxCards = 2
  MaxAnswers = 3
  Jobs = {j1}
  JobThreads = {t1, t2}
  NoJob = NoJob
  NoThread = NoThread
  MaxCrashes = 2
  MaxJobFails = 2
  Contents = {"a", "b"}
  MaxEdits = 3
  MaxPasses = 1
  Specs = {"a", "b"}
  Callers = {c1}
  MaxClients = 2
  MaxSaves = 2
  Secrets = {x1}
  NoSecret = NoSecret
  MaxKeyUses = 4
  Chats = {b1}
  ApiThreads = {a1, a2}
  MaxUpdates = 2
  MaxReceivers = 2
  RequestIds = {q1, q2}
  Sessions = {n1, n2}
  NoRequest = NoRequest
  NoSession = NoSession
  MaxQueue = 1
  MaxRestarts = 2
  MaxServices = 2
  turn1 = turn1
  turn2 = turn2
  ChatRuns <- MCChatRuns
  NoRun = NoRun
  MaxRequests = 2
  MaxMishaps = 1
VIEW View
INVARIANTS
  ServicesTypeOK
  InputsHold RunRemembers OneNamedWriter CardsWork
  JobsAreHonest InSync ClientsAreOwned SecretsHold MessagesHold
  ReceiptsAreTrue ClosedStaysClosed
  StopIsTrue ChatHolds
PROPERTIES LeaseIsExclusive
CHECK_DEADLOCK FALSE
