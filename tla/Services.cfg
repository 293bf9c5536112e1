\* Goals, the gateway, the relay, the workspaces, the HTTP runtime, the
\* scheduler and the conversations, each on an instance of its own.
SPECIFICATION MCSpec
CONSTANTS
  Parts = {"goals", "gateway", "relay", "workspaces", "remote", "schedule", "conversations"}
  MaxRevision = 3
  MaxGoalAttempts = 2
  Plans <- MCPlans
  Progress <- MCProgress
  Limits <- MCLimits
  Costs = {1, 3}
  MaxVersion = 3
  MaxDecisions = 1
  Reasons = {"A", "B", "TIMEOUT"}
  GwAttempts = {"a1"}
  MaxCalls = 2
  MaxInflight = 2
  MaxAttemptTokens = 7
  MaxAttemptCost = 6
  InputPrice = 1
  OutputPrice = 3
  PriceUnit = 2
  Overhead = 1
  BodyLengths = {1}
  Wanted = {2, 9}
  Growth = {0, 2}
  RelayWorkers = {"w1"}
  MaxPairs = 2
  Connections = 2
  PairsPerWorker = 1
  MaxSpent = 4
  MaxRelayEpoch = 2
  WsAttempts = {"a1", "a2", "a3"}
  LegacyAttempts = {"a3"}
  WarmSlots = 1
  MaxFaultsWs = 1
  Environments = {"process", "container"}
  MaxRtEvents = 2
  MaxRtFaults = 2
  Groups <- MCGroups
  TopPriority = 1
  MaxQueued = 3
  MaxQueuedProject = 2
  MaxSchedulerGroups = 2
  MaxTasks = 2
  ConvKeys = {"k1", "k2"}
  ConvBodies = {"b1"}
  ConvCallers = {"c1", "c2"}
  MaxActive = 1
  MaxConvJobs = 2
INVARIANTS
  ServicesTypeOK
  CostHandedOutOnce
  OneRevisionRuns
  LoopsAreApproved
  AttemptWithinBudget
  CliContained
  RelayPairsOnce
  WorkspaceSound
  RemoteRunSound
  
  ConversationSound
CHECK_DEADLOCK FALSE
