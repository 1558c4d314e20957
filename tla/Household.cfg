SPECIFICATION HouseholdSpec
CONSTANTS
  Sizes = {1, 4}
  MaxChars = 5
  Keep = 3
  MaxContext = 3
  MaxFiles = 1
  Users = {"u"}
  Devices = {"d"}
  Tiers = {"family", "friends"}
  Reload = 1
  Topics = {"name", "likes"}
  FactValues = {"a", "b"}
  ListTopics = {"likes"}
  GatewayThreads = {"g1", "g2"}
  ToolProcesses = {"t"}
  Texts = {}
  Voices = {"v"}
  Mentions = {"g"}
  GroupVoices = {}
  MaxAttempts = 2
  MaxBuffer = 1
  MaxSockets = 2
  MaxDeliveries = 2
  Chunks = {"a", "b"}
  Outer = {}
  Workers = {"w1", "w2"}
  Boot = "boot"
  MaxQueue = 2
  MaxBatch = 2
  MaxAge = 1
  MonitorAge = 0
  Flows = {"f"}
  PoolWorkers = {"w"}
  Containers = {"c"}
  MaxDays = 2
  MaxSaid = 5
  MaxFacts = 3
  MaxRewrites = 3
  MaxStarts = 2
  MaxRows = 3
  MaxNights = 4
  MaxTokens = 3
INVARIANT HistoryHasNoHole
INVARIANT HistoryTogether
INVARIANT FactsAgree
INVARIANT OncePerDelivery
INVARIANT IndexIsTrue
INVARIANT Remembered
INVARIANT TokensKept
PROPERTY TierIsCurrent
CHECK_DEADLOCK FALSE
