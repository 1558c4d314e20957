SPECIFICATION Spec
CONSTANTS
  Paths = {p1, p2}
  Workspace = {p1}
  Readings = {0, 1, 2, 3, 4, 5}
  Threshold = 4
  Near = 3
  Window = 3
  MinRise = 2
  Pages = {page}
  Cooldowns = {2, 3}
  Idles = {2}
  Rates = {2}
  Recent = 1
  AlertCooldown = 2
  MaxChanges = 3
  MaxMessages = 3
  MaxTicks = 4
  Configured = {"openai"}
  Chars = {"<", "a", "b", ">"}
  Tags <- ShortAndLong
  MaxPiece = 2
  MaxText = 5
  Sections = {"name", "models"}
  Values = {"a", "b"}
  Callers = {"lifespan", "c1", "c2"}
  Lifespan = "lifespan"
  Archs = {101, 102}
  Numbers = {1, 2, 3}
  MaxList = 3
  MaxOffset = 4
  Calls = {"c1", "c2", "c3"}
  Cacheable = {"c1", "c2"}
  Reloads = {"c3"}
  MaxWorkers = 2
  Versions = {1, 2}
  Commands = {"c1", "c2"}
  Ports = {80, 8000}
  MaxEdits = 3
  MaxSpawns = 3
  MaxFaults = 2
  MaxProcesses = 4
  MaxServers = 2
INVARIANT ChangesNoticed
INVARIANT AlarmsCounted
INVARIANT StreamKept
INVARIANT SettingsKept
INVARIANT ServerIsHeld
INVARIANT FilterExact
INVARIANT CallsSettled
INVARIANT OwnAnswer
INVARIANT GatewayIsKnown
PROPERTY EngineHonest
CHECK_DEADLOCK FALSE
