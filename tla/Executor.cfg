SPECIFICATION Spec
CONSTANTS
  search = search
  email = email
  x = x
  y = y
  z = z
  bad = bad
  send = send
  Paths = {"admin", "tier"}
  Tools = {search, email}
  Calls = {x, y, z, bad, send}
  ToolOf <- ToolOfCall
  BadCalls = {bad}
  HighRisk = {email}
  MAX_TOOL_CALLS = 2
  MaxPerTool = 2
  MaxBatch = 2
INVARIANTS CallsAnswered NoCallRepeated ModelCallsBounded
CHECK_DEADLOCK FALSE
