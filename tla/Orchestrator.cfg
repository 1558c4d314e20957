SPECIFICATION Spec
CONSTANTS
  c1 = c1
  c2 = c2
  s1 = s1
  Calls = {c1, c2}
  Sessions = {s1}
  SessionOf <- OneSession
  MaxRetries = 3
  MaxToolCalls = 2
  MaxBatch = 2
  LostClasses = {"httpx.ConnectError", "aiohttp.ClientConnectorError"}
  NoCall = NoCall
INVARIANTS OutcomeRecorded AloneIsCancellable
PROPERTIES StopHolds RequestsEnd
CHECK_DEADLOCK FALSE
