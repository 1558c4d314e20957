SPECIFICATION Spec
CONSTANTS
  a1 = a1
  a2 = a2
  b1 = b1
  proc1 = proc1
  proc2 = proc2
  Procs = {proc1, proc2}
  Attempts = {a1, a2, b1}
  Requests = {r}
  ProcOf <- TwoProcesses
  TTL = 0
  MaxTime = 1
  MaxLedger = 3
  NoRequest = NoRequest
INVARIANTS ResolvedOnce CacheIsTrue
PROPERTY SlotReleased
CHECK_DEADLOCK FALSE
