SPECIFICATION Spec
CONSTANTS
  Calls = {c1, c2, c3}
  Cacheable = {c1, c2}
  Reloads = {c3}
  MaxWorkers = 2
  Versions = {1, 2}
INVARIANT ReloadTakesEffect
CHECK_DEADLOCK FALSE
