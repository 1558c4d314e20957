SPECIFICATION Spec
CONSTANTS
  MaxRows = 3
  MaxDays = 4
  MaxAge = 1
  MonitorAge = 0
INVARIANT DaySummarised
CHECK_DEADLOCK FALSE
