SPECIFICATION Spec
CONSTANTS
  Types = {"SYS_THRESHOLD", "FS_CHANGE", "MONITOR_STATUS"}
  MaxEvents = 3
  RecentLen = 2
INVARIANT UrgentFirst
PROPERTIES EventuallyHandled ImplementsMailbox
CHECK_DEADLOCK FALSE
