SPECIFICATION Spec
CONSTANTS
  Clients = {"page"}
  MaxCalls = 2
  MaxPosts = 3
INVARIANT RunsWhatWasApproved
CHECK_DEADLOCK FALSE
