SPECIFICATION Spec
CONSTANTS
  Callers = {"chat", "background"}
  MaxSteps = 3
  CRITIC_K = 2
  MaxRetries = 2
  LostClass = "httpx.ConnectError"
INVARIANT OutcomeMatchesSteps
PROPERTIES TaskEnds ImplementsDag
CHECK_DEADLOCK FALSE
