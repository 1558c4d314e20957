SPECIFICATION Spec
CONSTANTS
  Clients = {"page", "device"}
  MaxCalls = 3
  MaxPosts = 3
INVARIANTS ConsentUsedOnce PromptApprovalIsRight
CHECK_DEADLOCK FALSE
