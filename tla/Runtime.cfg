SPECIFICATION Spec
CONSTANTS
  Offered = {"READ_FILE", "WRITE_FILE"}
  Tiers = {"admin", "family"}
  RetryLimit = 1
  MaxEvents = 22
  MaxCrashes = 2
  NoProposal = NoProposal
INVARIANTS AuthorizedFirst ReplayAgrees RepeatsBounded
PROPERTY ImplementsEffects
CHECK_DEADLOCK FALSE
