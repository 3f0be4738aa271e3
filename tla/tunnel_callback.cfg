SPECIFICATION FairSpec
CONSTANTS
  Mains = {"main"}
  MaxCalls = 2
  MaxEvents = 1
PROPERTY CallbackReturns
CHECK_DEADLOCK FALSE
