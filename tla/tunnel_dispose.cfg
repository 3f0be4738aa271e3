SPECIFICATION FairSpec
CONSTANTS
  Mains = {"one", "two"}
  MaxCalls = 2
  MaxEvents = 0
PROPERTY EveryCallReturns
CHECK_DEADLOCK FALSE
