SPECIFICATION FairSpec
CONSTANTS
  Mains = {"main"}
  MaxCalls = 2
  MaxEvents = 2
INVARIANTS OneConnection LastWins ReturnsAfterClose
PROPERTIES CallsReturn ListenerCatchesUp
CHECK_DEADLOCK FALSE
