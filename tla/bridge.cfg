SPECIFICATION FairSpec
CONSTANTS
  MaxBody = 2
  MaxWrite = 3
  Requests <- MCRequests
  Modes = {"handler", "target"}
INVARIANTS OneCompleteResponse ServeEndsStream WholeBodyOnly
PROPERTY CancelEnds
CHECK_DEADLOCK FALSE
