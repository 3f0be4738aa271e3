SPECIFICATION Spec
CONSTANTS
  MaxBody = 2
  MaxWrite = 3
  Requests <- MCRequests
  Modes = {"handler", "target"}
INVARIANT BridgeInv
CHECK_DEADLOCK FALSE
