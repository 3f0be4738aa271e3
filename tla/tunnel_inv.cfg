SPECIFICATION Spec
CONSTANTS
  Mains = {"main"}
  MaxCalls = 3
  MaxEvents = 1
INVARIANT TunnelInv
CHECK_DEADLOCK FALSE
