SPECIFICATION Spec
CONSTANTS
  NConns = 1
  MaxOps = 2
  MaxReplaced = 0
  SendsFail = FALSE
INVARIANT RegisterNotLost
CHECK_DEADLOCK FALSE
