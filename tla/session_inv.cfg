SPECIFICATION Spec
CONSTANTS
  NConns = 2
  MaxOps = 2
  MaxReplaced = 2
  SendsFail = TRUE
INVARIANT SessionInv
CHECK_DEADLOCK FALSE
