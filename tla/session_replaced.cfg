SPECIFICATION Spec
CONSTANTS
  NConns = 1
  MaxOps = 0
  MaxReplaced = 2
  SendsFail = FALSE
INVARIANT ConflictFirst
CHECK_DEADLOCK FALSE
