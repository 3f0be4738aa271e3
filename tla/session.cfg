SPECIFICATION FairSpec
CONSTANTS
  NConns = 2
  MaxOps = 2
  MaxReplaced = 2
  SendsFail = TRUE
INVARIANTS OneRegister UnregisterWaits DeadNotRegistered
PROPERTY CloseEnds
CHECK_DEADLOCK FALSE
