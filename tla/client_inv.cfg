SPECIFICATION Spec
CONSTANTS
  N = 3
  MaxAttempts = 1
  MaxDrains = 2
  Configs <- SimpleConfigs
  Codes = {"fatal", "away", "1001", "clean", "keepalive", "refused", "other"}
  Closers = {1}
INVARIANT ClientInv
