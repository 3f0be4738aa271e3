SPECIFICATION FairSpec
CONSTANTS
  N = 3
  MaxAttempts = 1
  MaxDrains = 1
  Configs <- MainConfig
  Codes = {"fatal", "away", "1001", "clean", "keepalive", "refused", "other"}
  Closers = {1}
PROPERTIES CloseEnds KeepsTrying
