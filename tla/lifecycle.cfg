SPECIFICATION FairSpec
CONSTANTS
  Roles = {"server", "client"}
  ControlQueueCap = 1
  DeliveryQueueCap = 1
  MaxFrames = 2
  MaxApps = 1
INVARIANTS
  OneWriter
  EndsOnce
  DeliveredIffCurrent
PROPERTIES
  ErrSettled
  EndCompletes
CHECK_DEADLOCK FALSE
