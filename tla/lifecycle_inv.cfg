SPECIFICATION Spec
CONSTANTS
  Roles = {"server", "client"}
  ControlQueueCap = 1
  DeliveryQueueCap = 1
  MaxFrames = 2
  MaxApps = 1
INVARIANT LifeInv
CHECK_DEADLOCK FALSE
