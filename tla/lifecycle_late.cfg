SPECIFICATION Spec
CONSTANTS
  Roles = {"server", "client"}
  ControlQueueCap = 1
  DeliveryQueueCap = 1
  MaxFrames = 1
  MaxApps = 0
INVARIANTS
  EveryEventDelivered
CHECK_DEADLOCK FALSE
