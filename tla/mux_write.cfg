SPECIFICATION FairSpec
CONSTANTS
  o1 = o1
  Openers = {o1}
  MaxStreamID = 9
  MaxStreams = 1
  ClientMaxStreams = 1
  OutQueueCap = 2
  ControlQueueCap = 1
  LinkCap = 1
  RefusedOpenLimit = 2
  MaxWrites = 3
  MaxCancels = 2
  ServerCalls = {"CloseWrite"}
  ClientCalls = {"Reset"}
  MayDrain = TRUE
PROPERTIES
  WritesReturn
CHECK_DEADLOCK FALSE
