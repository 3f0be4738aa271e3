SPECIFICATION FairSpec
CONSTANTS
  o1 = o1
  Openers = {o1}
  MaxStreamID = 9
  MaxStreams = 1
  ClientMaxStreams = 1
  OutQueueCap = 2
  ControlQueueCap = 2
  LinkCap = 1
  RefusedOpenLimit = 2
  MaxWrites = 2
  MaxCancels = 1
  ServerCalls = {"CloseWrite"}
  ClientCalls = {}
  MayDrain = FALSE
PROPERTIES
  QueuedChunkCompletes
CHECK_DEADLOCK FALSE
