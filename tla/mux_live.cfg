SPECIFICATION FairSpec
CONSTANTS
  o1 = o1
  o2 = o2
  Openers = {o1, o2}
  MaxStreamID = 1
  MaxStreams = 1
  ClientMaxStreams = 1
  OutQueueCap = 2
  ControlQueueCap = 1
  LinkCap = 1
  RefusedOpenLimit = 2
  MaxWrites = 2
  MaxCancels = 0
  ServerCalls = {}
  ClientCalls = {"Reset"}
  MayDrain = TRUE
PROPERTIES
  WritesReturn
  OpenStreamReturns
  DrainEnds
CHECK_DEADLOCK FALSE
