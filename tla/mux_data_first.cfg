SPECIFICATION Spec
CONSTANTS
  o1 = o1
  o2 = o2
  Openers = {o1, o2}
  MaxStreamID = 9
  MaxStreams = 2
  ClientMaxStreams = 2
  OutQueueCap = 2
  ControlQueueCap = 2
  LinkCap = 1
  RefusedOpenLimit = 2
  MaxWrites = 1
  MaxCancels = 0
  ServerCalls = {}
  ClientCalls = {}
  MayDrain = FALSE
SYMMETRY Symmetry
INVARIANTS
  OpenBeforeData
CHECK_DEADLOCK FALSE
