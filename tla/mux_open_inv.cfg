SPECIFICATION Spec
CONSTANTS
  o1 = o1
  o2 = o2
  o3 = o3
  Openers = {o1, o2, o3}
  MaxStreamID = 9
  MaxStreams = 2
  ClientMaxStreams = 2
  OutQueueCap = 2
  ControlQueueCap = 2
  LinkCap = 1
  RefusedOpenLimit = 2
  MaxWrites = 0
  MaxCancels = 0
  ServerCalls = {"CloseWrite"}
  ClientCalls = {"CloseWrite"}
  MayDrain = TRUE
SYMMETRY Symmetry
INVARIANT OpenInv
CHECK_DEADLOCK FALSE
