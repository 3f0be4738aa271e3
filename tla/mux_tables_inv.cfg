SPECIFICATION Spec
CONSTANTS
  o1 = o1
  o2 = o2
  Openers = {o1, o2}
  MaxStreamID = 9
  MaxStreams = 2
  ClientMaxStreams = 1
  OutQueueCap = 2
  ControlQueueCap = 2
  LinkCap = 1
  RefusedOpenLimit = 2
  MaxWrites = 0
  MaxCancels = 0
  ServerCalls = {"CloseWrite", "Reset"}
  ClientCalls = {"CloseWrite", "Reset"}
  MayDrain = TRUE
SYMMETRY Symmetry
INVARIANT TablesInv
CHECK_DEADLOCK FALSE
