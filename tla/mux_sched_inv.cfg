SPECIFICATION Spec
CONSTANTS
  o1 = o1
  o2 = o2
  Openers = {o1, o2}
  MaxStreamID = 9
  MaxStreams = 2
  ClientMaxStreams = 2
  OutQueueCap = 2
  ControlQueueCap = 1
  LinkCap = 1
  RefusedOpenLimit = 2
  MaxWrites = 2
  MaxCancels = 1
  ServerCalls = {"Reset"}
  ClientCalls = {}
  MayDrain = FALSE
SYMMETRY Symmetry
INVARIANT RotationInv
CHECK_DEADLOCK FALSE
