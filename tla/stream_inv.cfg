SPECIFICATION Spec
CONSTANTS
  Window <- WindowDown4
  MaxChunk = 5
  MaxSendWindow = 4
  OutQueueCap = 1
  ControlQueueCap = 1
  LinkCap = 2
  WriteSizes = {5}
  ReadSizes = {3}
  MaxBytes <- Bytes5Down
  MaxCancels = 1
  Calls <- ClosesAndResets
  MayDie = {}
INVARIANTS
  FinInv
  PipeInv
  ChansInv
CHECK_DEADLOCK FALSE
