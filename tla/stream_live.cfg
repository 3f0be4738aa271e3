SPECIFICATION FairSpec
CONSTANTS
  Window <- Window1
  MaxChunk = 1
  MaxSendWindow = 1
  OutQueueCap = 1
  ControlQueueCap = 1
  LinkCap = 1
  WriteSizes = {2}
  ReadSizes = {1}
  MaxBytes <- Bytes2Down
  MaxCancels = 0
  Calls <- ServerHalfCloses
  MayDie = {"server", "client"}
PROPERTIES
  WriteReturnsEventually
  HalfCloseEndsReads
  ConnEndReleases
CHECK_DEADLOCK FALSE
