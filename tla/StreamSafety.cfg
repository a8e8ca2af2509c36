CONSTANTS
  Sides = {"accepted", "connected"}
  Oneshots = {FALSE, TRUE}
  Installed <- Callbacks
  AppCalls <- Careful
  EndsQueued = FALSE
  Timeouts = {}
  CanReset = TRUE
  SndBuf = 1
  MaxRecv = 2
  MaxWritten = 3
  MaxArrived = 3
  MaxDepth = 3
SPECIFICATION Spec
INVARIANTS
  TypeOK
  SentInOrder
  QueuedIsWatched
  ReadsUntilFin
  StateTellsDirections
  BothFinsClose
  EndSeesAllData
  CleanCloseIsComplete
  OneshotHasBuffer
  FreedTouchedOnlyAfterFailedSend
PROPERTY NothingAfterClose
CHECK_DEADLOCK FALSE
