CONSTANTS
  Sides = {"accepted", "connected"}
  Oneshots = {FALSE, TRUE}
  Installed <- Silent
  AppCalls <- Patient
  EndsQueued = TRUE
  Timeouts = {}
  CanReset = TRUE
  SndBuf = 1
  MaxRecv = 1
  MaxWritten = 2
  MaxArrived = 1
  MaxDepth = 3
SPECIFICATION FairSpec
PROPERTIES
  QueuedIsDrained
  BothEndedCloses
CHECK_DEADLOCK FALSE
