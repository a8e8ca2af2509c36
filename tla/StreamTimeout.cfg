CONSTANTS
  Sides = {"accepted", "connected"}
  Oneshots = {FALSE}
  Installed <- Callbacks
  AppCalls <- Timed
  EndsQueued = FALSE
  Timeouts = {0, 2, 3}
  CanReset = TRUE
  SndBuf = 1
  MaxRecv = 2
  MaxWritten = 1
  MaxArrived = 1
  MaxDepth = 3
SPECIFICATION Spec
INVARIANTS
  ArmedInTime
  FreedIsUnwatched
PROPERTY TimeoutIsCovered
CHECK_DEADLOCK FALSE
