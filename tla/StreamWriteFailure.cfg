CONSTANTS
  Sides = {"accepted"}
  Oneshots = {FALSE}
  Installed <- Callbacks
  AppCalls <- Writing
  EndsQueued = FALSE
  Timeouts = {}
  CanReset = TRUE
  SndBuf = 1
  MaxRecv = 1
  MaxWritten = 2
  MaxArrived = 1
  MaxDepth = 3
SPECIFICATION Spec
INVARIANT CheckedWhileAlive
CHECK_DEADLOCK FALSE
