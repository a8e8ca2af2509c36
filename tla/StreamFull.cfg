CONSTANTS
  Sides = {"accepted"}
  Oneshots = {FALSE}
  Installed <- Callbacks
  AppCalls <- Writing
  EndsQueued = FALSE
  Timeouts = {}
  CanReset = FALSE
  SndBuf = 1
  MaxRecv = 1
  MaxWritten = 2
  MaxArrived = 1
  MaxDepth = 3
SPECIFICATION Spec
INVARIANT FullIsQueued
CHECK_DEADLOCK FALSE
