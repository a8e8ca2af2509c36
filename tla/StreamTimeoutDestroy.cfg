CONSTANTS
  Sides = {"accepted"}
  Oneshots = {TRUE}
  Installed <- Callbacks
  AppCalls <- Destroying
  EndsQueued = FALSE
  Timeouts = {1}
  CanReset = FALSE
  SndBuf = 1
  MaxRecv = 1
  MaxWritten = 2
  MaxArrived = 1
  MaxDepth = 3
SPECIFICATION Spec
INVARIANT TimeoutMayDestroy
CHECK_DEADLOCK FALSE
