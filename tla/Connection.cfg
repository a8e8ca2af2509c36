CONSTANTS
  ClientCalls <- Talking
  ServerCalls <- Leaving
  ClientInstalled <- Silent
  ServerInstalled <- Silent
  ClientWrites = 2
  ServerWrites = 2
  ClientOneshots = {FALSE}
  ServerOneshots = {TRUE}
  EndsQueued = FALSE
  CanReset = TRUE
  SndBuf = 1
  MaxRecv = 2
  MaxDepth = 3
SPECIFICATION FairSpec
PROPERTIES
  BothEndedBothClose
  ToServerIsPipe
  ToClientIsPipe
CHECK_DEADLOCK FALSE
