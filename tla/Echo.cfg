CONSTANTS
  ClientCalls <- EchoClientCalls
  ServerCalls <- EchoServerCalls
  ClientInstalled <- EchoClientInstalled
  ServerInstalled <- EchoServerInstalled
  ClientWrites = 4
  ServerWrites = 4
  ClientOneshots = {TRUE}
  ServerOneshots = {TRUE}
  EndsQueued = TRUE
  CanReset = FALSE
  SndBuf = 2
  MaxRecv = 2
  MaxDepth = 3
  Message = 4
SPECIFICATION EchoSpec
INVARIANTS
  EchoMatches
  NothingFails
PROPERTY EchoCompletes
CHECK_DEADLOCK FALSE
