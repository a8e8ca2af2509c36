CONSTANTS
  Byte = {1, 2, 3}
  Junk = 0
  InitSize = 1
  Chunks <- MCChunks
  MaxQueued = 5
SPECIFICATION Spec
INVARIANTS
  TypeOK
  SizeAgrees
  QueuedIsWritten
  CapacityFollowsPeak
PROPERTY IsByteQueue
