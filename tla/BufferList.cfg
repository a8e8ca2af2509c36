CONSTANTS
  Byte = {1, 2, 3, 4, 5, 6, 7, 8, 9, 10}
  BlockSize = 2
  Slots = 1
  Chunks <- MCChunks
  MaxUsed = 8
SPECIFICATION Spec
INVARIANTS
  TypeOK
  CountersAgree
  BlocksAreFilled
  BlockFollowsDemand
PROPERTY IsByteLog
CHECK_DEADLOCK FALSE
