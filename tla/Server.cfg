CONSTANTS
  Clients = {c1, c2, c3}
  Families = {"unix", "tcp"}
  Failures = {"socket", "fcntl", "bind", "listen", "accept"}
  Installed <- Callbacks
  AppCalls <- Careful
  MaxQueue = 2
SPECIFICATION FairSpec
INVARIANTS
  TypeOK
  ClosesItsDescriptor
  NoneLeftBehind
  FailureIsFatal
  UsedWhileAlive
PROPERTIES
  NothingAfterClose
  ConnectionsAreServed
CHECK_DEADLOCK FALSE
