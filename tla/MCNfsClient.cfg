SPECIFICATION Spec
CONSTANTS
  p1 = p1
  p2 = p2
  Procs <- TwoProcs
  Retry = 1
  NFS_MAXWINDOW = 2
  MaxXid = 2
INVARIANTS
  SentCounted
  SocketSleepersCovered
PROPERTIES
  RequestEnds
CHECK_DEADLOCK FALSE
