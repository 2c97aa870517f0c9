SPECIFICATION Spec
CONSTANTS
  d1 = d1
  d2 = d2
  d3 = d3
  Nfsds <- ThreeNfsds
  MaxXid = 2
  NonIdempotent <- FirstXid
  CacheSize = 1
  MaxReboots = 1
INVARIANTS
  EntrySleepersCovered
  InProgressIsServed
PROPERTIES
  RetransmissionAnswered
  ImplementsRpcServer
CHECK_DEADLOCK FALSE
