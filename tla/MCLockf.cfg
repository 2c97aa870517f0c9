SPECIFICATION LockfSpec
CONSTANTS
  p1 = p1
  p2 = p2
  file1 = file1
  Procs <- TwoProcs
  Files <- OneFile
  MaxByte = 1
  Extents <- FourExtents
  MaxLocks = 2
  MaxFreed = 1
  MAXDEPTH = 1
SYMMETRY Same
INVARIANTS
  OwnLocksInOrder
  SleeperIsBlocked
  DeadlockIsFound
PROPERTIES
  ImplementsRangeLocks
CHECK_DEADLOCK FALSE
