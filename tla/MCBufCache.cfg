SPECIFICATION Spec
CONSTANTS
  p1 = p1
  p2 = p2
  b1 = b1
  b2 = b2
  k1 = k1
  k2 = k2
  k3 = k3
  v1 = v1
  none = none
  BufSpace = 3
  Proc <- TwoProc
  Buf <- TwoBuf
  Block <- ThreeBlock
  Vnode <- OneVnode
  VnodeOf <- SameVnode
  SizeOf <- SameSize
  Uses <- AllUses
  NoMemory = TRUE
  MaxVer = 1
SYMMETRY SameSymmetry
INVARIANTS
  Accounted
  SleepersCovered
  
  NothingLost
  NotAllAsleep
PROPERTIES
  SyncReachesDisk
CHECK_DEADLOCK FALSE
