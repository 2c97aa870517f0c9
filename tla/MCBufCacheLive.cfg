SPECIFICATION FairSpec
CONSTANTS
  p1 = p1
  p2 = p2
  b1 = b1
  b2 = b2
  k1 = k1
  k2 = k2
  k3 = k3
  v1 = v1
  none = none
  BufSpace = 3
  Proc <- TwoProc
  Buf <- OneBuf
  Block <- TwoBlock
  Vnode <- OneVnode
  VnodeOf <- SameVnode
  SizeOf <- TwoSizes
  Uses <- NoReadAhead
  NoMemory = FALSE
  MaxVer = 1
PROPERTIES
  WaitsEnd
CHECK_DEADLOCK FALSE
