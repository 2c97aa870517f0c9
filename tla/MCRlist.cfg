SPECIFICATION RlistSpec
CONSTANTS
  p1 = p1
  p2 = p2
  Proc <- TwoProc
  Size = 6
INVARIANTS
  SpaceIsReturned
  RegionsAreFound
CHECK_DEADLOCK FALSE
