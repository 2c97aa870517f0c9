SPECIFICATION FairSpec
CONSTANTS
  p1 = p1
  p2 = p2
  p3 = p3
  Proc <- MCProc
  nothread = nothread
  MaxNest = 2
INVARIANTS
  LockInv
  Exclusion
  WaitingCoversSleepers
PROPERTIES
  WriterNotOvertaken
  ImplementsRWLock
  WaitersServed
