SPECIFICATION FairSpec
CONSTANTS
  p1 = p1
  c1 = c1
  nochan = nochan
  Proc <- OneProc
  Chan <- OneChan
  Sent <- AllSent
  Masks <- AllMasks
INVARIANTS
  QueueMatchesState
  ResultTellsWhatEnded
PROPERTIES
  TimedSleepEnds
  KillIsServed
CHECK_DEADLOCK FALSE
