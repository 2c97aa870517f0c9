SPECIFICATION FairSpec
CONSTANTS
  f1 = f1
  f2 = f2
  f3 = f3
  Func <- ThreeFunc
  NCallout = 3
  MaxTime = 3
  MaxLate = 2
  MaxPer = 2
INVARIANTS
  TimesExact
  CancelIsFinal
PROPERTIES
  FiredInOrder
  ArmedIsServed
CHECK_DEADLOCK FALSE
