SPECIFICATION Spec
CONSTANTS
  init = init
  pa = pa
  pb = pb
  pc = pc
  s1 = s1
  s2 = s2
  s3 = s3
  s4 = s4
  s5 = s5
  none = none
  Proc <- FourProcs
  Session <- FiveSessions
  Shell = pa
  FirstPid = 2
  PID_MAX = 7
  ShellPid = 2
  StartPid = 5
  LastPid = 4
  maxproc = 4
  WaitFor = {"pgrp"}
INVARIANTS
  
  
  RunUnused
  WaitersCovered
PROPERTIES
  OrphansReaped
CHECK_DEADLOCK FALSE
