SPECIFICATION Spec
CONSTANTS
  init = init
  pa = pa
  pb = pb
  pc = pc
  s1 = s1
  s2 = s2
  s3 = s3
  s4 = s4
  s5 = s5
  none = none
  Proc <- ThreeProcs
  Session <- FourSessions
  Shell = pa
  FirstPid = 2
  PID_MAX = 6
  ShellPid = 2
  StartPid = 2
  LastPid = 0
  maxproc = 3
  WaitFor = {"pgrp"}
INVARIANT PidsUnique
CHECK_DEADLOCK FALSE
