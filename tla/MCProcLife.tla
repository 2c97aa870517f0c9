----------------------------- MODULE MCProcLife -----------------------------
(* Instances of ProcLife for TLC.                                          *)
EXTENDS ProcLife
CONSTANTS pa, pb, pc, s1, s2, s3, s4, s5
ThreeProcs == {init, pa, pb}
FourProcs == {init, pa, pb, pc}
FourSessions == {s1, s2, s3, s4}
FiveSessions == {s1, s2, s3, s4, s5}
=============================================================================
