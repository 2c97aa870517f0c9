------------------------------- MODULE MCLock -------------------------------
(* Instances of Lock for TLC: three processes, with nested requests.     *)
EXTENDS Lock

CONSTANTS p1, p2, p3
MCProc == {p1, p2, p3}
=============================================================================
