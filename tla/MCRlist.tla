------------------------------ MODULE MCRlist ------------------------------
(* A resource of a few units, returned in extents of any length.           *)
EXTENDS Rlist
CONSTANTS p1, p2
TwoProc == {p1, p2}
=============================================================================
