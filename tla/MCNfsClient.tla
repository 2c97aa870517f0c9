----------------------------- MODULE MCNfsClient -----------------------------
(* Instance of NfsClient for TLC.                                          *)
EXTENDS NfsClient
CONSTANTS p1, p2
TwoProcs == {p1, p2}
=============================================================================
