----------------------------- MODULE MCNfsServer -----------------------------
(* Instance of NfsServer for TLC: the first request is not idempotent.     *)
EXTENDS NfsServer
CONSTANTS d1, d2, d3
ThreeNfsds == {d1, d2, d3}
FirstXid == {1}
=============================================================================
