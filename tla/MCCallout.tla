------------------------------ MODULE MCCallout ------------------------------
(* An instance of Callout for TLC.                                         *)
EXTENDS Callout

CONSTANTS f1, f2, f3
ThreeFunc == {f1, f2, f3}
=============================================================================
