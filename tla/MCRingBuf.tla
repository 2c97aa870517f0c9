----------------------------- MODULE MCRingBuf -----------------------------
(* Two rings of a few characters each.                                     *)
EXTENDS RingBuf, TLC
CONSTANTS r1, r2
TwoRings == {r1, r2}
TwoChars == {7, 200}
Symmetry == Permutations(TwoRings)
=============================================================================
