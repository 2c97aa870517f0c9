------------------------------- MODULE MCLockf -------------------------------
(* Processes that share one open file and lock ranges of a short file:     *)
(* equal starts, equal ends, partial overlap, a range inside another.      *)
EXTENDS Lockf, TLC
CONSTANTS p1, p2, file1
TwoProcs == {p1, p2}
OneFile == {file1}
FourExtents == {<<0, EOF>>, <<1, 1>>, <<0, 1>>, <<1, EOF>>}
Same == Permutations(TwoProcs)
=============================================================================
