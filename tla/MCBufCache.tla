---------------------------- MODULE MCBufCache ----------------------------
(* Instances of BufCache for TLC.                                          *)
EXTENDS BufCache, TLC

CONSTANTS p1, p2, b1, b2, k1, k2, k3, v1
TwoProc == {p1, p2}
OneBuf == {b1}
TwoBuf == {b1, b2}
TwoBlock == {k1, k2}
ThreeBlock == {k1, k2, k3}
OneVnode == {v1}
SameVnode == [k \in Block |-> v1]
SameSize == [k \in Block |-> 1]
TwoSizes == [k \in Block |-> IF k = k1 THEN 1 ELSE 2]
NoReadAhead == {"bread", "getblk", "bwrite", "bawrite", "bdwrite",
                "flush", "sync", "inval", "save"}
AllUses == NoReadAhead \cup {"breada"}
Symmetry == Permutations(Buf) \cup Permutations(Proc)
\* Blocks of one size are alike.
SameSymmetry == Symmetry \cup Permutations(Block)
=============================================================================
