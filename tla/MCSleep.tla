------------------------------ MODULE MCSleep ------------------------------
(* One process with every signal and mask: every action but wakeup() is    *)
(* about one process, and wakeup() treats each process by itself.          *)
EXTENDS Sleep
CONSTANTS p1, c1
OneProc == {p1}
OneChan == {c1}
AllSent == Sig
AllMasks == SUBSET Sig
=============================================================================
