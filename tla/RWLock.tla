------------------------------- MODULE RWLock -------------------------------
(***************************************************************************)
(* What kern/lock.c promises to its callers: a readers/writer lock that    *)
(* can be upgraded and downgraded in place.  A grant, a change of mode and *)
(* a release are each one step; waiting, priorities and the bookkeeping    *)
(* fields of struct lock do not appear.                                    *)
(***************************************************************************)
CONSTANT Proc      \* the processes of the kernel

VARIABLE mode      \* mode[t]: how process t holds the lock

Init == mode = [t \in Proc |-> "none"]

\* "a read lock ... must defer to a write lock"
GrantRead(t) ==
  /\ mode[t] = "none"
  /\ \A u \in Proc : mode[u] # "write"
  /\ mode' = [mode EXCEPT ![t] = "read"]

\* "a write lock require exclusive access"
GrantWrite(t) ==
  /\ mode[t] = "none"
  /\ \A u \in Proc : mode[u] = "none"
  /\ mode' = [mode EXCEPT ![t] = "write"]

\* An upgrade: the reader becomes the writer once every other reader left.
Upgrade(t) ==
  /\ mode[t] = "read"
  /\ \A u \in Proc \ {t} : mode[u] = "none"
  /\ mode' = [mode EXCEPT ![t] = "write"]

\* "Attempts to downgrade ... are granted unconditionally."
Downgrade(t) ==
  /\ mode[t] = "write"
  /\ mode' = [mode EXCEPT ![t] = "read"]

\* A release, and also the read lock an unsuccessful upgrade gives up.
Release(t) ==
  /\ mode[t] # "none"
  /\ mode' = [mode EXCEPT ![t] = "none"]

Next == \E t \in Proc : \/ GrantRead(t) \/ GrantWrite(t) \/ Upgrade(t)
                        \/ Downgrade(t) \/ Release(t)

Spec == Init /\ [][Next]_mode
=============================================================================
