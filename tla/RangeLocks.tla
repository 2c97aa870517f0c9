----------------------------- MODULE RangeLocks -----------------------------
(***************************************************************************)
(* What fcntl(F_SETLK) and flock() promise for one file: each owner holds  *)
(* each byte shared, exclusively or not at all, a request changes exactly  *)
(* the bytes it names, and no byte is granted against another owner.       *)
(***************************************************************************)
CONSTANTS Procs, Owners, Files, Bytes

VARIABLES
  req,      \* p -> the request p has made and not been answered
  holds     \* owner -> byte -> "NONE", "RD" or "WR"

NoRequest == [type |-> "NONE"]
Request == [own : Owners, type : {"RD", "WR", "UN"}, bytes : SUBSET Bytes]

Init ==
  /\ req = [p \in Procs |-> NoRequest]
  /\ holds = [o \in Owners |-> [b \in Bytes |-> "NONE"]]

Answered(p) == req' = [req EXCEPT ![p] = NoRequest]
\* The bytes of owner o after all of s became t.
Covered(o, s, t) ==
  [holds EXCEPT ![o] = [b \in Bytes |-> IF b \in s THEN t ELSE @[b]]]
\* A request of type t that does not go with what another owner, with bytes h, has.
Against(h, s, t) == \E b \in s : h[b] = "WR" \/ (t = "WR" /\ h[b] = "RD")

Ask(p) ==
  /\ req[p] = NoRequest
  /\ req'[p] \in Request /\ req' = [req EXCEPT ![p] = req'[p]]
  /\ UNCHANGED holds

\* The bytes become the owner's; granted only if nobody is against it.
Take(p) ==
  /\ req[p].type \in {"RD", "WR"}
  /\ Answered(p)
  /\ holds' = Covered(req[p].own, req[p].bytes, req[p].type)
Grant(p) ==
  /\ Take(p)
  /\ \A o \in Owners \ {req[p].own} : ~Against(holds[o], req[p].bytes, req[p].type)

\* EAGAIN, EDEADLK or EINTR.
Refuse(p) == req[p].type \in {"RD", "WR"} /\ Answered(p) /\ UNCHANGED holds

\* A file's shared lock is given up while its exclusive lock is waited for.
GiveUp(p) ==
  /\ req[p].type = "WR" /\ req[p].own \in Files
  /\ holds' = Covered(req[p].own, Bytes, "NONE")
  /\ UNCHANGED req

Release(p) ==
  /\ req[p].type = "UN"
  /\ Answered(p)
  /\ holds' = Covered(req[p].own, req[p].bytes, "NONE")

Next == \E p \in Procs : Ask(p) \/ Grant(p) \/ Refuse(p) \/ GiveUp(p) \/ Release(p)

Spec == Init /\ [][Next]_<<req, holds>>
=============================================================================
