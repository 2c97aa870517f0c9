------------------------------ MODULE RpcServer ------------------------------
(***************************************************************************)
(* What a server with a cache of recent requests promises: it carries out  *)
(* only what was asked, answers only what it has carried out and only with *)
(* the result of that request, and carries out twice only what may be      *)
(* repeated, unless it has lost track of the request.                      *)
(***************************************************************************)
EXTENDS Integers

CONSTANTS Xid, NonIdempotent

VARIABLES
  calls,       \* what was asked
  executed,    \* x -> 0, 1, or 2 if it was carried out again and may not be repeated
  lost,        \* requests of which the server has lost track
  replies      \* the answers under way: [xid, of]
vars == <<calls, executed, lost, replies>>

Init == calls = {} /\ executed = [x \in Xid |-> 0] /\ lost = {} /\ replies = {}

Ask(x) ==
  /\ calls' = calls \cup {x}
  /\ UNCHANGED <<executed, lost, replies>>

Answer(x) == replies \cup {[xid |-> x, of |-> x]}

\* x is carried out, and may be answered at once.
Execute(x) ==
  /\ x \in calls
  /\ x \in NonIdempotent /\ executed[x] > 0 => x \in lost
  /\ executed' = [executed EXCEPT ![x] = IF x \in NonIdempotent /\ @ > 0 THEN 2 ELSE 1]
  /\ replies' \in {replies, Answer(x)}
  /\ UNCHANGED <<calls, lost>>

Reply(x) ==
  /\ executed[x] > 0
  /\ replies' = Answer(x)
  /\ UNCHANGED <<calls, executed, lost>>

\* Only requests the server knows are lost, with a reboot all of them.
Lose ==
  /\ lost \subseteq lost' /\ lost' \subseteq calls
  /\ UNCHANGED <<calls, executed, replies>>

Drop ==
  /\ replies' \subseteq replies
  /\ UNCHANGED <<calls, executed, lost>>

Next == (\E x \in Xid : Ask(x) \/ Execute(x) \/ Reply(x)) \/ Lose \/ Drop

Spec == Init /\ [][Next]_vars
=============================================================================
