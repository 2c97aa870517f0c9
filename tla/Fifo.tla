-------------------------------- MODULE Fifo --------------------------------
(***************************************************************************)
(* What the ring buffers of kern/subr/ring.c promise to the terminal       *)
(* drivers: bounded queues of characters, written and read at both ends.   *)
(* `rv' is the value the last operation returned, -1 for a refusal.        *)
(***************************************************************************)
EXTENDS Integers, Sequences, FiniteSetsExt

CONSTANTS Ring, Char, Capacity
VARIABLES queue, rv

Init == queue = [r \in Ring |-> <<>>] /\ rv = 0

Becomes(r, s) == queue' = [queue EXCEPT ![r] = s]
Refused(r) == rv' = -1 /\ UNCHANGED queue

\* A character is refused only when the queue is full, and read only when
\* there is one.
PutLast(r, c) == \/ Len(queue[r]) < Capacity /\ Becomes(r, Append(queue[r], c)) /\ rv' = 0
                 \/ Len(queue[r]) = Capacity /\ Refused(r)
PutFirst(r, c) == \/ Len(queue[r]) < Capacity /\ Becomes(r, <<c>> \o queue[r]) /\ rv' = 0
                  \/ Len(queue[r]) = Capacity /\ Refused(r)
GetFirst(r) == \/ queue[r] # <<>> /\ Becomes(r, Tail(queue[r])) /\ rv' = Head(queue[r])
               \/ queue[r] = <<>> /\ Refused(r)
GetLast(r) == \/ /\ queue[r] # <<>>
                 /\ Becomes(r, SubSeq(queue[r], 1, Len(queue[r]) - 1))
                 /\ rv' = queue[r][Len(queue[r])]
              \/ queue[r] = <<>> /\ Refused(r)

\* A run of characters at once; n is at least 1 unless there is no room, or
\* nothing to read.
PutRun(r, s) == /\ Len(queue[r]) + Len(s) <= Capacity
                /\ (s = <<>>) = (Len(queue[r]) = Capacity)
                /\ Becomes(r, queue[r] \o s) /\ rv' = Len(s)
GetRun(r, n) == /\ n <= Len(queue[r]) /\ (n = 0) = (queue[r] = <<>>)
                /\ Becomes(r, SubSeq(queue[r], n + 1, Len(queue[r]))) /\ rv' = n

Flush(r) == Becomes(r, <<>>) /\ rv' = 0

\* Everything is taken from one queue; what does not fit in the other is lost.
Move(from, to) ==
  LET all == queue[to] \o queue[from]
  IN /\ from # to
     /\ queue' = [queue EXCEPT ![from] = <<>>,
                               ![to] = SubSeq(all, 1, Min({Len(all), Capacity}))]
     /\ rv' = 0

Next == \E r \in Ring :
  \/ \E c \in Char : PutLast(r, c) \/ PutFirst(r, c)
  \/ GetFirst(r) \/ GetLast(r) \/ Flush(r)
  \/ \E n \in 0 .. Capacity : GetRun(r, n) \/ \E s \in [1 .. n -> Char] : PutRun(r, s)
  \/ \E to \in Ring : Move(r, to)

Spec == Init /\ [][Next]_<<queue, rv>>
=============================================================================
