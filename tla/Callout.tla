------------------------------- MODULE Callout -------------------------------
(***************************************************************************)
(* kern/clock.c: the callout queue behind timeout(), untimeout() and       *)
(* tsleep()'s time limit.                                                  *)
(*                                                                         *)
(* The queue is a list in which the time of an entry is relative to the    *)
(* entry before it, except that the entries at its front which are already *)
(* due carry the (negated) number of ticks they are late.  hardclock()     *)
(* ages the list, softclock() runs at a lower interrupt priority and calls *)
(* what is due; anything may interrupt it between taking an entry off the  *)
(* list and calling its function.                                          *)
(*                                                                         *)
(* The field `left' of an entry is not in the code: it is the number of    *)
(* ticks until the time the caller of timeout() asked for, kept by plain   *)
(* counting, and is what the relative times have to agree with.            *)
(***************************************************************************)
EXTENDS Integers, Sequences, SequencesExt

CONSTANTS
  Func,       \* the (function, argument) pairs passed to timeout()
  NCallout,   \* size of the callout table
  MaxTime,    \* bound on the time asked for, in ticks
  MaxLate,    \* bound on the ticks that softclock() is held off
  MaxPer      \* bound on the entries one pair has in the queue

ASSUME CalloutAssumption ==
  /\ NCallout \in Nat \ {0} /\ MaxTime \in Nat \ {0}
  /\ MaxLate \in Nat \ {0} /\ MaxPer \in Nat \ {0}

VARIABLES
  calltodo,   \* the queue, a sequence of [func, c_time, left]
  callfree,   \* how many entries of the table are free
  sir,        \* a softclock interrupt is pending (setsoftclock())
  running,    \* softclock() is running
  firing,     \* what softclock() took off the queue and has not called yet
  revoked,    \* pairs a process cancelled and nobody armed again
  panicked    \* "timeout table overflow"

vars == <<calltodo, callfree, sir, running, firing, revoked, panicked>>

Entry == [func : Func, c_time : Int, left : Int]

TypeOK ==
  /\ calltodo \in Seq(Entry)
  /\ callfree \in 0 .. NCallout
  /\ callfree + Len(calltodo) = NCallout
  /\ sir \in BOOLEAN /\ running \in BOOLEAN /\ panicked \in BOOLEAN
  /\ firing \subseteq Func
  /\ revoked \subseteq Func

\* machdep.c links the whole table into callfree.
Init ==
  /\ calltodo = <<>> /\ callfree = NCallout
  /\ sir = FALSE /\ running = FALSE /\ firing = {} /\ revoked = {}
  /\ panicked = FALSE

-----------------------------------------------------------------------------
(* hardclock(): the loop over the queue, then softclock() now or later.    *)

\* The loop goes on past entries that are due already and stops at the first
\* one whose time was still positive.
Visited == {i \in DOMAIN calltodo : \A j \in 1 .. i - 1 : calltodo[j].c_time <= 0}
Aged == [i \in DOMAIN calltodo |->
           [func |-> calltodo[i].func,
            c_time |-> IF i \in Visited THEN calltodo[i].c_time - 1 ELSE calltodo[i].c_time,
            left |-> calltodo[i].left - 1]]
NeedSoft == \E i \in Visited : Aged[i].c_time <= 0

\* basepri: the clock interrupted code at base priority, so softclock() is
\* called at once instead of being requested.
hardclock(basepri) ==
  /\ ~panicked
  /\ \A i \in DOMAIN calltodo : calltodo[i].left > -MaxLate
  /\ calltodo' = Aged
  /\ basepri => ~running
  /\ running' = (running \/ (NeedSoft /\ basepri))
  /\ sir' = (sir \/ (NeedSoft /\ ~basepri))
  /\ UNCHANGED <<callfree, firing, revoked, panicked>>

-----------------------------------------------------------------------------
(* softclock()                                                             *)

softclock_enter ==
  /\ ~panicked /\ sir /\ ~running
  /\ running' = TRUE /\ sir' = FALSE
  /\ UNCHANGED <<calltodo, callfree, firing, revoked, panicked>>

HeadIsDue == calltodo # <<>> /\ Head(calltodo).c_time <= 0

\* One turn of the loop, under splclock().
softclock_take ==
  /\ ~panicked /\ running /\ firing = {}
  /\ HeadIsDue
  /\ firing' = {Head(calltodo).func}
  /\ calltodo' = Tail(calltodo)
  /\ callfree' = callfree + 1
  /\ UNCHANGED <<sir, running, revoked, panicked>>

\* (*func)(arg, a), with interrupts let in before it.
softclock_call ==
  /\ ~panicked /\ running /\ firing # {}
  /\ firing' = {}
  /\ UNCHANGED <<calltodo, callfree, sir, running, revoked, panicked>>

\* A mistake, to see ArmedIsServed fail: softclock() serves one entry only.  (The
\* suffixed definitions below are of the same kind.)
softclock_exit_early ==
  /\ ~panicked /\ running /\ firing = {}
  /\ running' = FALSE
  /\ UNCHANGED <<calltodo, callfree, sir, firing, revoked, panicked>>

softclock_exit ==
  /\ ~panicked /\ running /\ firing = {}
  /\ ~HeadIsDue
  /\ running' = FALSE
  /\ UNCHANGED <<calltodo, callfree, sir, firing, revoked, panicked>>

-----------------------------------------------------------------------------
(* timeout() and untimeout(): called by processes, by interrupt handlers   *)
(* and by the functions softclock() calls.                                 *)

\* The time accounted for by the first i entries; due ones account for none.
Elapsed == LET e[i \in 0 .. Len(calltodo)] ==
                 IF i = 0 THEN 0
                 ELSE e[i - 1] + (IF calltodo[i].c_time > 0 THEN calltodo[i].c_time ELSE 0)
           IN e

\* The walk stops at the first entry not nearer than what is left of t.
InsertPos(t) ==
  LET stops == {i \in DOMAIN calltodo : calltodo[i].c_time >= t - Elapsed[i - 1]}
  IN IF stops = {} THEN Len(calltodo) + 1 ELSE CHOOSE i \in stops : \A j \in stops : i <= j

\* The entry behind the new one keeps its time.
Inserted_whole(f, t) ==
  LET k == InsertPos(t)
  IN InsertAt(calltodo, k, [func |-> f, c_time |-> t - Elapsed[k - 1], left |-> t])

Inserted(f, t) ==
  LET k == InsertPos(t)
      rest == t - Elapsed[k - 1]
      after == [i \in DOMAIN calltodo |->
                  IF i = k THEN [calltodo[i] EXCEPT !.c_time = @ - rest] ELSE calltodo[i]]
  IN InsertAt(after, k, [func |-> f, c_time |-> rest, left |-> t])

InQueue(f) == {i \in DOMAIN calltodo : calltodo[i].func = f}

timeout(f, t) ==
  /\ ~panicked
  /\ Cardinality(InQueue(f)) < MaxPer
  /\ IF callfree = 0
       THEN panicked' = TRUE /\ UNCHANGED <<calltodo, callfree>>
       ELSE /\ calltodo' = Inserted(f, IF t <= 0 THEN 1 ELSE t)
            /\ callfree' = callfree - 1
            /\ UNCHANGED panicked
  /\ revoked' = revoked \ {f}
  /\ UNCHANGED <<sir, running, firing>>

\* The time is not handed on; the entry after the right one is unlinked.
Removed_forget(k) == RemoveAt(calltodo, k)
Removed_next(k) == RemoveAt(calltodo, IF k = Len(calltodo) THEN k ELSE k + 1)

\* The entry goes, and the entry after it takes over its time.
Removed(k) ==
  LET e == calltodo[k]
      after == [i \in DOMAIN calltodo |->
                  IF i = k + 1 /\ e.c_time > 0
                    THEN [calltodo[i] EXCEPT !.c_time = @ + e.c_time] ELSE calltodo[i]]
  IN RemoveAt(after, k)

\* The first entry for f.  A process runs only when softclock() does not; an
\* interrupt handler (fd.c) may come in at any point of it.
untimeout(f, process) ==
  /\ ~panicked
  /\ process => ~running
  /\ \E k \in InQueue(f) :
       /\ \A j \in InQueue(f) : k <= j
       /\ calltodo' = Removed(k)
  /\ callfree' = callfree + 1
  /\ revoked' = IF process /\ Cardinality(InQueue(f)) = 1 THEN revoked \cup {f} ELSE revoked
  /\ UNCHANGED <<sir, running, firing, panicked>>

-----------------------------------------------------------------------------
Next ==
  \/ \E basepri \in BOOLEAN : hardclock(basepri)
  \/ softclock_enter \/ softclock_take \/ softclock_call \/ softclock_exit
  \/ \E f \in Func : \/ \E process \in BOOLEAN : untimeout(f, process)
                    \/ \E t \in 0 .. MaxTime : timeout(f, t)

Spec == Init /\ [][Next]_vars

\* Once requested, the softclock interrupt is taken, and it runs to its end;
\* the clock keeps ticking.
FairSpec ==
  /\ Spec
  /\ WF_vars(softclock_enter) /\ WF_vars(softclock_take)
  /\ WF_vars(softclock_call) /\ WF_vars(softclock_exit)
  /\ WF_vars(\E basepri \in BOOLEAN : hardclock(basepri))

-----------------------------------------------------------------------------
(* Properties                                                              *)

\* The entries at the front that are due.
DuePrefix == {i \in DOMAIN calltodo : \A j \in 1 .. i : calltodo[j].c_time <= 0}

\* The relative times of the queue denote exactly the times asked for: a due
\* entry shows how late it is, any other is due after the times before it
\* (hardclock()'s comment, and the arithmetic of timeout() and untimeout()); and no
\* entry of the table is lost.
TimesExact ==
  /\ TypeOK
  /\ \A i \in DOMAIN calltodo :
       calltodo[i].left = IF i \in DuePrefix THEN calltodo[i].c_time ELSE Elapsed[i]

\* softclock() takes an entry neither before its time nor before an entry
\* that has been due for longer.
FiredInOrder ==
  [][ softclock_take =>
        /\ Head(calltodo).left <= 0
        /\ \A i \in DOMAIN calltodo : Head(calltodo).left <= calltodo[i].left ]_vars

\* What a process cancelled is not called afterwards: tsleep() and exit() rely
\* on it when they untimeout() their own endtsleep() and realitexpire().
CancelIsFinal == firing \cap revoked = {}

\* What timeout() armed does not stay in the queue: it comes due and softclock()
\* takes it, however many others are armed and cancelled meanwhile, unless it is
\* cancelled or armed once more.
ArmedIsServed == \A f \in Func :
  Cardinality(InQueue(f)) = 1 ~> Cardinality(InQueue(f)) # 1 \/ panicked
=============================================================================
