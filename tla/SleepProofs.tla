----------------------------- MODULE SleepProofs -----------------------------
(***************************************************************************)
(* The two invariants of Sleep for any processes, channels, signals sent   *)
(* and masks: who sleeps is where wakeup() and the timer look for it and   *)
(* nobody else is, and tsleep() tells what ended the sleep.                *)
(*                                                                         *)
(* SleepInv says of every process, at each of the places where it may have *)
(* given up the processor, which marks tsleep() has left on it and what    *)
(* has happened to it since.                                               *)
(***************************************************************************)
EXTENDS Sleep, TLAPS

\* Between entering tsleep() and coming back from swtch().
InTsleep(p) == where[p] \in {"enter", "swtch"}

\* Only a process in tsleep() is on a queue, asleep or stopped in its sleep.
StateFits(p) ==
  /\ p_wchan[p] # nochan => InTsleep(p) /\ p_stat[p] \in {"SSLEEP", "SSTOP"}
  /\ p_stat[p] = "SSLEEP" => p_wchan[p] # nochan
  /\ where[p] = "out" => p_stat[p] \in {"SRUN", "SZOMB"}
  /\ p_stat[p] = "SZOMB" => where[p] = "out"
  /\ where[p] = "swtch" /\ p_stat[p] = "SSTOP" => p \in SSINTR

\* The marks of a sleep and the arguments of the tsleep() that left them.
MarksFit(p) ==
  /\ p \in endtimer \/ p \in STIMO \/ p \in SSINTR => InTsleep(p)
  /\ p \in endtimer \/ p \in STIMO => timo[p] = TRUE
  /\ ~(p \in endtimer /\ p \in STIMO)
  /\ InTsleep(p) => (p \in SSINTR <=> catch[p] = TRUE)
  /\ where[p] \in {"enter", "leave"} => catch[p] = TRUE

\* What took the process off its queue.
EndFits(p) ==
  /\ InTsleep(p) => (ended[p] = "none" <=> p_wchan[p] # nochan)
  /\ InTsleep(p) => (ended[p] = "timo" <=> p \in STIMO)
  /\ catch[p] = FALSE => ended[p] # "signal"

\* What the last tsleep() returned, once it has.
ResultFits(p) ==
  /\ InTsleep(p) \/ where[p] = "leave" => ret[p] = "none"
  /\ ret[p] = "EWOULDBLOCK" => ended[p] = "timo" /\ timo[p] = TRUE
  /\ ret[p] = "0" /\ catch[p] = FALSE => ended[p] = "wakeup"
  /\ ret[p] = "EINTR" => catch[p] = TRUE

Fits(p) == StateFits(p) /\ MarksFit(p) /\ EndFits(p) /\ ResultFits(p)

SleepInv == TypeOK /\ ~panicked /\ \A p \in Proc : Fits(p)

-----------------------------------------------------------------------------
(* The parts of the steps.                                                 *)

\* What the step leaves alone about a process.
Untouched(q) ==
  /\ p_stat'[q] = p_stat[q] /\ p_wchan'[q] = p_wchan[q] /\ where'[q] = where[q]
  /\ catch'[q] = catch[q] /\ timo'[q] = timo[q] /\ ret'[q] = ret[q] /\ ended'[q] = ended[q]
  /\ (q \in SSINTR' <=> q \in SSINTR)
  /\ (q \in STIMO' <=> q \in STIMO)
  /\ (q \in endtimer' <=> q \in endtimer)

\* A process that the step does not touch still fits.
LEMMA UntouchedFits ==
  ASSUME NEW q \in Proc, Fits(q), Untouched(q) PROVE Fits(q)'
BY DEF Fits, StateFits, MarksFit, EndFits, ResultFits, InTsleep, Untouched

\* issig() has three outcomes, and leaves a set of signals.
LEMMA IssigType ==
  ASSUME NEW p \in Proc, NEW s \in SUBSET Sig
  PROVE  Issig(p, s) \in {"sig", "stop", "none"} /\ AfterIssig(p, s) \in SUBSET Sig
BY DEF Issig, AfterIssig, Deliverable, Handled

\* A step about one process keeps the invariant if it keeps it for that process.
LEMMA OneProcess ==
  ASSUME SleepInv, NEW p \in Proc, TypeOK', ~panicked',
         \A q \in Proc \ {p} : Untouched(q), Fits(p)'
  PROVE  SleepInv'
<1>1. ASSUME NEW q \in Proc \ {p} PROVE Fits(q)'
  BY <1>1, UntouchedFits DEF SleepInv
<1> QED
  BY <1>1 DEF SleepInv

-----------------------------------------------------------------------------
(* The process's own steps.                                                *)

\* A process enters tsleep().
LEMMA EnterStep ==
  ASSUME SleepInv, NEW p \in Proc, NEW chan \in Chan, NEW c \in BOOLEAN, NEW t \in BOOLEAN,
         tsleep(p, chan, c, t)
  PROVE  SleepInv'
<1> DEFINE out == IF c THEN Issig(p, p_sig[p]) ELSE "none"
           s == IF c THEN AfterIssig(p, p_sig[p]) ELSE p_sig[p]
<1>0. TypeOK /\ Fits(p) /\ ~panicked
  BY DEF SleepInv
<1>1. out \in {"sig", "stop", "none"} /\ s \in SUBSET Sig /\ p_sig[p] \in SUBSET Sig
  BY <1>0, IssigType DEF TypeOK
<1>2. where[p] = "out" /\ p_stat[p] = "SRUN" /\ p_wchan[p] = nochan /\ chan # nochan
  BY <1>0, SleepAssumption DEF tsleep, Running, Fits, StateFits, InTsleep
<1>3. p \notin endtimer /\ p \notin STIMO /\ p \notin SSINTR
  BY <1>0, <1>2 DEF Fits, MarksFit, InTsleep
<1>4. /\ catch' = [catch EXCEPT ![p] = c] /\ timo' = [timo EXCEPT ![p] = t]
      /\ ended' = [ended EXCEPT ![p] = "none"]
      /\ UNCHANGED <<STIMO, p_sigmask, p_sigcatch, panicked>>
  BY DEF tsleep
<1>5. CASE /\ out = "sig" /\ p_sig' = [p_sig EXCEPT ![p] = s]
           /\ Returns(p, "EINTR") /\ UNCHANGED <<p_wchan, SSINTR, endtimer>>
  <2>1. c = TRUE
    BY <1>5
  <2>2. TypeOK'
    BY <1>0, <1>1, <1>4, <1>5 DEF TypeOK, Returns, Places, Results
  <2>3. \A q \in Proc \ {p} : Untouched(q)
    BY <1>0, <1>4, <1>5 DEF TypeOK, Returns, Untouched
  <2>4. Fits(p)'
    BY <1>0, <1>2, <1>3, <1>4, <1>5, <2>1
       DEF TypeOK, Returns, Fits, StateFits, MarksFit, EndFits, ResultFits, InTsleep
  <2> QED
    BY <1>0, <1>4, <2>2, <2>3, <2>4, OneProcess
<1>6. ASSUME out # "sig",
             p_wchan' = [p_wchan EXCEPT ![p] = chan],
             endtimer' = IF t THEN endtimer \cup {p} ELSE endtimer,
             SSINTR' = IF c THEN SSINTR \cup {p} ELSE SSINTR,
             ret' = [ret EXCEPT ![p] = "none"],
             \/ out = "stop" /\ StopAt(p, "enter") /\ UNCHANGED p_sig
             \/ out = "none" /\ Sleeps(p, s) /\ UNCHANGED owed
      PROVE  SleepInv'
  <2>1. /\ (p \in SSINTR' <=> c = TRUE) /\ (p \in endtimer' <=> t = TRUE)
        /\ p \notin STIMO'
        /\ p_wchan'[p] = chan /\ catch'[p] = c /\ timo'[p] = t
        /\ ended'[p] = "none" /\ ret'[p] = "none"
    BY <1>0, <1>3, <1>4, <1>6 DEF TypeOK
  <2>2. \/ p_stat'[p] = "SSTOP" /\ where'[p] = "enter" /\ c = TRUE
        \/ p_stat'[p] = "SSLEEP" /\ where'[p] = "swtch"
    BY <1>0, <1>6 DEF TypeOK, StopAt, Sleeps
  <2>3. TypeOK'
    BY <1>0, <1>1, <1>4, <1>6 DEF TypeOK, StopAt, Sleeps, Places, Results
  <2>4. \A q \in Proc \ {p} : Untouched(q)
    BY <1>0, <1>4, <1>6 DEF TypeOK, StopAt, Sleeps, Untouched
  <2>5. Fits(p)'
    BY <1>2, <2>1, <2>2
       DEF Fits, StateFits, MarksFit, EndFits, ResultFits, InTsleep
  <2> QED
    BY <1>0, <1>4, <2>3, <2>4, <2>5, OneProcess
<1> QED
  BY <1>5, <1>6 DEF tsleep
\* Back in tsleep() after a stop in its first CURSIG: the process runs, so it is on no
\* queue any more, and tsleep() ends.
LEMMA ResumedStep ==
  ASSUME SleepInv, NEW p \in Proc, tsleep_enter(p) PROVE SleepInv'
<1> DEFINE out == Issig(p, ClearStop(p))
           s == AfterIssig(p, ClearStop(p))
           value == IF p \in STIMO /\ out # "sig" THEN "EWOULDBLOCK"
                    ELSE IF out = "sig" THEN "EINTR" ELSE "0"
<1>0. TypeOK /\ Fits(p) /\ ~panicked
  BY DEF SleepInv
<1>1. s \in SUBSET Sig
  <2>1. ClearStop(p) \in SUBSET Sig
    BY <1>0 DEF TypeOK, ClearStop
  <2> QED
    BY <2>1, IssigType
<1>2. p_stat[p] = "SRUN" /\ where[p] = "enter" /\ p_wchan[p] = nochan
  BY <1>0 DEF tsleep_enter, Running, Fits, StateFits
<1>3. /\ p_wchan' = [p_wchan EXCEPT ![p] = nochan]
      /\ SSINTR' = SSINTR \ {p} /\ STIMO' = STIMO \ {p} /\ endtimer' = Untimed(p)
      /\ p_sig' = [p_sig EXCEPT ![p] = s]
      /\ Returns(p, value)
      /\ UNCHANGED <<p_sigmask, p_sigcatch, catch, timo, ended, panicked>>
  BY <1>2 DEF tsleep_enter, Finish
<1>4. p \notin endtimer' /\ \A q \in Proc \ {p} : q \in endtimer' <=> q \in endtimer
  BY <1>0, <1>3 DEF Untimed, Fits, MarksFit
<1>5. TypeOK'
  BY <1>0, <1>1, <1>3 DEF TypeOK, Returns, Untimed, Places, Results
<1>6. \A q \in Proc \ {p} : Untouched(q)
  BY <1>0, <1>3, <1>4 DEF TypeOK, Returns, Untouched
<1>7. Fits(p)'
  <2>1. p_stat'[p] = "SRUN" /\ where'[p] = "out" /\ p_wchan'[p] = nochan /\ ret'[p] = value
    BY <1>0, <1>3 DEF TypeOK, Returns
  <2>2. p \notin SSINTR' /\ p \notin STIMO'
    BY <1>3
  <2>3. catch[p] = TRUE /\ (p \in STIMO => ended[p] = "timo" /\ timo[p] = TRUE)
    BY <1>0, <1>2 DEF Fits, MarksFit, EndFits, InTsleep
  <2> QED
    BY <1>3, <1>4, <2>1, <2>2, <2>3
       DEF Fits, StateFits, MarksFit, EndFits, ResultFits, InTsleep
<1> QED
  BY <1>0, <1>3, <1>5, <1>6, <1>7, OneProcess

\* Back from swtch().
LEMMA SwtchStep ==
  ASSUME SleepInv, NEW p \in Proc, tsleep_swtch(p) PROVE SleepInv'
<1> DEFINE look == catch[p] /\ p \notin STIMO
           out == IF look THEN Issig(p, p_sig[p]) ELSE "none"
           s == IF look THEN AfterIssig(p, p_sig[p]) ELSE p_sig[p]
           value == IF p \in STIMO THEN "EWOULDBLOCK" ELSE IF out = "sig" THEN "EINTR" ELSE "0"
<1>0. TypeOK /\ Fits(p) /\ ~panicked
  BY DEF SleepInv
<1>1. s \in SUBSET Sig /\ (out = "stop" \/ out = "sig" => catch[p] = TRUE)
  BY <1>0, IssigType DEF TypeOK
<1>2. p_stat[p] = "SRUN" /\ where[p] = "swtch" /\ p_wchan[p] = nochan
  BY <1>0 DEF tsleep_swtch, Running, Fits, StateFits
<1>3. /\ SSINTR' = SSINTR \ {p} /\ STIMO' = STIMO \ {p} /\ endtimer' = Untimed(p)
      /\ p_sig' = [p_sig EXCEPT ![p] = s]
      /\ UNCHANGED <<p_wchan, p_sigmask, p_sigcatch, catch, timo, ended, panicked>>
  BY DEF tsleep_swtch, Finish
<1>4. \/ out = "stop" /\ StopAt(p, "leave") /\ UNCHANGED ret
      \/ Returns(p, value)
  BY DEF tsleep_swtch, Finish
<1>5. p \notin endtimer' /\ \A q \in Proc \ {p} : q \in endtimer' <=> q \in endtimer
  BY <1>0, <1>3 DEF Untimed, Fits, MarksFit
<1>6. TypeOK'
  BY <1>0, <1>1, <1>3, <1>4 DEF TypeOK, Returns, StopAt, Untimed, Places, Results
<1>7. \A q \in Proc \ {p} : Untouched(q)
  BY <1>0, <1>3, <1>4, <1>5 DEF TypeOK, Returns, StopAt, Untouched
<1>8. Fits(p)'
  <2>1. \/ /\ p_stat'[p] = "SSTOP" /\ where'[p] = "leave" /\ ret'[p] = ret[p]
           /\ catch[p] = TRUE
        \/ p_stat'[p] = "SRUN" /\ where'[p] = "out" /\ ret'[p] = value
    BY <1>0, <1>1, <1>4 DEF TypeOK, Returns, StopAt
  <2>2. p \notin SSINTR' /\ p \notin STIMO' /\ p_wchan'[p] = nochan
    BY <1>2, <1>3
  <2>3. /\ ret[p] = "none"
        /\ ended[p] = "timo" <=> p \in STIMO
        /\ p \in STIMO => timo[p] = TRUE
        /\ ended[p] # "none"
        /\ catch[p] = FALSE => ended[p] # "signal"
    BY <1>0, <1>2 DEF Fits, MarksFit, EndFits, ResultFits, InTsleep
  <2>4. ended[p] \in {"none", "wakeup", "timo", "signal"}
    BY <1>0 DEF TypeOK
  <2>5. value = "EINTR" => catch[p] = TRUE
    BY <1>1
  <2>6. value = "EWOULDBLOCK" <=> p \in STIMO
    OBVIOUS
  <2> HIDE DEF value, out, s, look
  <2> QED
    BY <1>3, <1>5, <2>1, <2>2, <2>3, <2>4, <2>5, <2>6
       DEF Fits, StateFits, MarksFit, EndFits, ResultFits, InTsleep
<1> QED
  BY <1>0, <1>3, <1>6, <1>7, <1>8, OneProcess

\* Back in tsleep() after a stop in its second CURSIG.
LEMMA LeaveStep ==
  ASSUME SleepInv, NEW p \in Proc, tsleep_leave(p) PROVE SleepInv'
<1> DEFINE s == AfterIssig(p, ClearStop(p))
           value == IF Issig(p, ClearStop(p)) = "sig" THEN "EINTR" ELSE "0"
<1>0. TypeOK /\ Fits(p) /\ ~panicked
  BY DEF SleepInv
<1>1. s \in SUBSET Sig
  <2>1. ClearStop(p) \in SUBSET Sig
    BY <1>0 DEF TypeOK, ClearStop
  <2> QED
    BY <2>1, IssigType
<1>2. /\ p_stat[p] = "SRUN" /\ where[p] = "leave" /\ p_wchan[p] = nochan
      /\ catch[p] = TRUE
  BY <1>0 DEF tsleep_leave, Running, Fits, StateFits, MarksFit
<1>3. /\ p_sig' = [p_sig EXCEPT ![p] = s]
      /\ Returns(p, value)
      /\ UNCHANGED <<p_wchan, SSINTR, STIMO, endtimer, p_sigmask, p_sigcatch, catch, timo,
                     ended, panicked>>
  BY DEF tsleep_leave
<1>4. TypeOK'
  BY <1>0, <1>1, <1>3 DEF TypeOK, Returns, Places, Results
<1>5. \A q \in Proc \ {p} : Untouched(q)
  BY <1>0, <1>3 DEF TypeOK, Returns, Untouched
<1>6. Fits(p)'
  <2>1. p_stat'[p] = "SRUN" /\ where'[p] = "out" /\ ret'[p] = value
    BY <1>0, <1>3 DEF TypeOK, Returns
  <2> QED
    BY <1>0, <1>2, <1>3, <2>1
       DEF Fits, StateFits, MarksFit, EndFits, ResultFits, InTsleep
<1> QED
  BY <1>0, <1>3, <1>4, <1>5, <1>6, OneProcess

\* The way back to user mode.
LEMMA AstStep ==
  ASSUME SleepInv, NEW p \in Proc, ast(p) PROVE SleepInv'
<1>0. TypeOK /\ Fits(p) /\ ~panicked
  BY DEF SleepInv
<1>1. p_stat[p] = "SRUN" /\ where[p] \in {"out", "ast"} /\ p_wchan[p] = nochan
  BY <1>0 DEF ast, Running, Fits, StateFits
<1>2. UNCHANGED <<p_wchan, SSINTR, STIMO, endtimer, p_sigcatch, catch, timo, ret, ended, panicked>>
  BY DEF ast
<1> DEFINE s == IF where[p] = "ast" THEN ClearStop(p) ELSE p_sig[p]
           d == Deliverable(p, s)
           taken == d \cap Handled(p)
<1>3. s \in SUBSET Sig /\ d \in SUBSET Sig /\ taken \in SUBSET CanMask
  BY <1>0 DEF TypeOK, ClearStop, Deliverable, Handled, CanMask, Sig
<1>4. \/ /\ p_stat' = [p_stat EXCEPT ![p] = "SZOMB"]
         /\ where' = [where EXCEPT ![p] = "out"]
         /\ p_sig' = [p_sig EXCEPT ![p] = s \ {"kill"}]
         /\ UNCHANGED <<p_sigmask, owed>>
      \/ StopAt(p, "ast") /\ UNCHANGED <<p_sig, p_sigmask>>
      \/ /\ where' = [where EXCEPT ![p] = "out"]
         /\ p_sig' = [p_sig EXCEPT ![p] = s \ d]
         /\ p_sigmask' = [p_sigmask EXCEPT ![p] = @ \cup taken]
         /\ UNCHANGED <<p_stat, owed>>
  BY DEF ast
<1> HIDE DEF s, d, taken
<1>5. TypeOK'
  BY <1>0, <1>2, <1>3, <1>4 DEF TypeOK, StopAt, Places
<1>6. \A q \in Proc \ {p} : Untouched(q)
  BY <1>0, <1>2, <1>4 DEF TypeOK, StopAt, Untouched
<1>7. Fits(p)'
  <2>1. \/ p_stat'[p] = "SZOMB" /\ where'[p] = "out"
        \/ p_stat'[p] = "SSTOP" /\ where'[p] = "ast"
        \/ p_stat'[p] = "SRUN" /\ where'[p] = "out"
    BY <1>0, <1>1, <1>4 DEF TypeOK, StopAt
  <2> QED
    BY <1>0, <1>1, <1>2, <2>1
       DEF Fits, StateFits, MarksFit, EndFits, ResultFits, InTsleep
<1> QED
  BY <1>0, <1>2, <1>5, <1>6, <1>7, OneProcess

\* sigprocmask() and sigaction() touch nothing of a sleep.
LEMMA SignalCallStep ==
  ASSUME SleepInv, NEW p \in Proc,
         \/ \E m \in Masks : sigprocmask(p, m)
         \/ \E handler \in BOOLEAN : sigaction(p, handler)
  PROVE  SleepInv'
<1>0. TypeOK /\ ~panicked
  BY DEF SleepInv
<1>1. CASE \E m \in Masks : sigprocmask(p, m)
  <2>1. TypeOK'
    BY <1>0, <1>1 DEF TypeOK, sigprocmask, sched, CanMask
  <2>2. \A q \in Proc : Untouched(q)
    BY <1>1 DEF sigprocmask, sched, Untouched
  <2>3. ~panicked'
    BY <1>0, <1>1 DEF sigprocmask
  <2> QED
    BY <2>1, <2>2, <2>3, UntouchedFits DEF SleepInv
<1>2. CASE \E handler \in BOOLEAN : sigaction(p, handler)
  <2>1. TypeOK'
    <3> PICK handler \in BOOLEAN : sigaction(p, handler)
      BY <1>2
    <3>1. p_sigcatch' \subseteq Proc
      BY <1>0 DEF TypeOK, sigaction
    <3>2. p_sig' \in [Proc -> SUBSET Sig]
      BY <1>0 DEF TypeOK, sigaction
    <3> QED
      BY <1>0, <3>1, <3>2 DEF TypeOK, sigaction, sched
  <2>2. \A q \in Proc : Untouched(q)
    BY <1>2 DEF sigaction, sched, Untouched
  <2>3. ~panicked'
    BY <1>0, <1>2 DEF sigaction
  <2> QED
    BY <2>1, <2>2, <2>3, UntouchedFits DEF SleepInv
<1> QED
  BY <1>1, <1>2
-----------------------------------------------------------------------------
(* The steps of others.                                                    *)

\* wakeup().
LEMMA WakeupStep ==
  ASSUME SleepInv, NEW chan \in Chan, wakeup(chan) PROVE SleepInv'
<1>0. TypeOK /\ ~panicked /\ \A q \in Proc : Fits(q)
  BY DEF SleepInv
<1>1. /\ p_wchan' = [q \in Proc |-> IF p_wchan[q] = chan THEN nochan ELSE p_wchan[q]]
      /\ p_stat' = [q \in Proc |-> IF p_wchan[q] = chan /\ p_stat[q] = "SSLEEP"
                                   THEN "SRUN" ELSE p_stat[q]]
      /\ ended' = [q \in Proc |-> IF p_wchan[q] = chan THEN "wakeup" ELSE ended[q]]
      /\ UNCHANGED <<SSINTR, STIMO, endtimer, p_sig, p_sigmask, p_sigcatch, where, catch, timo,
                     ret, owed>>
  BY <1>0 DEF wakeup, TypeOK
<1>2. ~panicked' /\ panicked' \in BOOLEAN
  BY <1>0 DEF wakeup, Fits, StateFits
<1>3. TypeOK'
  BY <1>0, <1>1, <1>2 DEF TypeOK
<1>4. ASSUME NEW q \in Proc PROVE Fits(q)'
  <2>1. CASE p_wchan[q] # chan
    <3>1. Untouched(q)
      BY <1>1, <2>1 DEF Untouched
    <3> QED
      BY <1>0, <3>1, UntouchedFits
  <2>2. CASE p_wchan[q] = chan
    <3>1. chan # nochan
      BY SleepAssumption
    <3>2. /\ InTsleep(q) /\ p_wchan'[q] = nochan /\ ended'[q] = "wakeup"
          /\ p_stat'[q] \in {"SRUN", "SSTOP"} /\ (p_stat'[q] = "SSTOP" => p_stat[q] = "SSTOP")
      BY <1>0, <1>1, <2>2, <3>1 DEF Fits, StateFits
    <3>3. q \notin STIMO
      BY <1>0, <2>2, <3>1, <3>2 DEF Fits, EndFits
    <3> QED
      BY <1>0, <1>1, <3>2, <3>3
         DEF Fits, StateFits, MarksFit, EndFits, ResultFits, InTsleep
  <2> QED
    BY <2>1, <2>2
<1> QED
  BY <1>2, <1>3, <1>4 DEF SleepInv

\* unsleep() of a process in tsleep() that goes on as stat.
LEMMA UnsleepFits ==
  ASSUME SleepInv, NEW p \in Proc, NEW reason \in {"timo", "signal"}, unsleep(p, reason),
         p_stat'[p] \in {"SRUN", "SSTOP"},
         p_stat[p] = "SSLEEP" \/ p_stat[p] = "SSTOP",
         p_stat'[p] = "SSTOP" => p_stat[p] = "SSTOP",
         UNCHANGED <<SSINTR, where, catch, timo, ret>>,
         endtimer' \subseteq endtimer,
         IF reason = "timo" /\ p_wchan[p] # nochan
           THEN p \in endtimer /\ p \in STIMO' /\ p \notin endtimer'
           ELSE p \in STIMO' <=> p \in STIMO,
         reason = "signal" => p \in SSINTR \/ p_wchan[p] = nochan
  PROVE  Fits(p)'
<1>0. TypeOK /\ Fits(p)
  BY DEF SleepInv
<1>1. p_wchan'[p] = nochan /\ ended'[p] = IF p_wchan[p] # nochan THEN reason ELSE ended[p]
  BY <1>0 DEF unsleep, TypeOK
<1>2. CASE p_wchan[p] = nochan
  BY <1>0, <1>1, <1>2
     DEF Fits, StateFits, MarksFit, EndFits, ResultFits, InTsleep
<1>3. CASE p_wchan[p] # nochan
  <2>1. InTsleep(p) /\ ret[p] = "none" /\ ended[p] = "none" /\ p \notin STIMO
    BY <1>0, <1>3 DEF Fits, StateFits, EndFits, ResultFits
  <2>2. CASE reason = "timo"
    BY <1>0, <1>1, <1>3, <2>1, <2>2
       DEF Fits, StateFits, MarksFit, EndFits, ResultFits, InTsleep
  <2>3. CASE reason = "signal"
    BY <1>0, <1>1, <1>3, <2>1, <2>3
       DEF Fits, StateFits, MarksFit, EndFits, ResultFits, InTsleep
  <2> QED
    BY <2>2, <2>3
<1> QED
  BY <1>2, <1>3

\* The time limit of a sleep.
LEMMA TimerStep ==
  ASSUME SleepInv, NEW p \in Proc, endtsleep(p) PROVE SleepInv'
<1>0. TypeOK /\ ~panicked /\ Fits(p)
  BY DEF SleepInv
<1>1. /\ p \in endtimer /\ endtimer' = endtimer \ {p}
      /\ UNCHANGED <<SSINTR, p_sig, p_sigmask, p_sigcatch, where, catch, timo, ret, owed>>
  BY DEF endtsleep
<1>2. CASE p_wchan[p] # nochan
  <2>1. /\ unsleep(p, "timo") /\ STIMO' = STIMO \cup {p} /\ panicked' = panicked
        /\ p_stat' = [p_stat EXCEPT ![p] = IF p_stat[p] = "SSLEEP" THEN "SRUN" ELSE p_stat[p]]
    BY <1>0, <1>2 DEF endtsleep, setrun, TypeOK
  <2>2. p_stat[p] \in {"SSLEEP", "SSTOP"}
    BY <1>0, <1>2 DEF Fits, StateFits
  <2>3. TypeOK'
    BY <1>0, <1>1, <2>1 DEF TypeOK, unsleep
  <2>4. \A q \in Proc \ {p} : Untouched(q)
    BY <1>0, <1>1, <2>1 DEF TypeOK, unsleep, Untouched
  <2>5. p_stat'[p] = IF p_stat[p] = "SSLEEP" THEN "SRUN" ELSE p_stat[p]
    BY <1>0, <2>1 DEF TypeOK
  <2>6. Fits(p)'
    BY <1>1, <1>2, <2>1, <2>2, <2>5, UnsleepFits
  <2> QED
    BY <1>0, <2>1, <2>3, <2>4, <2>6, OneProcess
<1>3. CASE p_wchan[p] = nochan
  <2>1. UNCHANGED <<p_stat, p_wchan, STIMO, ended, panicked>>
    BY <1>3 DEF endtsleep
  <2>2. TypeOK'
    BY <1>0, <1>1, <2>1 DEF TypeOK
  <2>3. \A q \in Proc \ {p} : Untouched(q)
    BY <1>1, <2>1 DEF Untouched
  <2>4. Fits(p)'
    BY <1>0, <1>1, <2>1
       DEF Fits, StateFits, MarksFit, EndFits, ResultFits, InTsleep
  <2> QED
    BY <1>0, <2>1, <2>2, <2>3, <2>4, OneProcess
<1> QED
  BY <1>2, <1>3

\* A signal acts upon a sleeping or stopped process of the model in one of four ways:
\* not at all, it runs, it stops in an interruptible sleep, it sleeps on, or it is
\* only taken off its queue.
LEMMA SignalCases ==
  ASSUME SleepInv, NEW p \in Proc, NEW sig \in Sent, psignal(p, sig)
  PROVE  \/ Alone
         \/ setrun(p, "signal") /\ (p_stat[p] = "SSTOP" \/ Interruptible(p))
         \/ /\ Interruptible(p) /\ p_stat' = [p_stat EXCEPT ![p] = "SSTOP"]
            /\ UNCHANGED <<p_wchan, ended, panicked>>
         \/ /\ p_stat[p] = "SSTOP" /\ p_wchan[p] # nochan
            /\ p_stat' = [p_stat EXCEPT ![p] = "SSLEEP"]
            /\ UNCHANGED <<p_wchan, ended, panicked>>
         \/ /\ p_stat[p] = "SSTOP" /\ p \in SSINTR /\ unsleep(p, "signal")
            /\ UNCHANGED <<p_stat, panicked>>
<1>1. CASE psignal_sleep(p, sig) /\ Interruptible(p)
  BY <1>1 DEF psignal_sleep
<1>2. CASE psignal_stop(p, sig) /\ p_stat[p] = "SSTOP"
  BY <1>2 DEF psignal_stop, Alone
<1> QED
  BY <1>1, <1>2 DEF psignal

\* psignal() leaves sets of signals.
LEMMA SignalTypes ==
  ASSUME TypeOK, NEW p \in Proc, NEW sig \in Sent, psignal(p, sig)
  PROVE  p_sig' \in [Proc -> SUBSET Sig] /\ owed' \subseteq Proc
<1>1. sig \in Sig
  BY SleepAssumption DEF Sig
<1>2. Posted(p, sig) \in SUBSET Sig
  BY <1>1 DEF TypeOK, Posted
<1>3. Pending(p, sig) \/ Cleared(p, sig)
  BY DEF psignal, psignal_sleep, psignal_stop
<1>4. CASE Pending(p, sig)
  BY <1>1, <1>2, <1>4 DEF TypeOK, Pending
<1>5. CASE Cleared(p, sig)
  BY <1>1, <1>2, <1>5 DEF TypeOK, Cleared
<1> QED
  BY <1>3, <1>4, <1>5

\* psignal().
LEMMA SignalStep ==
  ASSUME SleepInv, NEW p \in Proc, NEW sig \in Sent, psignal(p, sig) PROVE SleepInv'
<1>0. TypeOK /\ ~panicked /\ Fits(p)
  BY DEF SleepInv
<1>1. /\ p_sig' \in [Proc -> SUBSET Sig] /\ owed' \subseteq Proc
      /\ UNCHANGED <<SSINTR, STIMO, endtimer, p_sigmask, p_sigcatch, where, catch, timo, ret>>
  BY <1>0, SignalTypes DEF psignal
<1>2. CASE Alone
  <2>1. TypeOK'
    BY <1>0, <1>1, <1>2 DEF TypeOK, Alone
  <2>2. \A q \in Proc : Untouched(q)
    BY <1>1, <1>2 DEF Alone, Untouched
  <2>3. Fits(p)'
    BY <1>0, <2>2, UntouchedFits
  <2> QED
    BY <1>0, <1>2, <2>1, <2>2, <2>3, OneProcess DEF Alone
<1>3. CASE setrun(p, "signal") /\ (p_stat[p] = "SSTOP" \/ Interruptible(p))
  <2>1. TypeOK' /\ ~panicked'
    BY <1>0, <1>1, <1>3 DEF TypeOK, setrun, unsleep, Interruptible
  <2>2. \A q \in Proc \ {p} : Untouched(q)
    BY <1>0, <1>1, <1>3 DEF TypeOK, setrun, unsleep, Untouched
  <2>3. p_stat'[p] = "SRUN" /\ unsleep(p, "signal")
    BY <1>0, <1>3 DEF TypeOK, setrun
  <2>4. p \in SSINTR \/ p_wchan[p] = nochan
    BY <1>0, <1>3 DEF Interruptible, Fits, StateFits, MarksFit, InTsleep
  <2>5. Fits(p)'
    BY <1>1, <1>3, <2>3, <2>4, UnsleepFits DEF Interruptible
  <2> QED
    BY <2>1, <2>2, <2>5, OneProcess
<1>4. CASE /\ Interruptible(p) /\ p_stat' = [p_stat EXCEPT ![p] = "SSTOP"]
           /\ UNCHANGED <<p_wchan, ended, panicked>>
  <2>1. TypeOK'
    BY <1>0, <1>1, <1>4 DEF TypeOK
  <2>2. \A q \in Proc \ {p} : Untouched(q)
    BY <1>0, <1>1, <1>4 DEF TypeOK, Untouched
  <2>3. Fits(p)'
    BY <1>0, <1>1, <1>4
       DEF TypeOK, Interruptible, Fits, StateFits, MarksFit, EndFits, ResultFits, InTsleep
  <2> QED
    BY <1>0, <1>4, <2>1, <2>2, <2>3, OneProcess
<1>5. CASE /\ p_stat[p] = "SSTOP" /\ p_wchan[p] # nochan
           /\ p_stat' = [p_stat EXCEPT ![p] = "SSLEEP"]
           /\ UNCHANGED <<p_wchan, ended, panicked>>
  <2>1. TypeOK'
    BY <1>0, <1>1, <1>5 DEF TypeOK
  <2>2. \A q \in Proc \ {p} : Untouched(q)
    BY <1>0, <1>1, <1>5 DEF TypeOK, Untouched
  <2>3. Fits(p)'
    BY <1>0, <1>1, <1>5
       DEF TypeOK, Fits, StateFits, MarksFit, EndFits, ResultFits, InTsleep
  <2> QED
    BY <1>0, <1>5, <2>1, <2>2, <2>3, OneProcess
<1>6. CASE /\ p_stat[p] = "SSTOP" /\ p \in SSINTR /\ unsleep(p, "signal")
           /\ UNCHANGED <<p_stat, panicked>>
  <2>1. TypeOK'
    BY <1>0, <1>1, <1>6 DEF TypeOK, unsleep
  <2>2. \A q \in Proc \ {p} : Untouched(q)
    BY <1>0, <1>1, <1>6 DEF TypeOK, unsleep, Untouched
  <2>3. Fits(p)'
    BY <1>1, <1>6, UnsleepFits
  <2> QED
    BY <1>0, <1>6, <2>1, <2>2, <2>3, OneProcess
<1> QED
  BY <1>2, <1>3, <1>4, <1>5, <1>6, SignalCases

-----------------------------------------------------------------------------
(* The theorems.                                                           *)

\* Nobody sleeps at first.
LEMMA InitInv == Init => SleepInv
<1> SUFFICES ASSUME Init PROVE SleepInv
  OBVIOUS
<1>1. TypeOK
  BY DEF Init, TypeOK, Places, Results
<1>2. \A p \in Proc : Fits(p)
  BY DEF Init, Fits, StateFits, MarksFit, EndFits, ResultFits, InTsleep
<1> QED
  BY <1>1, <1>2 DEF Init, SleepInv

\* Every step keeps the invariant.
LEMMA StepInv == SleepInv /\ [Next]_vars => SleepInv'
<1> SUFFICES ASSUME SleepInv, [Next]_vars PROVE SleepInv'
  OBVIOUS
<1>1. CASE UNCHANGED vars
  BY <1>1 DEF vars, sched, SleepInv, TypeOK, Fits, StateFits, MarksFit, EndFits, ResultFits,
              InTsleep
<1>2. CASE Next
  BY <1>2, EnterStep, ResumedStep, SwtchStep, LeaveStep, AstStep, SignalCallStep, WakeupStep,
     TimerStep, SignalStep DEF Next
<1> QED
  BY <1>1, <1>2

\* A process that sleeps is on a queue, one that may run or is dead is on none, no
\* timer or mark of tsleep() outlives the sleep it was set for, and so setrun() and
\* wakeup() never panic.
THEOREM SleepersAreOnQueues == Spec => []QueueMatchesState
<1>1. SleepInv => QueueMatchesState
  BY DEF SleepInv, QueueMatchesState, NoStaleTimer, Fits, StateFits, MarksFit, InTsleep
<1> QED
  BY InitInv, StepInv, <1>1, PTL DEF Spec

\* What tsleep() returns: EWOULDBLOCK only for the time limit, EINTR only to a caller
\* that asked for signals, 0 to another caller only for a wakeup; and no signal stops
\* or interrupts the sleep of a caller that did not ask for signals.
THEOREM TsleepTellsTheCause == Spec => []ResultTellsWhatEnded
<1>1. SleepInv => ResultTellsWhatEnded
  <2> SUFFICES ASSUME SleepInv, NEW p \in Proc
               PROVE  /\ ret[p] = "EWOULDBLOCK" => ended[p] = "timo" /\ timo[p]
                      /\ ret[p] = "0" /\ ~catch[p] => ended[p] = "wakeup"
                      /\ ret[p] = "EINTR" => catch[p]
                      /\ ~catch[p] => ended[p] # "signal"
                      /\ where[p] = "swtch" /\ p \notin SSINTR => p_stat[p] \in {"SSLEEP", "SRUN"}
    BY DEF ResultTellsWhatEnded
  <2>1. TypeOK /\ Fits(p)
    BY DEF SleepInv
  <2>2. catch[p] \in BOOLEAN /\ timo[p] \in BOOLEAN
    BY <2>1 DEF TypeOK
  <2> QED
    BY <2>1, <2>2 DEF TypeOK, Fits, StateFits, MarksFit, EndFits, ResultFits
<1> QED
  BY InitInv, StepInv, <1>1, PTL DEF Spec
=============================================================================
