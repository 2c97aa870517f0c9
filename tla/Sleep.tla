-------------------------------- MODULE Sleep --------------------------------
(***************************************************************************)
(* kern/synch.c and the parts of kern/sig.c it meets: tsleep(), wakeup(),  *)
(* endtsleep(), unsleep(), setrun(), psignal(), issig() and stop().        *)
(*                                                                         *)
(* A process gives up the processor at four places only: asleep in         *)
(* tsleep(), or stopped inside issig() called from tsleep() before it      *)
(* sleeps, from tsleep() after it slept, or on the way back to user mode.  *)
(* Between two such places it runs atomically (one processor, no           *)
(* preemption, splhigh() in these functions); wakeup(), psignal() and the  *)
(* time limit may come from interrupts or other processes in between.      *)
(*                                                                         *)
(* Signals are the four kinds that the code treats differently: one with a *)
(* handler ("usr"), a default stop ("stop"), SIGCONT ("cont", with a       *)
(* handler or without) and SIGKILL ("kill").                               *)
(***************************************************************************)
EXTENDS Naturals, FiniteSets

CONSTANTS
  Proc,        \* the processes
  Chan,        \* the channels they sleep on
  nochan,      \* p_wchan of a process that is on no sleep queue
  Sent,        \* the signals that are sent
  Masks        \* the masks that processes ask for

ASSUME SleepAssumption ==
  /\ nochan \notin Chan
  /\ Sent \subseteq {"kill", "stop", "cont", "usr"}
  /\ Masks \subseteq SUBSET {"kill", "stop", "cont", "usr"}

VARIABLES
  p_stat,      \* "SRUN", "SSLEEP", "SSTOP" or "SZOMB"
  p_wchan,     \* channel, or nochan; a process with one is on a sleep queue
  p_sig,       \* pending signals
  p_sigmask,   \* held signals
  p_sigcatch,  \* processes with a handler for SIGCONT
  SSINTR,      \* processes in an interruptible sleep
  STIMO,       \* processes whose time limit ran out
  endtimer,    \* processes with endtsleep() in the callout queue
  where,       \* where the process gave up the processor
  catch, timo, \* tsleep()'s local `catch' argument, and whether it has a limit
  ret,         \* what the last tsleep() of the process returned
  ended,       \* history: what took the process off its sleep queue
  owed,        \* history: processes sent a stop they have not yet acted upon
  panicked     \* setrun() or wakeup() panicked

sched == <<p_stat, p_wchan, SSINTR, STIMO, endtimer>>
vars  == <<sched, p_sig, p_sigmask, p_sigcatch, where, catch, timo, ret, ended, owed, panicked>>

Sig == {"kill", "stop", "cont", "usr"}
CanMask == Sig \ {"kill"}
Places == {"out", "enter", "swtch", "leave", "ast"}
Results == {"none", "0", "EWOULDBLOCK", "EINTR"}

TypeOK ==
  /\ p_stat \in [Proc -> {"SRUN", "SSLEEP", "SSTOP", "SZOMB"}]
  /\ p_wchan \in [Proc -> Chan \cup {nochan}]
  /\ p_sig \in [Proc -> SUBSET Sig] /\ p_sigmask \in [Proc -> SUBSET CanMask]
  /\ p_sigcatch \subseteq Proc
  /\ SSINTR \subseteq Proc /\ STIMO \subseteq Proc /\ endtimer \subseteq Proc
  /\ where \in [Proc -> Places]
  /\ catch \in [Proc -> BOOLEAN] /\ timo \in [Proc -> BOOLEAN]
  /\ ret \in [Proc -> Results]
  /\ ended \in [Proc -> {"none", "wakeup", "timo", "signal"}]
  /\ owed \subseteq Proc /\ panicked \in BOOLEAN

Init ==
  /\ p_stat = [p \in Proc |-> "SRUN"] /\ p_wchan = [p \in Proc |-> nochan]
  /\ p_sig = [p \in Proc |-> {}] /\ p_sigmask = [p \in Proc |-> {}]
  /\ p_sigcatch = {}
  /\ SSINTR = {} /\ STIMO = {} /\ endtimer = {}
  /\ where = [p \in Proc |-> "out"]
  /\ catch = [p \in Proc |-> FALSE] /\ timo = [p \in Proc |-> FALSE]
  /\ ret = [p \in Proc |-> "none"] /\ ended = [p \in Proc |-> "none"]
  /\ owed = {} /\ panicked = FALSE

-----------------------------------------------------------------------------
(* CURSIG()/issig(): looks at the deliverable signals, lowest number       *)
(* first (SIGKILL, the stops, SIGCONT, SIGUSR1).  A default SIGCONT is     *)
(* dropped, a stop makes the process stop inside issig(), anything else is *)
(* returned.                                                               *)

Deliverable(p, s) == s \ p_sigmask[p]
Handled(p) == IF p \in p_sigcatch THEN {"cont", "usr"} ELSE {"usr"}

\* The outcome for pending signals s.
Issig(p, s) ==
  LET d == Deliverable(p, s)
  IN CASE "kill" \in d -> "sig"
       [] "kill" \notin d /\ "stop" \in d -> "stop"
       [] d \cap {"kill", "stop"} = {} /\ d \cap Handled(p) # {} -> "sig"
       [] OTHER -> "none"

\* What issig() leaves pending: the ignored SIGCONT goes once it is reached.
AfterIssig(p, s) ==
  IF p \in p_sigcatch \/ Deliverable(p, s) \cap {"kill", "stop"} # {}
    THEN s ELSE s \ (Deliverable(p, s) \cap {"cont"})

\* A process resumed inside issig() first clears the stop it acted upon; the
\* bit may by now stand for another one.
ClearStop(p) == p_sig[p] \ {"stop"}

\* stop(): the process stops with the given place as the one it will resume at.
StopAt(p, place) ==
  /\ p_stat' = [p_stat EXCEPT ![p] = "SSTOP"]
  /\ where' = [where EXCEPT ![p] = place]
  /\ owed' = owed \ {p}

-----------------------------------------------------------------------------
(* tsleep().  ERESTART is not told apart from EINTR.                       *)

Running(p) == p_stat[p] = "SRUN" /\ ~panicked

Returns(p, value) ==
  /\ p_stat' = [p_stat EXCEPT ![p] = "SRUN"]
  /\ where' = [where EXCEPT ![p] = "out"]
  /\ ret' = [ret EXCEPT ![p] = value]
  /\ owed' = owed

\* untimeout(endtsleep, p), when a limit was set and has not run out; and not.
Untimed_forgot(p) == endtimer
Untimed(p) == IF p \notin STIMO /\ timo[p] THEN endtimer \ {p} ELSE endtimer

\* From the label `resume' on, with pending signals s, the local variable c
\* (catch) and sig saying whether a signal was found before sleeping.
Finish(p, s, c, sig) ==
  LET early == p \in STIMO /\ (~c \/ ~sig)
      look == c /\ ~sig /\ ~early
      out == IF look THEN Issig(p, s) ELSE IF sig THEN "sig" ELSE "none"
  IN /\ SSINTR' = SSINTR \ {p}
     /\ STIMO' = STIMO \ {p}
     /\ endtimer' = Untimed(p)
     /\ p_sig' = [p_sig EXCEPT ![p] = IF look THEN AfterIssig(p, s) ELSE s]
     /\ IF out = "stop" THEN StopAt(p, "leave") /\ UNCHANGED ret
        ELSE Returns(p, IF early THEN "EWOULDBLOCK" ELSE IF out = "sig" THEN "EINTR" ELSE "0")

\* The process gives up the processor asleep.
Sleeps(p, s) ==
  /\ p_stat' = [p_stat EXCEPT ![p] = "SSLEEP"]
  /\ where' = [where EXCEPT ![p] = "swtch"]
  /\ p_sig' = [p_sig EXCEPT ![p] = s]

\* Entering tsleep(chan, pri, wmesg, timo): on the queue first, then the timer,
\* then the signals; a signal found at once undoes both.
tsleep(p, chan, c, t) ==
  /\ Running(p) /\ where[p] = "out"
  /\ catch' = [catch EXCEPT ![p] = c]
  /\ timo' = [timo EXCEPT ![p] = t]
  /\ ended' = [ended EXCEPT ![p] = "none"]
  /\ LET out == IF c THEN Issig(p, p_sig[p]) ELSE "none"
         s == IF c THEN AfterIssig(p, p_sig[p]) ELSE p_sig[p]
     IN \/ /\ out = "sig"
           /\ p_sig' = [p_sig EXCEPT ![p] = s]
           /\ Returns(p, "EINTR")
           /\ UNCHANGED <<p_wchan, SSINTR, endtimer>>
        \/ /\ out # "sig"
           /\ p_wchan' = [p_wchan EXCEPT ![p] = chan]
           /\ endtimer' = IF t THEN endtimer \cup {p} ELSE endtimer
           /\ SSINTR' = IF c THEN SSINTR \cup {p} ELSE SSINTR
           /\ ret' = [ret EXCEPT ![p] = "none"]
           /\ \/ out = "stop" /\ StopAt(p, "enter") /\ UNCHANGED p_sig
              \/ out = "none" /\ Sleeps(p, s) /\ UNCHANGED owed
  /\ UNCHANGED <<STIMO, p_sigmask, p_sigcatch, panicked>>

\* Resumed in the first CURSIG of tsleep(): with a signal, with the sleep over
\* already (p_wchan 0), or still to sleep.
tsleep_enter(p) ==
  /\ Running(p) /\ where[p] = "enter"
  /\ LET out == Issig(p, ClearStop(p))
         s == AfterIssig(p, ClearStop(p))
     IN IF out = "sig" \/ p_wchan[p] = nochan
          THEN /\ p_wchan' = [p_wchan EXCEPT ![p] = nochan]
               /\ Finish(p, s, out = "sig", out = "sig")
          ELSE Sleeps(p, s) /\ UNCHANGED <<p_wchan, SSINTR, STIMO, endtimer, ret, owed>>
  /\ UNCHANGED <<p_sigmask, p_sigcatch, catch, timo, ended, panicked>>

\* Resumed from swtch().
tsleep_swtch(p) ==
  /\ Running(p) /\ where[p] = "swtch"
  /\ Finish(p, p_sig[p], catch[p], FALSE)
  /\ UNCHANGED <<p_wchan, p_sigmask, p_sigcatch, catch, timo, ended, panicked>>

\* Resumed in the second CURSIG of tsleep().
tsleep_leave(p) ==
  /\ Running(p) /\ where[p] = "leave"
  /\ p_sig' = [p_sig EXCEPT ![p] = AfterIssig(p, ClearStop(p))]
  /\ Returns(p, IF Issig(p, ClearStop(p)) = "sig" THEN "EINTR" ELSE "0")
  /\ UNCHANGED <<p_wchan, SSINTR, STIMO, endtimer, p_sigmask, p_sigcatch, catch, timo, ended, panicked>>

-----------------------------------------------------------------------------
(* The way back to user mode: while (sig = CURSIG(p)) psig(sig).  Handlers *)
(* hold their signal; a default action ends the process.                   *)

ast(p) ==
  /\ Running(p) /\ where[p] \in {"out", "ast"}
  /\ LET s == IF where[p] = "ast" THEN ClearStop(p) ELSE p_sig[p]
         d == Deliverable(p, s)
         taken == d \cap Handled(p)
     IN \/ /\ "kill" \in d
           /\ p_stat' = [p_stat EXCEPT ![p] = "SZOMB"]
           /\ where' = [where EXCEPT ![p] = "out"]
           /\ p_sig' = [p_sig EXCEPT ![p] = s \ {"kill"}]
           /\ UNCHANGED <<p_sigmask, owed>>
        \/ /\ "kill" \notin d /\ "stop" \in d
           /\ StopAt(p, "ast")
           /\ UNCHANGED <<p_sig, p_sigmask>>
        \/ /\ d \cap {"kill", "stop"} = {} /\ (d # {} \/ where[p] = "ast")
           /\ where' = [where EXCEPT ![p] = "out"]
           /\ p_sig' = [p_sig EXCEPT ![p] = s \ d]
           /\ p_sigmask' = [p_sigmask EXCEPT ![p] = @ \cup taken]
           /\ UNCHANGED <<p_stat, owed>>
  /\ UNCHANGED <<p_wchan, SSINTR, STIMO, endtimer, p_sigcatch, catch, timo, ret, ended, panicked>>

\* A mistake, to see properties fail: SIGKILL may be held.  (The suffixed
\* definitions below are of the same kind.)
sigprocmask_any(p, m) ==
  /\ Running(p) /\ where[p] = "out"
  /\ p_sigmask' = [p_sigmask EXCEPT ![p] = m]
  /\ UNCHANGED <<sched, p_sig, p_sigcatch, where, catch, timo, ret, ended, owed, panicked>>

\* sigprocmask(), and sigreturn() giving back the mask a handler changed.
sigprocmask(p, m) ==
  /\ Running(p) /\ where[p] = "out"
  /\ p_sigmask' = [p_sigmask EXCEPT ![p] = m \cap CanMask]
  /\ UNCHANGED <<sched, p_sig, p_sigcatch, where, catch, timo, ret, ended, owed, panicked>>

\* sigaction() for SIGCONT: a handler, or the default, which drops a pending one.
sigaction(p, handler) ==
  /\ Running(p) /\ where[p] = "out" /\ handler # (p \in p_sigcatch)
  /\ p_sigcatch' = IF handler THEN p_sigcatch \cup {p} ELSE p_sigcatch \ {p}
  /\ p_sig' = IF handler THEN p_sig ELSE [p_sig EXCEPT ![p] = @ \ {"cont"}]
  /\ UNCHANGED <<sched, p_sigmask, where, catch, timo, ret, ended, owed, panicked>>

-----------------------------------------------------------------------------
(* What others do to the process.                                          *)

\* wakeup(chan): every process on the channel leaves the queue; the ones that
\* sleep become runnable, the stopped ones stay stopped.
wakeup(chan) ==
  LET on == {p \in Proc : p_wchan[p] = chan}
      queued == {p \in Proc : p_wchan[p] # nochan}
  IN /\ ~panicked /\ queued # {}
     /\ panicked' = (\E p \in queued : p_stat[p] \notin {"SSLEEP", "SSTOP"})
     /\ p_wchan' = [p \in Proc |-> IF p \in on THEN nochan ELSE p_wchan[p]]
     /\ p_stat' = [p \in Proc |-> IF p \in on /\ p_stat[p] = "SSLEEP" THEN "SRUN" ELSE p_stat[p]]
     /\ ended' = [p \in Proc |-> IF p \in on THEN "wakeup" ELSE ended[p]]
     /\ UNCHANGED <<SSINTR, STIMO, endtimer, p_sig, p_sigmask, p_sigcatch, where, catch, timo, ret, owed>>

\* unsleep(), with the reason for the history.
unsleep(p, reason) ==
  /\ p_wchan' = [p_wchan EXCEPT ![p] = nochan]
  /\ ended' = [ended EXCEPT ![p] = IF p_wchan[p] # nochan THEN reason ELSE @]

setrun(p, reason) ==
  /\ panicked' = (panicked \/ p_stat[p] \notin {"SSTOP", "SSLEEP"})
  /\ unsleep(p, reason)
  /\ p_stat' = [p_stat EXCEPT ![p] = "SRUN"]

\* The time limit comes after the wakeup and the process is marked all the same;
\* or a sleeping process is taken off its queue and not run.
endtsleep_marks(p) ==
  /\ ~panicked /\ p \in endtimer
  /\ endtimer' = endtimer \ {p} /\ STIMO' = STIMO \cup {p}
  /\ unsleep(p, "timo")
  /\ p_stat' = [p_stat EXCEPT ![p] = IF @ = "SSLEEP" THEN "SRUN" ELSE @]
  /\ UNCHANGED <<panicked, SSINTR, p_sig, p_sigmask, p_sigcatch, where, catch, timo, ret, owed>>
endtsleep_drops(p) ==
  /\ ~panicked /\ p \in endtimer
  /\ endtimer' = endtimer \ {p}
  /\ unsleep(p, "timo")
  /\ UNCHANGED <<p_stat, STIMO, panicked, SSINTR, p_sig, p_sigmask, p_sigcatch, where, catch, timo, ret, owed>>

\* The time limit: a process already off the queue was awakened before.
endtsleep(p) ==
  /\ ~panicked /\ p \in endtimer
  /\ endtimer' = endtimer \ {p}
  /\ \/ /\ p_wchan[p] # nochan /\ p_stat[p] = "SSLEEP"
        /\ setrun(p, "timo")
        /\ STIMO' = STIMO \cup {p}
     \/ /\ p_wchan[p] # nochan /\ p_stat[p] # "SSLEEP"
        /\ unsleep(p, "timo")
        /\ STIMO' = STIMO \cup {p}
        /\ UNCHANGED <<p_stat, panicked>>
     \/ /\ p_wchan[p] = nochan
        /\ UNCHANGED <<p_stat, p_wchan, STIMO, ended, panicked>>
  /\ UNCHANGED <<SSINTR, p_sig, p_sigmask, p_sigcatch, where, catch, timo, ret, owed>>

Action(p, sig) ==
  IF sig \in p_sigmask[p] THEN "SIG_HOLD"
  ELSE IF sig \in Handled(p) THEN "SIG_CATCH" ELSE "SIG_DFL"

\* The pending signals once sig is posted: a SIGCONT cancels the stops, a stop
\* cancels SIGCONT.
Posted(p, sig) ==
  (p_sig[p] \ (CASE sig = "cont" -> {"stop"} [] sig = "stop" -> {"cont"} [] OTHER -> {}))
    \cup {sig}

\* psignal() leaves the signal pending, or acts upon it now and clears it.
Pending(p, sig) ==
  /\ p_sig' = [p_sig EXCEPT ![p] = Posted(p, sig)]
  /\ owed' = CASE sig = "cont" -> owed \ {p}
               [] sig = "stop" -> owed \cup {p}
               [] OTHER -> owed
Cleared(p, sig) ==
  /\ p_sig' = [p_sig EXCEPT ![p] = Posted(p, sig) \ {sig}]
  /\ owed' = owed \ {p}

Alone == UNCHANGED <<p_stat, p_wchan, ended, panicked>>

\* The sleeps that psignal() may end.
Interruptible(p) == p_stat[p] = "SSLEEP" /\ p \in SSINTR

\* psignal() of a process in an interruptible sleep.
psignal_sleep(p, sig) ==
  \/ sig = "cont" /\ Action(p, sig) = "SIG_DFL" /\ Cleared(p, sig) /\ Alone
  \/ /\ sig = "stop" /\ Action(p, sig) = "SIG_DFL"
     /\ Cleared(p, sig)
     /\ p_stat' = [p_stat EXCEPT ![p] = "SSTOP"]
     /\ UNCHANGED <<p_wchan, ended, panicked>>
  \/ /\ sig \notin {"cont", "stop"} \/ Action(p, sig) # "SIG_DFL"
     /\ Pending(p, sig)
     /\ setrun(p, "signal")

\* psignal() of a stopped process.
psignal_stop(p, sig) ==
  \/ sig = "kill" /\ Pending(p, sig) /\ setrun(p, "signal")
  \/ /\ sig = "cont"
     /\ IF Action(p, sig) = "SIG_DFL" THEN Cleared(p, sig) ELSE Pending(p, sig)
     /\ IF Action(p, sig) = "SIG_CATCH" \/ p_wchan[p] = nochan
          THEN setrun(p, "signal")
          ELSE p_stat' = [p_stat EXCEPT ![p] = "SSLEEP"] /\ UNCHANGED <<p_wchan, ended, panicked>>
  \/ sig = "stop" /\ Cleared(p, sig) /\ Alone
  \/ /\ sig = "usr"
     /\ Pending(p, sig)
     /\ IF p \in SSINTR THEN unsleep(p, "signal") ELSE UNCHANGED <<p_wchan, ended>>
     /\ UNCHANGED <<p_stat, panicked>>

psignal(p, sig) ==
  LET held == Action(p, sig) = "SIG_HOLD" /\ (sig # "cont" \/ p_stat[p] # "SSTOP")
  IN /\ ~panicked /\ p_stat[p] # "SZOMB"
     /\ \/ /\ held \/ (~Interruptible(p) /\ p_stat[p] # "SSTOP")
           /\ Pending(p, sig) /\ Alone
        \/ ~held /\ Interruptible(p) /\ psignal_sleep(p, sig)
        \/ ~held /\ p_stat[p] = "SSTOP" /\ psignal_stop(p, sig)
     /\ UNCHANGED <<SSINTR, STIMO, endtimer, p_sigmask, p_sigcatch, where, catch, timo, ret>>

-----------------------------------------------------------------------------
Next ==
  \/ \E p \in Proc, chan \in Chan, c, t \in BOOLEAN : tsleep(p, chan, c, t)
  \/ \E p \in Proc : tsleep_enter(p) \/ tsleep_swtch(p) \/ tsleep_leave(p) \/ ast(p)
  \/ \E p \in Proc, m \in Masks : sigprocmask(p, m)
  \/ \E p \in Proc, handler \in BOOLEAN : sigaction(p, handler)
  \/ \E chan \in Chan : wakeup(chan)
  \/ \E p \in Proc : endtsleep(p)
  \/ \E p \in Proc, sig \in Sent : psignal(p, sig)

Spec == Init /\ [][Next]_vars

\* The scheduler runs every runnable process and the clock serves the callout
\* queue; nothing forces a wakeup() or a signal.
Fairness == \A p \in Proc :
  /\ WF_vars(tsleep_enter(p) \/ tsleep_swtch(p) \/ tsleep_leave(p))
  /\ WF_vars(ast(p)) /\ WF_vars(endtsleep(p))
FairSpec == Spec /\ Fairness

-----------------------------------------------------------------------------
\* Outside tsleep() nothing of it is left: no endtsleep() in the callout queue to hit a
\* later sleep or a dead process, no timed-out mark, no interruptible mark.  Inside, the
\* timer and the mark exclude each other.
NoStaleTimer == \A p \in Proc :
  /\ where[p] \in {"out", "ast", "leave"} => p \notin endtimer \cup STIMO \cup SSINTR
  /\ ~(p \in endtimer /\ p \in STIMO)

(* A process that sleeps is on a queue, where wakeup() and the timer will  *)
(* find it, one that may run, or is dead, is on none, and so setrun() and  *)
(* wakeup() never meet a process in a state they panic on; and no timer    *)
(* outlives its sleep.                                                     *)
QueueMatchesState ==
  /\ TypeOK /\ ~panicked /\ NoStaleTimer
  /\ \A p \in Proc :
       /\ p_stat[p] = "SSLEEP" => p_wchan[p] # nochan
       /\ p_stat[p] \in {"SRUN", "SZOMB"} => p_wchan[p] = nochan

(* EWOULDBLOCK is returned only when the time limit, and no earlier        *)
(* wakeup, ended the sleep; a sleep without PCATCH ends only by a wakeup   *)
(* or the time limit, is neither interrupted nor stopped in (the process   *)
(* holds kernel resources until it is awakened), and tells which it was.   *)
ResultTellsWhatEnded == \A p \in Proc :
  /\ ret[p] = "EWOULDBLOCK" => ended[p] = "timo" /\ timo[p]
  /\ ret[p] = "0" /\ ~catch[p] => ended[p] = "wakeup"
  /\ ret[p] = "EINTR" => catch[p]
  /\ ~catch[p] => ended[p] # "signal"
  /\ where[p] = "swtch" /\ p \notin SSINTR => p_stat[p] \in {"SSLEEP", "SRUN"}

(* The comment of tsleep(): `Returns 0 if awakened'.                       *)
ZeroMeansAwakened == \A p \in Proc : ret[p] = "0" => ended[p] = "wakeup"

(* The comment of issig(): `Stop signals with default action are processed *)
(* immediately, then cleared': a stop that was sent stays pending until    *)
(* the process stops for it or a SIGCONT cancels it.                       *)
StopStaysPending == \A p \in owed :
  "stop" \in p_sig[p] \/ "kill" \in p_sig[p] \/ p_stat[p] = "SZOMB"

(* A sleep with a time limit ends, unless a stop holds the process.        *)
TimedSleepEnds == \A p \in Proc :
  where[p] = "swtch" /\ timo[p] ~> where[p] = "out" \/ p_stat[p] = "SSTOP"

(* SIGKILL ends the process wherever it is, stopped or asleep, except in   *)
(* an uninterruptible sleep.                                               *)
KillIsServed == \A p \in Proc :
  "kill" \in p_sig[p] ~> \/ p_stat[p] = "SZOMB"
                         \/ p_stat[p] = "SSLEEP" /\ p \notin SSINTR
=============================================================================
