------------------------------ MODULE ProcLife ------------------------------
(***************************************************************************)
(* kern/fork.c, kern/exit.c and kern/proc.c: processes are born, move      *)
(* between process groups and sessions, exit, are inherited by init and    *)
(* are reaped by wait4().                                                  *)
(*                                                                         *)
(* A process in the kernel runs until it sleeps, and steps end there:      *)
(* waiting for memory in fork1(), for a vforked child and in wait4().      *)
(* cpu_tfork(), exit()'s vmspace_free() and enterpgrp()'s MALLOC() do not  *)
(* sleep here.  allproc and zombproc may be in any order.  Stopped and     *)
(* traced processes, limits per user, controlling terminals and the        *)
(* kernel's own processes, which have no statistics, are left out.         *)
(***************************************************************************)
EXTENDS Integers, FiniteSets, Sequences, SequencesExt

CONSTANTS
  Proc,        \* proc entries: bound of the model
  init,        \* initproc
  Session,     \* sessions: bound of the model
  FirstPid,    \* where pids go on after PID_MAX: 100 in the code
  PID_MAX,
  maxproc,
  WaitFor,     \* subset of {"pid", "pgrp"}: what is waited for, besides any child
  Shell,       \* the process that init has started, ...
  ShellPid,    \* ... its pid, ...
  StartPid,    \* ... and nextpid by now
  LastPid,     \* nobody forks when this pid comes up: bound of the model
  none

ASSUME ProcAssumption ==
  /\ init \in Proc /\ Shell \in Proc \ {init} /\ none \notin Proc \cup Session
  /\ IsFiniteSet(Proc) /\ Cardinality(Session) > Cardinality(Proc)
  /\ FirstPid \in Nat \ {0, 1} /\ PID_MAX \in Nat /\ maxproc \in Nat \ {0, 1}
  /\ PID_MAX - FirstPid > 2 * (maxproc - 2)
  /\ ShellPid \in FirstPid .. PID_MAX - 1 /\ StartPid \in ShellPid .. PID_MAX - 1 /\ LastPid \in Nat
  /\ WaitFor \subseteq {"pid", "pgrp"}

WAIT_ANY == -1
Pid == 1 .. PID_MAX - 1

VARIABLES
  proc,        \* the proc entries
  pgrp,        \* the process groups, by pg_id
  session,     \* the sessions
  nextpid, pidchecked, nprocs
vars == <<proc, pgrp, session, nextpid, pidchecked, nprocs>>

Free == [stat |-> "free", pid |-> 0, pptr |-> none, pgid |-> 0, pgrpnxt |-> none,
         flag |-> {}, at |-> "user", arg |-> 0, child |-> none]
NoGroup == [session |-> none, jobc |-> 0, mem |-> none]
NoSession == [leader |-> none, count |-> 0]

TypeOK ==
  /\ proc \in [Proc -> [stat : {"free", "SIDL", "SRUN", "SZOMB"}, pid : Pid \cup {0},
                        pptr : Proc \cup {none}, pgid : Pid \cup {0}, pgrpnxt : Proc \cup {none},
                        flag : SUBSET {"SPPWAIT", "SZCHILD", "SEXEC"},
                        at : {"user", "redo", "malloc", "copy", "ppwait", "ppwoken", "wait", "wait4"},
                        arg : -PID_MAX .. PID_MAX, child : Proc \cup {none}]]
  /\ pgrp \in [Pid -> [session : Session \cup {none}, jobc : Int, mem : Proc \cup {none}]]
  /\ session \in [Session -> [leader : Proc \cup {none}, count : Nat]]
  /\ nextpid \in Pid /\ pidchecked \in 0 .. PID_MAX
  /\ nprocs = Cardinality({p \in Proc : proc[p].stat # "free"})

\* init and one login shell, each with its session.
Init ==
  LET s == CHOOSE x \in Session : TRUE
      t == CHOOSE x \in Session : x # s
  IN
    /\ proc = [p \in Proc |->
         CASE p = init -> [Free EXCEPT !.stat = "SRUN", !.pid = 1, !.pgid = 1]
           [] p = Shell -> [Free EXCEPT !.stat = "SRUN", !.pid = ShellPid, !.pgid = ShellPid,
                                        !.pptr = init, !.flag = {"SEXEC"}]
           [] OTHER -> Free]
    /\ pgrp = [g \in Pid |->
         CASE g = 1 -> [NoGroup EXCEPT !.session = s, !.mem = init]
           [] g = ShellPid -> [NoGroup EXCEPT !.session = t, !.mem = Shell]
           [] OTHER -> NoGroup]
    /\ session = [x \in Session |-> CASE x = s -> [leader |-> init, count |-> 1]
                                      [] x = t -> [leader |-> Shell, count |-> 1]
                                      [] OTHER -> NoSession]
    /\ nextpid = StartPid /\ pidchecked = PID_MAX /\ nprocs = 2

-----------------------------------------------------------------------------
Running(p) == proc[p].stat = "SRUN" /\ proc[p].at = "user"
Children(p) == {c \in Proc : proc[c].stat # "free" /\ proc[c].pptr = p}
Exists(g) == pgrp[g].session # none
SessionOf(p) == pgrp[proc[p].pgid].session
SESS_LEADER(p) == session[SessionOf(p)].leader = p

\* The members of a group, along pg_mem and p_pgrpnxt.
Members(g) ==
  LET along[p \in Proc \cup {none}] == IF p = none THEN <<>> ELSE <<p>> \o along[proc[p].pgrpnxt]
  IN along[pgrp[g].mem]

\* A mistake, to see WaitersCovered fail: only wait4() is woken.  (Counted_all,
\* Emptied_leader, Scanned_active and InitWoken_not are of the same kind.)
Resumed_wait(r) == [r EXCEPT !.at = IF @ = "wait" THEN "wait4" ELSE @]
\* wakeup() of whoever sleeps on its own proc entry.
Resumed(r) == [r EXCEPT !.at = CASE @ = "ppwait" -> "ppwoken" [] @ = "wait" -> "wait4" [] OTHER -> @]

-----------------------------------------------------------------------------
(* fixjobc(): p enters (n = 1) or leaves (n = -1) group g.  s[h] is the    *)
(* session of group h, j[h] its count.  (orphanpg() only concerns stopped  *)
(* processes.)                                                             *)

\* Zombies are counted.
Counted_all(c) == TRUE
Counted(c) == proc[c].stat # "SZOMB"

fixjobc(j, s, p, g, n) ==
  LET other(h) == h # g /\ s[h] = s[g]
      own == IF other(proc[proc[p].pptr].pgid) THEN 1 ELSE 0
      kids(h) == IF other(h) THEN Cardinality({c \in Children(p) : proc[c].pgid = h /\ Counted(c)}) ELSE 0
  IN [h \in Pid |-> j[h] + n * ((IF h = g THEN own ELSE 0) + kids(h))]

jobcs == [g \in Pid |-> pgrp[g].jobc]
sessions == [g \in Pid |-> pgrp[g].session]

-----------------------------------------------------------------------------
(* Leaving a group, in enterpgrp() and leavepgrp(), and pgdelete()         *)

\* The entries when p is off its group's list.
Unlinked(p) ==
  [q \in Proc |-> IF q \in Range(Members(proc[p].pgid)) /\ proc[q].pgrpnxt = p
                  THEN [proc[q] EXCEPT !.pgrpnxt = proc[p].pgrpnxt] ELSE proc[q]]

\* A group goes with its leader.
Emptied_leader(p) == proc[p].pid = proc[p].pgid
Emptied(p) == pgrp[proc[p].pgid].mem = p /\ proc[p].pgrpnxt = none

\* The groups gs when p is off the list of its group g, which goes if it is empty.
Without(gs, p) ==
  LET g == proc[p].pgid IN
  IF Emptied(p) THEN [gs EXCEPT ![g] = NoGroup]
  ELSE IF gs[g].mem = p THEN [gs EXCEPT ![g].mem = proc[p].pgrpnxt]
  ELSE gs

\* The sessions ss when a group of session s is gone.
Dropped(ss, s) == IF ss[s].count = 1 THEN [ss EXCEPT ![s] = NoSession]
                  ELSE [ss EXCEPT ![s].count = @ - 1]

-----------------------------------------------------------------------------
(* enterpgrp(): p moves to group g, and with mksess to a new session       *)

enterpgrp(p, g, mksess) ==
  LET new == ~Exists(g)
      s == IF mksess THEN CHOOSE x \in Session : session[x] = NoSession ELSE SessionOf(p)
      made == IF new THEN [pgrp EXCEPT ![g] = [NoGroup EXCEPT !.session = s]] ELSE pgrp
      sess == [h \in Pid |-> made[h].session]
      count == fixjobc(fixjobc(jobcs, sess, p, g, 1), sess, p, proc[p].pgid, -1)
      counted == [h \in Pid |-> [made[h] EXCEPT !.jobc = count[h]]]
      left == Without(counted, p)
      begun == IF mksess THEN [session EXCEPT ![s] = [leader |-> p, count |-> 1]]
               ELSE IF new THEN [session EXCEPT ![s].count = @ + 1] ELSE session
  IN /\ g # proc[p].pgid
     /\ proc' = [Unlinked(p) EXCEPT ![p].pgid = g, ![p].pgrpnxt = left[g].mem]
     /\ pgrp' = [left EXCEPT ![g].mem = p]
     /\ session' = IF Emptied(p) THEN Dropped(begun, SessionOf(p)) ELSE begun

setsid(p) ==
  /\ Running(p) /\ p # init
  /\ proc[p].pgid # proc[p].pid /\ ~Exists(proc[p].pid)
  /\ enterpgrp(p, proc[p].pid, TRUE)
  /\ UNCHANGED <<nextpid, pidchecked, nprocs>>

\* Whether t is p or one of its descendants.
inferior(p, t) ==
  LET up[k \in 0 .. Cardinality(Proc)] ==
        IF k = 0 THEN t ELSE LET q == up[k - 1] IN IF q = none THEN none ELSE proc[q].pptr
  IN \E k \in 0 .. Cardinality(Proc) : up[k] = p

\* Whom p may move, and where to.
Targets(p) ==
  {t \in Proc : /\ t = p \/ /\ proc[t].stat = "SRUN" /\ "SEXEC" \notin proc[t].flag
                            /\ SessionOf(t) = SessionOf(p) /\ inferior(p, t)
                /\ ~SESS_LEADER(t)}

setpgid(p) ==
  /\ Running(p) /\ p # init
  /\ \E t \in Targets(p) : \E g \in {proc[t].pid} \cup {h \in Pid : pgrp[h].session = SessionOf(p)} :
       enterpgrp(t, g, FALSE)
  /\ UNCHANGED <<nextpid, pidchecked, nprocs>>

-----------------------------------------------------------------------------
(* fork1(): the next pid.  A state of the search is nextpid and pidchecked *)
(* and whether to go on.                                                   *)

\* One process of a scan.
Looked(st, r) ==
  LET n == IF r.pid = st.next \/ r.pgid = st.next THEN st.next + 1 ELSE st.next
      above == {x \in {r.pid, r.pgid} : n < x /\ x < st.checked}
  IN IF st.retry THEN st
     ELSE IF n # st.next /\ n >= st.checked THEN [st EXCEPT !.next = n, !.retry = TRUE]
     ELSE [st EXCEPT !.next = n, !.checked = IF above = {} THEN @ ELSE CHOOSE x \in above : \A y \in above : x <= y]

\* The zombies are not scanned.
Scanned_active == {p \in Proc : proc[p].stat \in {"SIDL", "SRUN"}}
\* The processes that are scanned: those of allproc, then those of zombproc.
Scanned == {p \in Proc : proc[p].stat \in {"SIDL", "SRUN"}} \cup {p \in Proc : proc[p].stat = "SZOMB"}

Orders == {o \in SetToSeqs(Scanned) : \A k, l \in DOMAIN o :
             k < l => ~(proc[o[k]].stat = "SZOMB" /\ proc[o[l]].stat # "SZOMB")}

Wrapped(n, c) == IF n >= PID_MAX THEN [next |-> FirstPid, checked |-> 0] ELSE [next |-> n, checked |-> c]

\* One scan in the order o, to find a run of pids from n on.
Scan(o, n) ==
  LET scan[i \in 0 .. Len(o)] ==
        IF i = 0 THEN [next |-> n, checked |-> PID_MAX, retry |-> FALSE]
        ELSE Looked(scan[i - 1], proc[o[i]])
  IN scan[Len(o)]

\* From "retry" on.
Tried(o, st) ==
  LET w == Wrapped(st.next, st.checked)
  IN IF ~st.retry THEN st
     ELSE IF w.next < w.checked THEN [next |-> w.next, checked |-> w.checked, retry |-> FALSE]
     ELSE Scan(o, w.next)

\* A search that cannot take nextpid at once, with the lists in order o.
Search(o) ==
  LET try[k \in 0 .. 2 * PID_MAX] ==
        IF k = 0 THEN [next |-> nextpid + 1, checked |-> pidchecked, retry |-> TRUE] ELSE Tried(o, try[k - 1])
  IN try[2 * PID_MAX]

NextPids ==
  IF nextpid + 1 < pidchecked THEN {[next |-> nextpid + 1, checked |-> pidchecked, retry |-> FALSE]}
  ELSE {Search(o) : o \in Orders}

\* p takes a pid and asks for memory.  Nobody waits for memory while the pids come
\* round to his.
fork_pid(p) ==
  /\ proc[p].stat = "SRUN" /\ proc[p].at \in {"user", "redo"} /\ p # init
  /\ IF nprocs >= maxproc
     THEN /\ proc[p].at = "redo" /\ proc' = [proc EXCEPT ![p].at = "user"]       \* EAGAIN
          /\ UNCHANGED <<nextpid, pidchecked>>
     ELSE \E st \in NextPids :
          /\ st.next # LastPid
          /\ nextpid' = st.next /\ pidchecked' = st.checked
          /\ \A q \in Proc : proc[q].at = "malloc" => proc[q].arg # st.next
          /\ proc' = [proc EXCEPT ![p].at = "malloc", ![p].arg = st.next]
  /\ UNCHANGED <<pgrp, session, nprocs>>

-----------------------------------------------------------------------------
(* fork1(): the new process                                                *)

\* c becomes the child of p, behind p in its group.
Linked(pr, p, c) ==
  [pr EXCEPT ![p].pgrpnxt = c, ![p].at = "copy", ![p].child = c, ![c].pptr = p]

fork_create(p) ==
  /\ proc[p].at = "malloc"
  /\ \/ /\ proc[p].arg # nextpid
        /\ proc' = [proc EXCEPT ![p].at = "redo", ![p].arg = 0]
        /\ UNCHANGED nprocs
     \/ /\ proc[p].arg = nextpid
        /\ \E x \in Proc : proc[x].stat = "free"
        /\ LET c == CHOOSE x \in Proc : proc[x].stat = "free"
               made == [proc EXCEPT ![c] = [Free EXCEPT !.stat = "SIDL", !.pid = nextpid,
                                                        !.pgid = proc[p].pgid,
                                                        !.pgrpnxt = proc[p].pgrpnxt],
                                    ![p].arg = 0]
           IN proc' = Linked(made, p, c)
        /\ nprocs' = nprocs + 1
  /\ UNCHANGED <<pgrp, session, nextpid, pidchecked>>

\* Files, limits, statistics and address space are copied: the child can run.
fork_done(p, isvfork) ==
  /\ proc[p].at = "copy"
  /\ proc' = [proc EXCEPT ![proc[p].child].stat = "SRUN",
                          ![proc[p].child].flag = IF isvfork THEN {"SPPWAIT"} ELSE {},
                          ![p].at = IF isvfork THEN "ppwait" ELSE "user",
                          ![p].child = IF isvfork THEN @ ELSE none]
  /\ UNCHANGED <<pgrp, session, nextpid, pidchecked, nprocs>>

vfork_wait(p) ==
  /\ proc[p].at = "ppwoken"
  /\ proc' = [proc EXCEPT ![p] = IF "SPPWAIT" \in proc[@.child].flag
                                 THEN [@ EXCEPT !.at = "ppwait"]
                                 ELSE [@ EXCEPT !.at = "user", !.child = none]]
  /\ UNCHANGED <<pgrp, session, nextpid, pidchecked, nprocs>>

execve(p) ==
  /\ Running(p) /\ p # init
  /\ proc' = [q \in Proc |->
       CASE q = p -> [proc[p] EXCEPT !.flag = (@ \cup {"SEXEC"}) \ {"SPPWAIT"}]
         [] q = proc[p].pptr /\ "SPPWAIT" \in proc[p].flag -> Resumed(proc[q])
         [] OTHER -> proc[q]]
  /\ UNCHANGED <<pgrp, session, nextpid, pidchecked, nprocs>>

-----------------------------------------------------------------------------
(* exit()                                                                  *)

\* init is not told of the zombies it inherits.
InitWoken_not(p) == FALSE
InitWoken(p) == "SZCHILD" \in proc[p].flag /\ Children(p) # {}

\* Nobody reads the flags of a zombie but SPPWAIT, which is off.
exit(p) ==
  /\ Running(p) /\ p # init
  /\ LET left == fixjobc(jobcs, sessions, p, proc[p].pgid, -1)
     IN pgrp' = [g \in Pid |-> [pgrp[g] EXCEPT !.jobc = left[g]]]
  /\ session' = IF SESS_LEADER(p) THEN [session EXCEPT ![SessionOf(p)].leader = none] ELSE session
  /\ proc' = [q \in Proc |->
       CASE q = p -> [proc[p] EXCEPT !.stat = "SZOMB", !.flag = {}]
         [] q \in Children(p) -> [proc[q] EXCEPT !.pptr = init]
         [] q = proc[p].pptr -> [Resumed(proc[q]) EXCEPT !.flag = @ \cup {"SZCHILD"}]
         [] q = init /\ q # proc[p].pptr /\ InitWoken(p) -> Resumed(proc[q])
         [] OTHER -> proc[q]]
  /\ UNCHANGED <<nextpid, pidchecked, nprocs>>

-----------------------------------------------------------------------------
(* wait4()                                                                 *)

Matches(c, pid) == pid = WAIT_ANY \/ proc[c].pid = pid \/ proc[c].pgid = -pid
Found(q, pid) == {c \in Children(q) : Matches(c, pid)}
Zombies(q, pid) == {c \in Found(q, pid) : proc[c].stat = "SZOMB"}

\* q looks for children, as it enters or after a sleep.
Looks(q, pid) == proc[q].stat = "SRUN" /\ (proc[q].at = "user" \/ (proc[q].at = "wait4" /\ proc[q].arg = pid))

wait4_reap(q, pid) ==
  /\ Looks(q, pid)
  /\ \E p \in Zombies(q, pid) :
       /\ proc' = [Unlinked(p) EXCEPT ![p] = Free, ![q].at = "user", ![q].arg = 0]
       /\ pgrp' = Without(pgrp, p)
       /\ session' = IF Emptied(p) THEN Dropped(session, SessionOf(p)) ELSE session
  /\ nprocs' = nprocs - 1
  /\ UNCHANGED <<nextpid, pidchecked>>

\* Nothing to wait for (ECHILD), after a sleep.
wait4_none(q) ==
  /\ proc[q].at = "wait4" /\ Found(q, proc[q].arg) = {}
  /\ proc' = [proc EXCEPT ![q].at = "user", ![q].arg = 0]
  /\ UNCHANGED <<pgrp, session, nextpid, pidchecked, nprocs>>

wait4_sleep(q, pid) ==
  /\ Looks(q, pid)
  /\ Found(q, pid) # {} /\ Zombies(q, pid) = {}
  /\ proc' = [proc EXCEPT ![q].at = "wait", ![q].arg = pid]
  /\ UNCHANGED <<pgrp, session, nextpid, pidchecked, nprocs>>

\* A signal ends the sleep.
wait4_signal(q) ==
  /\ proc[q].at = "wait"
  /\ proc' = [proc EXCEPT ![q].at = "user", ![q].arg = 0]
  /\ UNCHANGED <<pgrp, session, nextpid, pidchecked, nprocs>>

-----------------------------------------------------------------------------
\* What q may wait for; init waits for anybody.
Waits(q) ==
  {WAIT_ANY} \cup IF q = init THEN {}
                  ELSE UNION {(IF "pid" \in WaitFor THEN {proc[c].pid} ELSE {})
                              \cup (IF "pgrp" \in WaitFor THEN {-proc[c].pgid} ELSE {}) : c \in Children(q)}

Next == \E p \in Proc :
  \/ setsid(p) \/ setpgid(p)
  \/ fork_pid(p) \/ fork_create(p) \/ (\E isvfork \in BOOLEAN : fork_done(p, isvfork))
  \/ vfork_wait(p) \/ execve(p) \/ exit(p)
  \/ \E pid \in Waits(p) \cup {proc[p].arg} : wait4_reap(p, pid) \/ wait4_sleep(p, pid)
  \/ wait4_none(p) \/ wait4_signal(p)

Fairness ==
  /\ WF_vars(wait4_reap(init, WAIT_ANY)) /\ WF_vars(wait4_sleep(init, WAIT_ANY)) /\ WF_vars(wait4_none(init))

Spec == Init /\ [][Next]_vars /\ Fairness

-----------------------------------------------------------------------------
\* Every member of a group is on its list, once, and nobody else (or leavepgrp()
\* panics); a group exists as long as it has members, and a session as long as it
\* has groups.
GroupsAndSessions ==
  /\ TypeOK
  /\ \A g \in Pid :
       /\ Range(Members(g)) = {p \in Proc : proc[p].stat # "free" /\ proc[p].pgid = g}
       /\ Len(Members(g)) = Cardinality(Range(Members(g)))
       /\ Exists(g) <=> Members(g) # <<>>
  /\ \A s \in Session : session[s].count = Cardinality({g \in Pid : pgrp[g].session = s})

\* pg_jobc is "the number of processes in each process group that qualify the group
\* for terminal job control (those with a parent in a different process group of the
\* same session)": forks, moves, exits and orphans in any order keep it exact.
JobcExact ==
  \A g \in Pid : Exists(g) => pgrp[g].jobc =
    Cardinality({p \in Proc : /\ proc[p].stat \notin {"free", "SZOMB"} /\ proc[p].pgid = g
                              /\ proc[p].pptr # none
                              /\ proc[proc[p].pptr].pgid # g
                              /\ SessionOf(proc[p].pptr) = pgrp[g].session})

\* "A run of pids from nextpid+1 through pidchecked-1 are unused", by processes and
\* by groups, until it is used up, whoever is born, moves or dies meanwhile.
RunUnused ==
  \A p \in Proc : proc[p].stat # "free" =>
    {proc[p].pid, proc[p].pgid} \cap nextpid + 1 .. pidchecked - 1 = {}

\* "Assign an unused process ID": no two processes have one pid, dead or alive.
\* fork1() breaks this.  Its scan looks at each process once: one whose group has
\* the number under test and whose pid is the next moves nextpid onto its own pid.
PidsUnique ==
  \A p, q \in Proc : p # q /\ proc[p].stat # "free" /\ proc[q].stat # "free" => proc[p].pid # proc[q].pid

\* Whoever sleeps in wait4() or in vfork() will be woken: there is no zombie to be
\* reaped, and the child of vfork() has the address space.
WaitersCovered ==
  \A p \in Proc :
    /\ proc[p].at = "wait" => Zombies(p, proc[p].arg) = {}
    /\ proc[p].at = "ppwait" => "SPPWAIT" \in proc[proc[p].child].flag

\* What init inherits or started is reaped when it is dead.
OrphansReaped ==
  \A p \in Proc \ {init} : proc[p].stat = "SZOMB" /\ proc[p].pptr = init ~> proc[p].stat = "free"

\* A new process does not have the number of a group ("Assign an unused process ID").
PidIsNoGroup ==
  \A p \in Proc : proc[p].stat = "SIDL" => proc[p].pgid # proc[p].pid /\ ~Exists(proc[p].pid)
=============================================================================
