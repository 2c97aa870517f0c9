--------------------------- MODULE ProcLifeProofs ---------------------------
(***************************************************************************)
(* Whoever sleeps in wait4() or in vfork() is woken by what it waits for;  *)
(* the lists of the process groups and the counts of sessions and of job   *)
(* control are exact; a run of free pids stays free.  All that for any     *)
(* processes, sessions and ranges of pids.                                 *)
(*                                                                         *)
(* WaitInv adds to WaitersCovered what makes the wakeups reach their       *)
(* sleepers: the parents of a family tree are alive, SZCHILD is on         *)
(* whoever has a zombie to leave to init, and the child that vfork() waits *)
(* for stays the caller's child.                                           *)
(*                                                                         *)
(* GroupInv has, for every group, a list as witness of what Members()      *)
(* follows, and keeps init's group and session to init, so that an orphan  *)
(* never counts.  A process has a Share in the counts of job control: what *)
(* it adds to its own group and to those of its children.                  *)
(***************************************************************************)
EXTENDS ProcLife, FiniteSetTheorems, SequenceTheorems, WellFoundedInduction, TLAPS

\* The fields of an entry, whatever their values.
IsEntry(r) ==
  r = [stat |-> r.stat, pid |-> r.pid, pptr |-> r.pptr, pgid |-> r.pgid, pgrpnxt |-> r.pgrpnxt,
       flag |-> r.flag, at |-> r.at, arg |-> r.arg, child |-> r.child]
Shape == /\ proc = [p \in Proc |-> proc[p]]
         /\ \A p \in Proc : IsEntry(proc[p])

\* Everybody but init has a parent, which is alive and not its child.
Family ==
  /\ proc[init].stat = "SRUN" /\ proc[init].pptr = none
  /\ \A p \in Proc \ {init} : proc[p].stat # "free" =>
       /\ proc[p].pptr \in Proc \ {p}
       /\ proc[proc[p].pptr].stat = "SRUN"
       /\ proc[proc[p].pptr].pptr # p

\* Who has a zombie knows it, or is init.
ZombiesMarked ==
  \A p \in Proc : proc[p].stat = "SZOMB" /\ proc[p].pptr # init => "SZCHILD" \in proc[proc[p].pptr].flag

\* Who is in a system call runs, and the child it forks or waits for is its child.
CallsFit ==
  \A p \in Proc :
    /\ proc[p].at # "user" => proc[p].stat = "SRUN"
    /\ proc[p].at \in {"copy", "ppwait", "ppwoken"} =>
         proc[p].child \in Proc \ {init} /\ proc[proc[p].child].pptr = p
    /\ proc[p].at = "copy" => proc[proc[p].child].stat = "SIDL"
    /\ proc[p].at \in {"ppwait", "ppwoken"} => proc[proc[p].child].stat \in {"SRUN", "SZOMB"}

WaitInv == Shape /\ Family /\ ZombiesMarked /\ CallsFit /\ WaitersCovered
-----------------------------------------------------------------------------
(* What the steps do to the entries.                                       *)

\* Two entries that differ at most in their place in a group's list.
Alike(r, s) ==
  /\ r.stat = s.stat /\ r.pid = s.pid /\ r.pptr = s.pptr /\ r.pgid = s.pgid
  /\ r.flag = s.flag /\ r.at = s.at /\ r.arg = s.arg /\ r.child = s.child

LEMMA UnlinkedIs ==
  ASSUME Shape, NEW p \in Proc
  PROVE  /\ Unlinked(p) = [q \in Proc |-> Unlinked(p)[q]]
         /\ \A q \in Proc : IsEntry(Unlinked(p)[q]) /\ Alike(Unlinked(p)[q], proc[q])
<1> DEFINE u == Unlinked(p)
<1>1. u = [q \in Proc |-> IF q \in Range(Members(proc[p].pgid)) /\ proc[q].pgrpnxt = p
                          THEN [proc[q] EXCEPT !.pgrpnxt = proc[p].pgrpnxt] ELSE proc[q]]
  BY DEF Unlinked
<1>2. ASSUME NEW q \in Proc PROVE IsEntry(u[q]) /\ Alike(u[q], proc[q])
  <2>1. u[q] = proc[q] \/ u[q] = [proc[q] EXCEPT !.pgrpnxt = proc[p].pgrpnxt]
    BY <1>1
  <2> QED
    BY <2>1 DEF Shape, IsEntry, Alike
<1> QED
  BY <1>1, <1>2

\* wakeup() ends a sleep and changes nothing else.
LEMMA ResumedIs ==
  ASSUME NEW r, IsEntry(r)
  PROVE  /\ IsEntry(Resumed(r))
         /\ Resumed(r).stat = r.stat /\ Resumed(r).pid = r.pid /\ Resumed(r).pptr = r.pptr
         /\ Resumed(r).pgid = r.pgid /\ Resumed(r).flag = r.flag
         /\ Resumed(r).arg = r.arg /\ Resumed(r).child = r.child
         /\ Resumed(r).at = IF r.at = "ppwait" THEN "ppwoken"
                            ELSE IF r.at = "wait" THEN "wait4" ELSE r.at
BY DEF Resumed, IsEntry

\* Where a process may go while the families and the flags stay as they are: to a place
\* where it does not wait for a child, or to sleep with nothing to wait for at hand.
MayGo(q) ==
  \/ proc'[q].at = proc[q].at /\ proc'[q].arg = proc[q].arg /\ proc'[q].child = proc[q].child
  \/ proc[q].stat = "SRUN" /\ proc'[q].at \in {"user", "redo", "malloc", "wait4"}
  \/ proc[q].stat = "SRUN" /\ proc'[q].at = "wait" /\ Zombies(q, proc'[q].arg) = {}
  \/ /\ proc[q].at = "ppwoken" /\ proc'[q].at = "ppwait" /\ proc'[q].child = proc[q].child
     /\ "SPPWAIT" \in proc[proc[q].child].flag

\* Nobody's children change when everybody keeps state and parent.
Kept(q) ==
  /\ proc'[q].stat = proc[q].stat /\ proc'[q].pptr = proc[q].pptr /\ proc'[q].flag = proc[q].flag
  /\ proc[q].stat = "SZOMB" => proc'[q].pid = proc[q].pid /\ proc'[q].pgid = proc[q].pgid

LEMMA Moves ==
  ASSUME WaitInv, Shape', \A q \in Proc : Kept(q) /\ MayGo(q) PROVE WaitInv'
<1>1. init \in Proc
  BY ProcAssumption
<1>2. Family'
  BY <1>1 DEF WaitInv, Family, Kept
<1>3. ZombiesMarked'
  <2> SUFFICES ASSUME NEW p \in Proc, proc'[p].stat = "SZOMB", proc'[p].pptr # init
               PROVE  "SZCHILD" \in proc'[proc'[p].pptr].flag
    BY DEF ZombiesMarked
  <2>1. p # init /\ proc[p].pptr \in Proc /\ proc'[p].pptr = proc[p].pptr
    BY DEF WaitInv, Family, Kept
  <2> QED
    BY <2>1 DEF WaitInv, ZombiesMarked, Kept
<1>4. CallsFit'
  <2> SUFFICES ASSUME NEW p \in Proc
               PROVE  /\ proc'[p].at # "user" => proc'[p].stat = "SRUN"
                      /\ proc'[p].at \in {"copy", "ppwait", "ppwoken"} =>
                           proc'[p].child \in Proc \ {init} /\ proc'[proc'[p].child].pptr = p
                      /\ proc'[p].at = "copy" => proc'[proc'[p].child].stat = "SIDL"
                      /\ proc'[p].at \in {"ppwait", "ppwoken"} =>
                           proc'[proc'[p].child].stat \in {"SRUN", "SZOMB"}
    BY DEF CallsFit
  <2> QED
    BY DEF WaitInv, CallsFit, Kept, MayGo
<1>5. ASSUME NEW p \in Proc, NEW pid PROVE Zombies(p, pid)' \subseteq Zombies(p, pid)
  BY DEF Zombies, Found, Children, Matches, Kept
<1>6. WaitersCovered'
  <2> SUFFICES ASSUME NEW p \in Proc
               PROVE  /\ proc'[p].at = "wait" => Zombies(p, proc[p].arg)' = {}
                      /\ proc'[p].at = "ppwait" => "SPPWAIT" \in proc'[proc'[p].child].flag
    BY DEF WaitersCovered
  <2>1. ASSUME proc'[p].at = "wait" PROVE Zombies(p, proc[p].arg)' = {}
    <3>1. PICK pid : pid = proc'[p].arg
      OBVIOUS
    <3>2. Zombies(p, pid) = {}
      BY <2>1, <3>1 DEF MayGo, WaitInv, WaitersCovered
    <3>3. Zombies(p, pid)' = {}
      BY <1>5, <3>2
    <3> QED
      BY <3>1, <3>3 DEF Zombies, Found, Children, Matches
  <2>2. ASSUME proc'[p].at = "ppwait" PROVE "SPPWAIT" \in proc'[proc'[p].child].flag
    <3>1. /\ proc'[p].child = proc[p].child /\ proc[p].at \in {"ppwait", "ppwoken"}
          /\ "SPPWAIT" \in proc[proc[p].child].flag
      BY <2>2 DEF MayGo, WaitInv, WaitersCovered
    <3>2. proc[p].child \in Proc
      BY <3>1 DEF WaitInv, CallsFit
    <3> QED
      BY <3>1, <3>2 DEF Kept
  <2> QED
    BY <2>1, <2>2
<1> QED
  BY <1>2, <1>3, <1>4, <1>6 DEF WaitInv

\* A step that changes only where process p is.
LEMMA OwnMove ==
  ASSUME WaitInv, NEW p \in Proc, NEW r, proc' = [proc EXCEPT ![p] = r],
         IsEntry(r), r.stat = proc[p].stat, r.pid = proc[p].pid, r.pptr = proc[p].pptr,
         r.pgid = proc[p].pgid, r.flag = proc[p].flag,
         MayGo(p)
  PROVE  WaitInv'
<1>1. Shape /\ proc' = [q \in Proc |-> IF q = p THEN r ELSE proc[q]]
  BY DEF WaitInv, Shape
<1>2. Shape'
  BY <1>1 DEF Shape
<1>3. \A q \in Proc : Kept(q)
  BY <1>1 DEF Kept
<1>4. ASSUME NEW q \in Proc PROVE MayGo(q)
  <2>1. CASE q = p
    BY <2>1
  <2>2. CASE q # p
    BY <1>1, <2>2 DEF MayGo
  <2> QED
    BY <2>1, <2>2
<1> QED
  BY <1>2, <1>3, <1>4, Moves
-----------------------------------------------------------------------------
(* Steps that move processes between groups or between places.             *)

LEMMA GroupStep ==
  ASSUME WaitInv, NEW p \in Proc, NEW g, NEW mksess, proc[p].stat = "SRUN",
         enterpgrp(p, g, mksess)
  PROVE  WaitInv'
<1>1. PICK m : proc' = [Unlinked(p) EXCEPT ![p].pgid = g, ![p].pgrpnxt = m]
  BY DEF enterpgrp
<1>2. PICK u : u = Unlinked(p)
  OBVIOUS
<1>3. /\ u = [q \in Proc |-> u[q]]
      /\ \A q \in Proc : IsEntry(u[q]) /\ Alike(u[q], proc[q])
  BY <1>2, UnlinkedIs DEF WaitInv
<1>4. proc' = [q \in Proc |-> IF q = p THEN [u[p] EXCEPT !.pgid = g, !.pgrpnxt = m] ELSE u[q]]
  BY <1>1, <1>2, <1>3
<1>5. ASSUME NEW q \in Proc
      PROVE  /\ IsEntry(proc'[q]) /\ (q # p => Alike(proc'[q], proc[q]))
             /\ proc'[q].stat = proc[q].stat /\ proc'[q].pptr = proc[q].pptr
             /\ proc'[q].flag = proc[q].flag /\ proc'[q].at = proc[q].at
             /\ proc'[q].arg = proc[q].arg /\ proc'[q].child = proc[q].child
  <2>1. CASE q = p
    <3>1. proc'[p] = [u[p] EXCEPT !.pgid = g, !.pgrpnxt = m] /\ IsEntry(u[p]) /\ Alike(u[p], proc[p])
      BY <1>3, <1>4
    <3> QED
      BY <2>1, <3>1 DEF IsEntry, Alike
  <2>2. CASE q # p
    BY <1>3, <1>4, <2>2 DEF Alike
  <2> QED
    BY <2>1, <2>2
<1>6. Shape'
  BY <1>4, <1>5 DEF Shape
<1>7. ASSUME NEW q \in Proc PROVE Kept(q) /\ MayGo(q)
  BY <1>5 DEF Kept, MayGo, Alike
<1> QED
  BY <1>6, <1>7, Moves

LEMMA setsidStep ==
  ASSUME WaitInv, NEW p \in Proc, setsid(p) PROVE WaitInv'
<1>1. proc[p].stat = "SRUN" /\ enterpgrp(p, proc[p].pid, TRUE)
  BY DEF setsid, Running
<1>2. PICK g : g = proc[p].pid
  OBVIOUS
<1>3. enterpgrp(p, g, TRUE)
  BY <1>1, <1>2
<1> QED
  BY <1>1, <1>3, GroupStep

LEMMA setpgidStep ==
  ASSUME WaitInv, NEW p \in Proc, setpgid(p) PROVE WaitInv'
<1>1. PICK t \in Targets(p) : \E g : enterpgrp(t, g, FALSE)
  BY DEF setpgid
<1>2. t \in Proc /\ proc[t].stat = "SRUN"
  BY <1>1 DEF Targets, setpgid, Running
<1> QED
  BY <1>1, <1>2, GroupStep

\* The steps that change where one process is, and what it is about.
LEMMA Goes ==
  ASSUME WaitInv, NEW p \in Proc, proc[p].stat = "SRUN", NEW at, NEW arg,
         proc' = [proc EXCEPT ![p].at = at, ![p].arg = arg],
         at \in {"user", "redo", "malloc"} \/ (at = "wait" /\ Zombies(p, arg) = {})
  PROVE  WaitInv'
<1>1. Shape
  BY DEF WaitInv
<1>2. PICK r : r = [proc[p] EXCEPT !.at = at, !.arg = arg]
  OBVIOUS
<1>3. /\ IsEntry(r) /\ r.stat = proc[p].stat /\ r.pid = proc[p].pid /\ r.pptr = proc[p].pptr
      /\ r.pgid = proc[p].pgid /\ r.flag = proc[p].flag /\ r.at = at /\ r.arg = arg
  <2>1. IsEntry(proc[p])
    BY <1>1 DEF Shape
  <2> QED
    BY <1>2, <2>1 DEF IsEntry
<1>4. proc' = [proc EXCEPT ![p] = r]
  BY <1>1, <1>2 DEF Shape
<1>5. proc'[p] = r
  BY <1>1, <1>4 DEF Shape
<1>6. MayGo(p)
  BY <1>3, <1>5 DEF MayGo
<1> QED
  BY <1>3, <1>4, <1>6, OwnMove

LEMMA fork_pidStep ==
  ASSUME WaitInv, NEW p \in Proc, fork_pid(p) PROVE WaitInv'
<1>1. proc[p].stat = "SRUN"
  BY DEF fork_pid
<1>2. CASE nprocs >= maxproc
  <2>1. proc' = [proc EXCEPT ![p].at = "user"]
    BY <1>2 DEF fork_pid
  <2>2. PICK arg : arg = proc[p].arg
    OBVIOUS
  <2>3. proc' = [proc EXCEPT ![p].at = "user", ![p].arg = arg]
    BY <2>1, <2>2 DEF WaitInv, Shape, IsEntry
  <2> QED
    BY <1>1, <2>3, Goes
<1>3. CASE ~(nprocs >= maxproc)
  <2>1. PICK n : proc' = [proc EXCEPT ![p].at = "malloc", ![p].arg = n]
    BY <1>3 DEF fork_pid
  <2> QED
    BY <1>1, <2>1, Goes
<1> QED
  BY <1>2, <1>3

LEMMA wait4Step ==
  ASSUME WaitInv, NEW q \in Proc, NEW pid, wait4_none(q) \/ wait4_sleep(q, pid) \/ wait4_signal(q)
  PROVE  WaitInv'
<1>1. CASE wait4_none(q) \/ wait4_signal(q)
  <2>1. proc[q].stat = "SRUN" /\ proc' = [proc EXCEPT ![q].at = "user", ![q].arg = 0]
    BY <1>1 DEF wait4_none, wait4_signal, WaitInv, CallsFit
  <2> QED
    BY <2>1, Goes
<1>2. CASE wait4_sleep(q, pid)
  BY <1>2, Goes DEF wait4_sleep, Looks
<1> QED
  BY <1>1, <1>2

LEMMA vfork_waitStep ==
  ASSUME WaitInv, NEW p \in Proc, vfork_wait(p) PROVE WaitInv'
<1>1. Shape /\ proc[p].at = "ppwoken" /\ proc[p].stat = "SRUN"
  BY DEF vfork_wait, WaitInv, CallsFit
<1>2. PICK r : r = IF "SPPWAIT" \in proc[proc[p].child].flag
                   THEN [proc[p] EXCEPT !.at = "ppwait"]
                   ELSE [proc[p] EXCEPT !.at = "user", !.child = none]
  OBVIOUS
<1>3. proc' = [proc EXCEPT ![p] = r]
  BY <1>2 DEF vfork_wait
<1>4. proc'[p] = r
  BY <1>1, <1>3 DEF Shape
<1>5. /\ IsEntry(r) /\ r.stat = proc[p].stat /\ r.pid = proc[p].pid /\ r.pptr = proc[p].pptr
      /\ r.pgid = proc[p].pgid /\ r.flag = proc[p].flag
      /\ \/ r.at = "user"
         \/ r.at = "ppwait" /\ r.child = proc[p].child /\ "SPPWAIT" \in proc[proc[p].child].flag
  <2>1. IsEntry(proc[p])
    BY <1>1 DEF Shape
  <2>2. CASE "SPPWAIT" \in proc[proc[p].child].flag
    <3>1. r = [proc[p] EXCEPT !.at = "ppwait"]
      BY <1>2, <2>2
    <3> QED
      BY <2>1, <2>2, <3>1 DEF IsEntry
  <2>3. CASE ~("SPPWAIT" \in proc[proc[p].child].flag)
    <3>1. r = [proc[p] EXCEPT !.at = "user", !.child = none]
      BY <1>2, <2>3
    <3> QED
      BY <2>1, <3>1 DEF IsEntry
  <2> QED
    BY <2>2, <2>3
<1>6. MayGo(p)
  BY <1>1, <1>4, <1>5 DEF MayGo
<1> QED
  BY <1>3, <1>5, <1>6, OwnMove
-----------------------------------------------------------------------------
(* Birth: fork1()                                                          *)

\* The new process c is nobody's parent and its parent goes on with it.
LEMMA ForkedChild ==
  ASSUME WaitInv, NEW p \in Proc, NEW c \in Proc, proc[p].at = "malloc", proc[c].stat = "free",
         Shape',
         /\ proc'[c].stat = "SIDL" /\ proc'[c].pptr = p /\ proc'[c].at = "user",
         /\ proc'[p].stat = proc[p].stat /\ proc'[p].pid = proc[p].pid
         /\ proc'[p].pptr = proc[p].pptr /\ proc'[p].pgid = proc[p].pgid
         /\ proc'[p].flag = proc[p].flag /\ proc'[p].at = "copy" /\ proc'[p].child = c,
         \A q \in Proc \ {p, c} : proc'[q] = proc[q]
  PROVE  WaitInv'
<1>1. /\ init \in Proc /\ none \notin Proc /\ c # init /\ proc[p].stat = "SRUN" /\ c # p
      /\ Family /\ ZombiesMarked /\ CallsFit /\ WaitersCovered
  BY ProcAssumption DEF WaitInv, Family, CallsFit
<1>2. \A q \in Proc : proc[q].stat # "free" => proc[q].pptr # c
  BY <1>1 DEF Family
<1>3. \A q \in Proc \ {c} : /\ proc'[q].stat = proc[q].stat /\ proc'[q].pptr = proc[q].pptr
                            /\ proc'[q].flag = proc[q].flag /\ proc'[q].pid = proc[q].pid
                            /\ proc'[q].pgid = proc[q].pgid
  OBVIOUS
<1>4. Family'
  <2>1. proc'[init].stat = "SRUN" /\ proc'[init].pptr = none
    BY <1>1, <1>3 DEF Family
  <2>2. ASSUME NEW q \in Proc \ {init}, proc'[q].stat # "free"
        PROVE  /\ proc'[q].pptr \in Proc \ {q} /\ proc'[proc'[q].pptr].stat = "SRUN"
               /\ proc'[proc'[q].pptr].pptr # q
    <3>1. CASE q = c
      <4>1. proc[p].pptr # c
        BY <1>1, <1>2
      <4> QED
        BY <1>1, <1>3, <3>1, <4>1
    <3>2. CASE q # c
      <4>1. /\ proc[q].stat # "free" /\ proc'[q].pptr = proc[q].pptr /\ proc[q].pptr # c
            /\ proc[q].pptr \in Proc \ {q} /\ proc[proc[q].pptr].stat = "SRUN"
            /\ proc[proc[q].pptr].pptr # q
        BY <1>1, <1>2, <1>3, <2>2, <3>2 DEF Family
      <4> QED
        BY <1>3, <4>1
    <3> QED
      BY <3>1, <3>2
  <2> QED
    BY <2>1, <2>2 DEF Family
<1>5. ZombiesMarked'
  <2> SUFFICES ASSUME NEW q \in Proc, proc'[q].stat = "SZOMB", proc'[q].pptr # init
               PROVE  "SZCHILD" \in proc'[proc'[q].pptr].flag
    BY DEF ZombiesMarked
  <2>1. q # c
    OBVIOUS
  <2>2. /\ proc[q].stat = "SZOMB" /\ proc'[q].pptr = proc[q].pptr /\ q # init
    BY <1>1, <1>3, <2>1 DEF Family
  <2>3. proc[q].pptr \in Proc \ {c}
    BY <1>1, <1>2, <2>2 DEF Family
  <2> QED
    BY <1>1, <1>3, <2>2, <2>3 DEF ZombiesMarked
<1>6. CallsFit'
  <2> SUFFICES ASSUME NEW q \in Proc
               PROVE  /\ proc'[q].at # "user" => proc'[q].stat = "SRUN"
                      /\ proc'[q].at \in {"copy", "ppwait", "ppwoken"} =>
                           proc'[q].child \in Proc \ {init} /\ proc'[proc'[q].child].pptr = q
                      /\ proc'[q].at = "copy" => proc'[proc'[q].child].stat = "SIDL"
                      /\ proc'[q].at \in {"ppwait", "ppwoken"} =>
                           proc'[proc'[q].child].stat \in {"SRUN", "SZOMB"}
    BY DEF CallsFit
  <2>1. CASE q \in {p, c}
    BY <1>1, <2>1
  <2>2. CASE q \notin {p, c}
    <3>1. proc'[q] = proc[q]
      BY <2>2
    <3>2. proc[q].at \in {"copy", "ppwait", "ppwoken"} => proc[q].child \in Proc \ {c}
      BY <1>1 DEF CallsFit
    <3> QED
      BY <1>1, <1>3, <3>1, <3>2 DEF CallsFit
  <2> QED
    BY <2>1, <2>2
<1>7. ASSUME NEW q \in Proc, NEW pid PROVE Zombies(q, pid)' \subseteq Zombies(q, pid)
  BY <1>3 DEF Zombies, Found, Children, Matches
<1>8. WaitersCovered'
  <2> SUFFICES ASSUME NEW q \in Proc
               PROVE  /\ proc'[q].at = "wait" => Zombies(q, proc[q].arg)' = {}
                      /\ proc'[q].at = "ppwait" => "SPPWAIT" \in proc'[proc'[q].child].flag
    BY DEF WaitersCovered
  <2>1. CASE q \in {p, c}
    BY <2>1
  <2>2. CASE q \notin {p, c}
    <3>1. proc'[q] = proc[q]
      BY <2>2
    <3>2. proc[q].at = "ppwait" => proc[q].child \in Proc \ {c}
      BY <1>1 DEF CallsFit
    <3>3. ASSUME proc[q].at = "wait" PROVE Zombies(q, proc[q].arg)' = {}
      <4>1. PICK pid : pid = proc[q].arg
        OBVIOUS
      <4>2. Zombies(q, pid)' = {}
        BY <1>1, <1>7, <3>3, <4>1 DEF WaitersCovered
      <4> QED
        BY <3>1, <4>1, <4>2 DEF Zombies, Found, Children, Matches
    <3> QED
      BY <1>1, <1>3, <3>1, <3>2, <3>3 DEF WaitersCovered
  <2> QED
    BY <2>1, <2>2
<1> QED
  BY <1>4, <1>5, <1>6, <1>8 DEF WaitInv

LEMMA fork_createStep ==
  ASSUME WaitInv, NEW p \in Proc, fork_create(p) PROVE WaitInv'
<1>1. Shape /\ proc[p].at = "malloc" /\ proc[p].stat = "SRUN"
  BY DEF fork_create, WaitInv, CallsFit
<1>2. CASE proc[p].arg # nextpid
  BY <1>1, <1>2, Goes DEF fork_create
<1>3. CASE proc[p].arg = nextpid
  <2>1. PICK c : c = CHOOSE x \in Proc : proc[x].stat = "free"
    OBVIOUS
  <2>2. c \in Proc /\ proc[c].stat = "free" /\ c # p
    BY <1>1, <1>3, <2>1 DEF fork_create
  <2>3. PICK new : new = [Free EXCEPT !.stat = "SIDL", !.pid = nextpid, !.pgid = proc[p].pgid,
                                      !.pgrpnxt = proc[p].pgrpnxt]
    OBVIOUS
  <2>4. PICK made : made = [proc EXCEPT ![c] = new, ![p].arg = 0]
    OBVIOUS
  <2>5. proc' = [made EXCEPT ![p].pgrpnxt = c, ![p].at = "copy", ![p].child = c, ![c].pptr = p]
    BY <1>3, <2>1, <2>3, <2>4 DEF fork_create, Linked
  <2>6. IsEntry(new) /\ new.stat = "SIDL" /\ new.at = "user"
    BY <2>3 DEF IsEntry, Free
  <2>7. made = [q \in Proc |-> IF q = p THEN [proc[p] EXCEPT !.arg = 0]
                               ELSE IF q = c THEN new ELSE proc[q]]
    BY <1>1, <2>2, <2>4 DEF Shape
  <2>8. /\ made[c] = new /\ made[p] = [proc[p] EXCEPT !.arg = 0]
        /\ \A q \in Proc \ {p, c} : made[q] = proc[q]
    BY <2>2, <2>7
  <2>9. proc' = [q \in Proc |-> IF q = p THEN [made[p] EXCEPT !.pgrpnxt = c, !.at = "copy", !.child = c]
                                ELSE IF q = c THEN [made[c] EXCEPT !.pptr = p] ELSE made[q]]
    <3>1. PICK a : a = [made EXCEPT ![p].pgrpnxt = c, ![p].at = "copy"]
      OBVIOUS
    <3>2. a = [q \in Proc |-> IF q = p THEN [made[p] EXCEPT !.pgrpnxt = c, !.at = "copy"] ELSE made[q]]
      BY <2>7, <3>1
    <3>3. PICK b : b = [a EXCEPT ![p].child = c]
      OBVIOUS
    <3>4. b = [q \in Proc |-> IF q = p THEN [a[p] EXCEPT !.child = c] ELSE a[q]]
      BY <3>2, <3>3
    <3>5. a[p] = [made[p] EXCEPT !.pgrpnxt = c, !.at = "copy"] /\ \A q \in Proc \ {p} : a[q] = made[q]
      BY <3>2
    <3>6. /\ b[p] = [made[p] EXCEPT !.pgrpnxt = c, !.at = "copy", !.child = c]
          /\ \A q \in Proc \ {p} : b[q] = made[q]
      BY <3>4, <3>5
    <3>7. proc' = [b EXCEPT ![c].pptr = p]
      BY <2>5, <3>1, <3>3
    <3>8. proc' = [q \in Proc |-> IF q = c THEN [b[c] EXCEPT !.pptr = p] ELSE b[q]]
      BY <3>4, <3>7
    <3> QED
      BY <2>2, <3>6, <3>8
  <2>10. IsEntry(proc[p])
    BY <1>1 DEF Shape
  <2>11. /\ IsEntry(made[p]) /\ made[p].stat = proc[p].stat /\ made[p].pid = proc[p].pid
         /\ made[p].pptr = proc[p].pptr /\ made[p].pgid = proc[p].pgid /\ made[p].flag = proc[p].flag
    BY <2>8, <2>10 DEF IsEntry
  <2>12. /\ IsEntry(proc'[p])
         /\ proc'[p].stat = proc[p].stat /\ proc'[p].pid = proc[p].pid
         /\ proc'[p].pptr = proc[p].pptr /\ proc'[p].pgid = proc[p].pgid
         /\ proc'[p].flag = proc[p].flag /\ proc'[p].at = "copy" /\ proc'[p].child = c
    <3>1. proc'[p] = [made[p] EXCEPT !.pgrpnxt = c, !.at = "copy", !.child = c]
      BY <2>9
    <3> QED
      BY <2>11, <3>1 DEF IsEntry
  <2>13. IsEntry(proc'[c]) /\ proc'[c].stat = "SIDL" /\ proc'[c].pptr = p /\ proc'[c].at = "user"
    <3>1. proc'[c] = [new EXCEPT !.pptr = p]
      BY <2>2, <2>8, <2>9
    <3> QED
      BY <2>6, <3>1 DEF IsEntry
  <2>14. \A q \in Proc \ {p, c} : proc'[q] = proc[q]
    BY <2>8, <2>9
  <2>15. Shape'
    BY <1>1, <2>9, <2>12, <2>13, <2>14 DEF Shape
  <2> QED
    BY <1>1, <2>2, <2>12, <2>13, <2>14, <2>15, ForkedChild
<1> QED
  BY <1>2, <1>3
\* The child can run, and its parent goes on or, after vfork(), waits for it.
LEMMA fork_doneStep ==
  ASSUME WaitInv, NEW p \in Proc, NEW isvfork \in BOOLEAN, fork_done(p, isvfork) PROVE WaitInv'
<1>1. PICK c : c = proc[p].child
  OBVIOUS
<1>2. /\ Shape /\ Family /\ ZombiesMarked /\ CallsFit /\ WaitersCovered
      /\ proc[p].at = "copy" /\ proc[p].stat = "SRUN" /\ c \in Proc \ {init} /\ proc[c].pptr = p
      /\ proc[c].stat = "SIDL" /\ proc[c].at = "user" /\ c # p /\ init \in Proc
  BY ZenonT(30), <1>1, ProcAssumption DEF fork_done, WaitInv, CallsFit
<1>3. PICK fl : fl = IF isvfork THEN {"SPPWAIT"} ELSE {}
  OBVIOUS
<1>4. PICK at : at = IF isvfork THEN "ppwait" ELSE "user"
  OBVIOUS
<1>5. PICK ch : ch = IF isvfork THEN proc[p].child ELSE none
  OBVIOUS
<1>6. proc' = [proc EXCEPT ![c].stat = "SRUN", ![c].flag = fl, ![p].at = at, ![p].child = ch]
  <2>1. proc' = [proc EXCEPT ![c].stat = "SRUN", ![c].flag = fl, ![p].at = at,
                             ![p].child = IF isvfork THEN @ ELSE none]
    BY <1>1, <1>3, <1>4 DEF fork_done
  <2>2. PICK a : a = [proc EXCEPT ![c].stat = "SRUN", ![c].flag = fl]
    OBVIOUS
  <2>3. a = [q \in Proc |-> IF q = c THEN [proc[c] EXCEPT !.stat = "SRUN", !.flag = fl] ELSE proc[q]]
    BY <1>2, <2>2 DEF Shape
  <2>4. PICK b : b = [a EXCEPT ![p].at = at]
    OBVIOUS
  <2>5. b = [q \in Proc |-> IF q = p THEN [a[p] EXCEPT !.at = at] ELSE a[q]]
    BY <2>3, <2>4
  <2>6. b[p] = [proc[p] EXCEPT !.at = at]
    BY <1>2, <2>3, <2>5
  <2>7. b[p].child = proc[p].child
    BY <1>2, <2>6 DEF Shape, IsEntry
  <2>8. proc' = [b EXCEPT ![p].child = IF isvfork THEN @ ELSE none]
    BY <2>1, <2>2, <2>4
  <2>9. proc' = [b EXCEPT ![p].child = ch]
    BY <1>5, <2>7, <2>8
  <2> QED
    BY <2>2, <2>4, <2>9
<1>7. PICK a : a = [proc EXCEPT ![c].stat = "SRUN", ![c].flag = fl]
  OBVIOUS
<1>8. a = [q \in Proc |-> IF q = c THEN [proc[c] EXCEPT !.stat = "SRUN", !.flag = fl] ELSE proc[q]]
  BY <1>2, <1>7 DEF Shape
<1>9. proc' = [a EXCEPT ![p].at = at, ![p].child = ch]
  BY <1>6, <1>7
<1>10. proc' = [q \in Proc |-> IF q = p THEN [a[p] EXCEPT !.at = at, !.child = ch] ELSE a[q]]
  BY <1>8, <1>9
<1>11. /\ proc'[p] = [proc[p] EXCEPT !.at = at, !.child = ch]
       /\ proc'[c] = [proc[c] EXCEPT !.stat = "SRUN", !.flag = fl]
       /\ \A q \in Proc \ {p, c} : proc'[q] = proc[q]
  BY <1>2, <1>8, <1>10
<1>12. IsEntry(proc[p]) /\ IsEntry(proc[c])
  BY <1>2 DEF Shape
<1>13. /\ IsEntry(proc'[p]) /\ proc'[p].stat = proc[p].stat /\ proc'[p].pptr = proc[p].pptr
       /\ proc'[p].flag = proc[p].flag /\ proc'[p].at = at /\ proc'[p].child = ch
       /\ proc'[p].pid = proc[p].pid /\ proc'[p].pgid = proc[p].pgid
  BY <1>11, <1>12 DEF IsEntry
<1>14. /\ IsEntry(proc'[c]) /\ proc'[c].stat = "SRUN" /\ proc'[c].pptr = p
       /\ proc'[c].flag = fl /\ proc'[c].at = "user"
  BY <1>2, <1>11, <1>12 DEF IsEntry
<1>15. Shape'
  BY <1>2, <1>10, <1>11, <1>13, <1>14 DEF Shape
<1>16. \A q \in Proc \ {c} : /\ proc'[q].stat = proc[q].stat /\ proc'[q].pptr = proc[q].pptr
                             /\ proc'[q].flag = proc[q].flag
                             /\ proc'[q].pid = proc[q].pid /\ proc'[q].pgid = proc[q].pgid
  BY <1>11, <1>13
<1>17. \A q \in Proc : proc[q].stat # "free" => proc[q].pptr # c
  BY <1>2, ProcAssumption DEF Family
<1>18. Family'
  <2>1. proc'[init].stat = "SRUN" /\ proc'[init].pptr = none
    BY <1>2, <1>16 DEF Family
  <2>2. ASSUME NEW q \in Proc \ {init}, proc'[q].stat # "free"
        PROVE  /\ proc'[q].pptr \in Proc \ {q} /\ proc'[proc'[q].pptr].stat = "SRUN"
               /\ proc'[proc'[q].pptr].pptr # q
    <3>1. /\ proc[q].stat # "free" /\ proc'[q].pptr = proc[q].pptr /\ proc[q].pptr # c
      BY <1>2, <1>14, <1>16, <1>17, <2>2
    <3>2. /\ proc[q].pptr \in Proc \ {q} /\ proc[proc[q].pptr].stat = "SRUN"
          /\ proc[proc[q].pptr].pptr # q
      BY <1>2, <3>1 DEF Family
    <3> QED
      BY <1>16, <3>1, <3>2
  <2> QED
    BY <2>1, <2>2 DEF Family
<1>19. ZombiesMarked'
  <2> SUFFICES ASSUME NEW q \in Proc, proc'[q].stat = "SZOMB", proc'[q].pptr # init
               PROVE  "SZCHILD" \in proc'[proc'[q].pptr].flag
    BY DEF ZombiesMarked
  <2>1. q # c
    BY <1>14
  <2>2. /\ proc[q].stat = "SZOMB" /\ proc'[q].pptr = proc[q].pptr /\ q # init
    BY <1>2, <1>16, <2>1 DEF Family
  <2>3. proc[q].pptr \in Proc \ {c}
    BY <1>2, <1>17, <2>2 DEF Family
  <2> QED
    BY <1>2, <1>16, <2>2, <2>3 DEF ZombiesMarked
<1>20. CallsFit'
  <2> SUFFICES ASSUME NEW q \in Proc
               PROVE  /\ proc'[q].at # "user" => proc'[q].stat = "SRUN"
                      /\ proc'[q].at \in {"copy", "ppwait", "ppwoken"} =>
                           proc'[q].child \in Proc \ {init} /\ proc'[proc'[q].child].pptr = q
                      /\ proc'[q].at = "copy" => proc'[proc'[q].child].stat = "SIDL"
                      /\ proc'[q].at \in {"ppwait", "ppwoken"} =>
                           proc'[proc'[q].child].stat \in {"SRUN", "SZOMB"}
    BY DEF CallsFit
  <2>1. CASE q = p
    BY <1>1, <1>2, <1>4, <1>5, <1>13, <1>14, <2>1
  <2>2. CASE q = c
    BY <1>14, <2>2
  <2>3. CASE q \notin {p, c}
    <3>1. proc'[q] = proc[q]
      BY <1>11, <2>3
    <3>2. proc[q].at \in {"copy", "ppwait", "ppwoken"} => proc[q].child \in Proc \ {c}
      BY <1>2, <2>3 DEF CallsFit
    <3> QED
      BY <1>2, <1>16, <3>1, <3>2 DEF CallsFit
  <2> QED
    BY <2>1, <2>2, <2>3
<1>21. ASSUME NEW q \in Proc, NEW pid PROVE Zombies(q, pid)' \subseteq Zombies(q, pid)
  BY <1>14, <1>16 DEF Zombies, Found, Children, Matches
<1>22. WaitersCovered'
  <2> SUFFICES ASSUME NEW q \in Proc
               PROVE  /\ proc'[q].at = "wait" => Zombies(q, proc[q].arg)' = {}
                      /\ proc'[q].at = "ppwait" => "SPPWAIT" \in proc'[proc'[q].child].flag
    BY DEF WaitersCovered
  <2>1. CASE q = p
    BY <1>1, <1>3, <1>4, <1>5, <1>13, <1>14, <2>1
  <2>2. CASE q = c
    BY <1>14, <2>2
  <2>3. CASE q \notin {p, c}
    <3>1. proc'[q] = proc[q]
      BY <1>11, <2>3
    <3>2. proc[q].at = "ppwait" => proc[q].child \in Proc \ {c}
      BY <1>2, <2>3 DEF CallsFit
    <3>3. ASSUME proc[q].at = "wait" PROVE Zombies(q, proc[q].arg)' = {}
      <4>1. PICK pid : pid = proc[q].arg
        OBVIOUS
      <4>2. Zombies(q, pid)' = {}
        BY <1>2, <1>21, <3>3, <4>1 DEF WaitersCovered
      <4> QED
        BY <3>1, <4>1, <4>2 DEF Zombies, Found, Children, Matches
    <3> QED
      BY <1>2, <1>16, <3>1, <3>2, <3>3 DEF WaitersCovered
  <2> QED
    BY <2>1, <2>2, <2>3
<1> QED
  BY <1>15, <1>18, <1>19, <1>20, <1>22 DEF WaitInv

-----------------------------------------------------------------------------
(* execve() and exit() give the address space back and wake the parent.    *)

LEMMA execveStep ==
  ASSUME WaitInv, NEW p \in Proc, execve(p) PROVE WaitInv'
<1>1. /\ Shape /\ Family /\ ZombiesMarked /\ CallsFit /\ WaitersCovered
      /\ proc[p].at = "user" /\ proc[p].stat = "SRUN" /\ p # init /\ init \in Proc
  BY ProcAssumption DEF execve, Running, WaitInv
<1>2. PICK pp : pp = proc[p].pptr
  OBVIOUS
<1>3. pp \in Proc \ {p}
  BY <1>1, <1>2 DEF Family
<1> DEFINE r == [proc[p] EXCEPT !.flag = (@ \cup {"SEXEC"}) \ {"SPPWAIT"}]
<1>4. proc' = [q \in Proc |->
                 CASE q = p -> r
                   [] q = proc[p].pptr /\ "SPPWAIT" \in proc[p].flag -> Resumed(proc[q])
                   [] OTHER -> proc[q]]
  BY DEF execve
<1>5. /\ IsEntry(proc'[p]) /\ proc'[p].flag = (proc[p].flag \cup {"SEXEC"}) \ {"SPPWAIT"}
      /\ proc'[p].stat = proc[p].stat /\ proc'[p].pid = proc[p].pid /\ proc'[p].pptr = proc[p].pptr
      /\ proc'[p].pgid = proc[p].pgid /\ proc'[p].at = proc[p].at
  <2>1. proc'[p] = r
    <3> HIDE DEF r
    <3> QED
      BY <1>2, <1>3, <1>4
  <2>2. IsEntry(proc[p])
    BY <1>1 DEF Shape
  <2> QED
    BY <2>1, <2>2 DEF IsEntry
<1>6. ASSUME NEW q \in Proc \ {p}
      PROVE  proc'[q] = IF q = pp /\ "SPPWAIT" \in proc[p].flag THEN Resumed(proc[q]) ELSE proc[q]
  BY <1>2, <1>4
<1>7. ASSUME NEW q \in Proc \ {p}
      PROVE  /\ IsEntry(proc'[q])
             /\ proc'[q].stat = proc[q].stat /\ proc'[q].pptr = proc[q].pptr
             /\ proc'[q].flag = proc[q].flag /\ proc'[q].pid = proc[q].pid
             /\ proc'[q].pgid = proc[q].pgid /\ proc'[q].arg = proc[q].arg
             /\ proc'[q].child = proc[q].child
             /\ proc'[q].at = IF q = pp /\ "SPPWAIT" \in proc[p].flag
                              THEN IF proc[q].at = "ppwait" THEN "ppwoken"
                                   ELSE IF proc[q].at = "wait" THEN "wait4" ELSE proc[q].at
                              ELSE proc[q].at
  <2>1. IsEntry(proc[q])
    BY <1>1 DEF Shape
  <2> QED
    BY <1>6, <2>1, ResumedIs
<1>8. Shape'
  BY <1>4, <1>5, <1>7 DEF Shape
<1>9. \A q \in Proc : /\ proc'[q].stat = proc[q].stat /\ proc'[q].pptr = proc[q].pptr
                      /\ proc'[q].pid = proc[q].pid /\ proc'[q].pgid = proc[q].pgid
                      /\ "SZCHILD" \in proc'[q].flag <=> "SZCHILD" \in proc[q].flag
  BY <1>5, <1>7
<1>10. Family'
  BY <1>1, <1>9 DEF Family
<1>11. ZombiesMarked'
  <2> SUFFICES ASSUME NEW q \in Proc, proc'[q].stat = "SZOMB", proc'[q].pptr # init
               PROVE  "SZCHILD" \in proc'[proc'[q].pptr].flag
    BY DEF ZombiesMarked
  <2>1. q # init /\ proc[q].pptr \in Proc /\ proc'[q].pptr = proc[q].pptr
    BY <1>1, <1>9 DEF Family
  <2> QED
    BY <1>1, <1>9, <2>1 DEF ZombiesMarked
<1>12. CallsFit'
  <2> SUFFICES ASSUME NEW q \in Proc
               PROVE  /\ proc'[q].at # "user" => proc'[q].stat = "SRUN"
                      /\ proc'[q].at \in {"copy", "ppwait", "ppwoken"} =>
                           proc'[q].child \in Proc \ {init} /\ proc'[proc'[q].child].pptr = q
                      /\ proc'[q].at = "copy" => proc'[proc'[q].child].stat = "SIDL"
                      /\ proc'[q].at \in {"ppwait", "ppwoken"} =>
                           proc'[proc'[q].child].stat \in {"SRUN", "SZOMB"}
    BY DEF CallsFit
  <2>1. CASE q = p
    BY <1>1, <1>5, <2>1
  <2>2. CASE q # p
    <3>1. /\ proc'[q].at # "user" => proc[q].at # "user"
          /\ proc'[q].at \in {"ppwait", "ppwoken"} => proc[q].at \in {"ppwait", "ppwoken"}
          /\ proc'[q].at = "copy" => proc[q].at = "copy"
          /\ proc'[q].child = proc[q].child
      BY <1>7, <2>2
    <3> QED
      BY <1>1, <1>9, <3>1 DEF CallsFit
  <2> QED
    BY <2>1, <2>2
<1>13. ASSUME NEW q \in Proc, NEW pid PROVE Zombies(q, pid)' \subseteq Zombies(q, pid)
  BY <1>9 DEF Zombies, Found, Children, Matches
<1>14. WaitersCovered'
  <2> SUFFICES ASSUME NEW q \in Proc
               PROVE  /\ proc'[q].at = "wait" => Zombies(q, proc[q].arg)' = {}
                      /\ proc'[q].at = "ppwait" => "SPPWAIT" \in proc'[proc'[q].child].flag
    BY DEF WaitersCovered
  <2>1. CASE q = p
    BY <1>1, <1>5, <2>1
  <2>2. CASE q # p
    <3>1. ASSUME proc'[q].at = "wait" PROVE Zombies(q, proc[q].arg)' = {}
      <4>1. PICK pid : pid = proc[q].arg
        OBVIOUS
      <4>2. proc[q].at = "wait" /\ proc'[q].arg = proc[q].arg
        BY <1>7, <2>2, <3>1
      <4>3. Zombies(q, pid)' = {}
        BY <1>1, <1>13, <4>1, <4>2 DEF WaitersCovered
      <4> QED
        BY <4>1, <4>2, <4>3 DEF Zombies, Found, Children, Matches
    <3>2. ASSUME proc'[q].at = "ppwait" PROVE "SPPWAIT" \in proc'[proc'[q].child].flag
      <4>1. /\ proc[q].at = "ppwait" /\ proc'[q].child = proc[q].child
            /\ ~(q = pp /\ "SPPWAIT" \in proc[p].flag)
        BY <1>7, <2>2, <3>2
      <4>2. /\ proc[q].child \in Proc /\ proc[proc[q].child].pptr = q
            /\ "SPPWAIT" \in proc[proc[q].child].flag
        BY <1>1, <4>1 DEF CallsFit, WaitersCovered
      <4>3. proc[q].child # p
        BY <1>2, <4>1, <4>2
      <4> QED
        BY <1>7, <4>1, <4>2, <4>3
    <3> QED
      BY <3>1, <3>2
  <2> QED
    BY <2>1, <2>2
<1> QED
  BY <1>8, <1>10, <1>11, <1>12, <1>14 DEF WaitInv
\* exit(): the parent is woken and marked; init inherits the children, and is woken when
\* there may be a zombie among them.
LEMMA exitStep ==
  ASSUME WaitInv, NEW p \in Proc, exit(p) PROVE WaitInv'
<1>1. /\ Shape /\ Family /\ ZombiesMarked /\ CallsFit /\ WaitersCovered
      /\ proc[p].at = "user" /\ proc[p].stat = "SRUN" /\ p # init
      /\ init \in Proc /\ none \notin Proc
  BY ProcAssumption DEF exit, Running, WaitInv
<1>2. PICK pp : pp = proc[p].pptr
  OBVIOUS
<1>3. /\ pp \in Proc \ {p} /\ pp \notin Children(p) /\ p \notin Children(p) /\ init \notin Children(p)
      /\ Children(p) \subseteq Proc
  BY <1>1, <1>2 DEF Family, Children
<1> DEFINE dead == [proc[p] EXCEPT !.stat = "SZOMB", !.flag = {}]
           inherited(q) == [proc[q] EXCEPT !.pptr = init]
           told(q) == [Resumed(proc[q]) EXCEPT !.flag = @ \cup {"SZCHILD"}]
<1>4. proc' = [q \in Proc |->
                 CASE q = p -> dead
                   [] q \in Children(p) -> inherited(q)
                   [] q = pp -> told(q)
                   [] q = init /\ q # pp /\ InitWoken(p) -> Resumed(proc[q])
                   [] OTHER -> proc[q]]
  BY <1>2 DEF exit
<1>5. /\ proc'[p] = dead
      /\ \A q \in Children(p) : proc'[q] = inherited(q)
      /\ proc'[pp] = told(pp)
      /\ \A q \in Proc \ (Children(p) \cup {p, pp}) :
           proc'[q] = IF q = init /\ InitWoken(p) THEN Resumed(proc[q]) ELSE proc[q]
  <2> HIDE DEF dead, inherited, told
  <2>1. proc'[p] = dead
    BY <1>1, <1>3, <1>4
  <2>2. ASSUME NEW q \in Children(p) PROVE proc'[q] = inherited(q)
    BY <1>3, <1>4
  <2>3. proc'[pp] = told(pp)
    BY <1>3, <1>4
  <2>4. ASSUME NEW q \in Proc \ (Children(p) \cup {p, pp})
        PROVE  proc'[q] = IF q = init /\ InitWoken(p) THEN Resumed(proc[q]) ELSE proc[q]
    BY <1>4
  <2> QED
    BY <2>1, <2>2, <2>3, <2>4
<1>6. /\ IsEntry(proc'[p]) /\ proc'[p].stat = "SZOMB" /\ proc'[p].at = "user"
      /\ proc'[p].pptr = pp
  <2>1. IsEntry(proc[p])
    BY <1>1 DEF Shape
  <2> QED
    BY <1>1, <1>2, <1>5, <2>1 DEF IsEntry
<1>7. ASSUME NEW q \in Children(p)
      PROVE  /\ IsEntry(proc'[q]) /\ proc'[q].pptr = init
             /\ proc'[q].stat = proc[q].stat /\ proc'[q].pid = proc[q].pid
             /\ proc'[q].pgid = proc[q].pgid /\ proc'[q].flag = proc[q].flag
             /\ proc'[q].at = proc[q].at /\ proc'[q].arg = proc[q].arg
             /\ proc'[q].child = proc[q].child
  <2>1. IsEntry(proc[q]) /\ proc'[q] = inherited(q)
    BY <1>1, <1>3, <1>5 DEF Shape
  <2> QED
    BY <2>1 DEF IsEntry
<1>8. /\ IsEntry(proc'[pp]) /\ proc'[pp].flag = proc[pp].flag \cup {"SZCHILD"}
      /\ proc'[pp].stat = proc[pp].stat /\ proc'[pp].pid = proc[pp].pid
      /\ proc'[pp].pgid = proc[pp].pgid /\ proc'[pp].pptr = proc[pp].pptr
      /\ proc'[pp].arg = proc[pp].arg /\ proc'[pp].child = proc[pp].child
      /\ proc'[pp].at = IF proc[pp].at = "ppwait" THEN "ppwoken"
                        ELSE IF proc[pp].at = "wait" THEN "wait4" ELSE proc[pp].at
  <2>1. IsEntry(proc[pp])
    BY <1>1, <1>3 DEF Shape
  <2>2. PICK r : r = Resumed(proc[pp])
    OBVIOUS
  <2>3. proc'[pp] = [r EXCEPT !.flag = r.flag \cup {"SZCHILD"}]
    BY <1>5, <2>2
  <2>4. /\ IsEntry(r) /\ r.stat = proc[pp].stat /\ r.pid = proc[pp].pid /\ r.pptr = proc[pp].pptr
        /\ r.pgid = proc[pp].pgid /\ r.flag = proc[pp].flag
        /\ r.arg = proc[pp].arg /\ r.child = proc[pp].child
        /\ r.at = IF proc[pp].at = "ppwait" THEN "ppwoken"
                  ELSE IF proc[pp].at = "wait" THEN "wait4" ELSE proc[pp].at
    BY <2>1, <2>2, ResumedIs
  <2> QED
    BY <2>3, <2>4 DEF IsEntry
<1>9. ASSUME NEW q \in Proc \ (Children(p) \cup {p, pp})
      PROVE  /\ IsEntry(proc'[q])
             /\ proc'[q].stat = proc[q].stat /\ proc'[q].pptr = proc[q].pptr
             /\ proc'[q].flag = proc[q].flag /\ proc'[q].pid = proc[q].pid
             /\ proc'[q].pgid = proc[q].pgid /\ proc'[q].arg = proc[q].arg
             /\ proc'[q].child = proc[q].child
             /\ proc'[q].at = IF q = init /\ InitWoken(p)
                              THEN IF proc[q].at = "ppwait" THEN "ppwoken"
                                   ELSE IF proc[q].at = "wait" THEN "wait4" ELSE proc[q].at
                              ELSE proc[q].at
  <2>1. IsEntry(proc[q])
    BY <1>1 DEF Shape
  <2> QED
    BY <1>5, <2>1, ResumedIs
<1> HIDE DEF dead, inherited, told
<1>10. \A q \in Proc : q = p \/ q \in Children(p) \/ q = pp \/ q \in Proc \ (Children(p) \cup {p, pp})
  OBVIOUS
<1>11. Shape'
  <2>1. \A q \in Proc : IsEntry(proc'[q])
    BY <1>6, <1>7, <1>8, <1>9, <1>10
  <2> QED
    BY <1>4, <2>1 DEF Shape
\* What changes about the others.
<1>12. ASSUME NEW q \in Proc \ {p}
       PROVE  /\ proc'[q].stat = proc[q].stat /\ proc[q].flag \subseteq proc'[q].flag
              /\ proc'[q].pid = proc[q].pid /\ proc'[q].pgid = proc[q].pgid
              /\ proc'[q].arg = proc[q].arg /\ proc'[q].child = proc[q].child
              /\ proc'[q].at # "user" => proc[q].at # "user"
              /\ proc'[q].at = "copy" => proc[q].at = "copy"
              /\ proc'[q].at \in {"ppwait", "ppwoken"} => proc[q].at \in {"ppwait", "ppwoken"}
              /\ proc'[q].at \in {"ppwait", "wait"} =>
                   proc[q].at = proc'[q].at /\ q # pp /\ ~(q = init /\ InitWoken(p))
              /\ proc'[q].pptr = IF q \in Children(p) THEN init ELSE proc[q].pptr
  <2>1. CASE q \in Children(p)
    BY <1>3, <1>7, <2>1
  <2>2. CASE q = pp
    BY <1>3, <1>8, <2>2
  <2>3. CASE q \in Proc \ (Children(p) \cup {p, pp})
    BY <1>9, <2>3
  <2> QED
    BY <2>1, <2>2, <2>3
<1>13. Family'
  <2>1. proc'[init].stat = "SRUN" /\ proc'[init].pptr = none
    BY <1>1, <1>3, <1>12 DEF Family
  <2>2. ASSUME NEW q \in Proc \ {init}, proc'[q].stat # "free"
        PROVE  /\ proc'[q].pptr \in Proc \ {q} /\ proc'[proc'[q].pptr].stat = "SRUN"
               /\ proc'[proc'[q].pptr].pptr # q
    <3>1. CASE q = p
      <4>1. proc'[pp].pptr = proc[pp].pptr /\ proc[pp].pptr # p /\ proc[pp].stat = "SRUN"
        BY <1>1, <1>2, <1>3, <1>12 DEF Family
      <4> QED
        BY <1>3, <1>6, <1>12, <3>1, <4>1
    <3>2. CASE q \in Children(p)
      BY <1>1, <1>7, <2>1, <3>2
    <3>3. CASE q # p /\ q \notin Children(p)
      <4>1. /\ proc[q].stat # "free" /\ proc'[q].pptr = proc[q].pptr
            /\ proc[q].pptr \in Proc \ {q} /\ proc[q].pptr # p
            /\ proc[proc[q].pptr].stat = "SRUN" /\ proc[proc[q].pptr].pptr # q
        BY <1>1, <1>12, <2>2, <3>3 DEF Family, Children
      <4> QED
        BY <1>12, <4>1
    <3> QED
      BY <3>1, <3>2, <3>3
  <2> QED
    BY <2>1, <2>2 DEF Family
<1>14. ZombiesMarked'
  <2> SUFFICES ASSUME NEW q \in Proc, proc'[q].stat = "SZOMB", proc'[q].pptr # init
               PROVE  "SZCHILD" \in proc'[proc'[q].pptr].flag
    BY DEF ZombiesMarked
  <2>1. CASE q = p
    BY <1>6, <1>8, <2>1
  <2>2. CASE q # p
    <3>1. proc[q].stat = "SZOMB" /\ q \notin Children(p) /\ proc'[q].pptr = proc[q].pptr /\ q # init
      BY <1>1, <1>12, <2>2 DEF Family
    <3>2. proc[q].pptr \in Proc \ {p}
      BY <1>1, <3>1 DEF Family, Children
    <3> QED
      BY <1>1, <1>12, <3>1, <3>2 DEF ZombiesMarked
  <2> QED
    BY <2>1, <2>2
<1>15. CallsFit'
  <2> SUFFICES ASSUME NEW q \in Proc
               PROVE  /\ proc'[q].at # "user" => proc'[q].stat = "SRUN"
                      /\ proc'[q].at \in {"copy", "ppwait", "ppwoken"} =>
                           proc'[q].child \in Proc \ {init} /\ proc'[proc'[q].child].pptr = q
                      /\ proc'[q].at = "copy" => proc'[proc'[q].child].stat = "SIDL"
                      /\ proc'[q].at \in {"ppwait", "ppwoken"} =>
                           proc'[proc'[q].child].stat \in {"SRUN", "SZOMB"}
    BY DEF CallsFit
  <2>1. CASE q = p
    BY <1>6, <2>1
  <2>2. CASE q # p
    <3>1. /\ proc'[q].at # "user" => proc[q].at # "user"
          /\ proc'[q].at \in {"ppwait", "ppwoken"} => proc[q].at \in {"ppwait", "ppwoken"}
          /\ proc'[q].at = "copy" => proc[q].at = "copy"
          /\ proc'[q].child = proc[q].child /\ proc'[q].stat = proc[q].stat
      BY <1>12, <2>2
    <3>2. proc'[q].at \in {"copy", "ppwait", "ppwoken"} =>
            /\ proc[q].child \in Proc \ {init} /\ proc[proc[q].child].pptr = q
            /\ proc'[proc[q].child].pptr = q
      <4> SUFFICES ASSUME proc'[q].at \in {"copy", "ppwait", "ppwoken"}
                   PROVE  /\ proc[q].child \in Proc \ {init} /\ proc[proc[q].child].pptr = q
                          /\ proc'[proc[q].child].pptr = q
        OBVIOUS
      <4>1. proc[q].child \in Proc \ {init} /\ proc[proc[q].child].pptr = q
        BY <1>1, <3>1 DEF CallsFit
      <4>2. proc[q].child \notin Children(p)
        BY <2>2, <4>1 DEF Children
      <4>3. CASE proc[q].child = p
        BY <1>2, <1>6, <4>1, <4>3
      <4>4. CASE proc[q].child # p
        BY <1>12, <4>1, <4>2, <4>4
      <4> QED
        BY <4>1, <4>3, <4>4
    <3>3. proc'[q].at = "copy" => proc'[proc[q].child].stat = "SIDL"
      <4> SUFFICES ASSUME proc'[q].at = "copy" PROVE proc'[proc[q].child].stat = "SIDL"
        OBVIOUS
      <4>1. proc[q].child \in Proc /\ proc[proc[q].child].stat = "SIDL"
        BY <1>1, <3>1 DEF CallsFit
      <4>2. proc[q].child # p
        BY <1>1, <4>1
      <4> QED
        BY <1>12, <4>1, <4>2
    <3>4. proc'[q].at \in {"ppwait", "ppwoken"} => proc'[proc[q].child].stat \in {"SRUN", "SZOMB"}
      <4> SUFFICES ASSUME proc'[q].at \in {"ppwait", "ppwoken"}
                   PROVE  proc'[proc[q].child].stat \in {"SRUN", "SZOMB"}
        OBVIOUS
      <4>1. proc[q].child \in Proc /\ proc[proc[q].child].stat \in {"SRUN", "SZOMB"}
        BY <1>1, <3>1 DEF CallsFit
      <4> QED
        BY <1>6, <1>12, <4>1
    <3>5. proc'[q].at # "user" => proc'[q].stat = "SRUN"
      BY <1>1, <3>1 DEF CallsFit
    <3> QED
      BY <3>1, <3>2, <3>3, <3>4, <3>5
  <2> QED
    BY <2>1, <2>2
<1>16. WaitersCovered'
  <2> SUFFICES ASSUME NEW q \in Proc
               PROVE  /\ proc'[q].at = "wait" => Zombies(q, proc[q].arg)' = {}
                      /\ proc'[q].at = "ppwait" => "SPPWAIT" \in proc'[proc'[q].child].flag
    BY DEF WaitersCovered
  <2>1. ASSUME proc'[q].at = "wait" PROVE Zombies(q, proc[q].arg)' = {}
    <3>1. /\ q # p /\ q # pp /\ ~(q = init /\ InitWoken(p))
          /\ proc[q].at = "wait" /\ proc'[q].arg = proc[q].arg
      BY <1>6, <1>12, <2>1
    <3>2. PICK pid : pid = proc[q].arg
      OBVIOUS
    <3>3. Zombies(q, pid) = {}
      BY <1>1, <3>1, <3>2 DEF WaitersCovered
    <3>4. ASSUME NEW z \in Zombies(q, pid)' PROVE FALSE
      <4>1. /\ z \in Proc /\ proc'[z].stat = "SZOMB" /\ proc'[z].pptr = q
            /\ pid = WAIT_ANY \/ proc'[z].pid = pid \/ proc'[z].pgid = -pid
        BY <3>4 DEF Zombies, Found, Children, Matches
      <4>2. z # p
        BY <1>6, <3>1, <4>1
      <4>3. proc[z].stat = "SZOMB" /\ proc'[z].pid = proc[z].pid /\ proc'[z].pgid = proc[z].pgid
        BY <1>12, <4>1, <4>2
      <4>4. CASE z \in Children(p)
        <5>1. q = init /\ proc[z].pptr = p
          BY <1>7, <4>1, <4>4 DEF Children
        <5>2. "SZCHILD" \in proc[p].flag
          BY <1>1, <4>1, <4>3, <5>1 DEF ZombiesMarked
        <5>3. InitWoken(p)
          BY <4>4, <5>2 DEF InitWoken
        <5> QED
          BY <3>1, <5>1, <5>3
      <4>5. CASE z \notin Children(p)
        <5>1. proc[z].pptr = q
          BY <1>12, <4>1, <4>2, <4>5
        <5>2. z \in Zombies(q, pid)
          BY <4>1, <4>3, <5>1 DEF Zombies, Found, Children, Matches
        <5> QED
          BY <3>3, <5>2
      <4> QED
        BY <4>4, <4>5
    <3>5. Zombies(q, pid)' = {}
      BY <3>4
    <3> QED
      BY <3>1, <3>2, <3>5 DEF Zombies, Found, Children, Matches
  <2>2. ASSUME proc'[q].at = "ppwait" PROVE "SPPWAIT" \in proc'[proc'[q].child].flag
    <3>1. q # p /\ q # pp /\ proc[q].at = "ppwait" /\ proc'[q].child = proc[q].child
      BY <1>6, <1>12, <2>2
    <3>2. /\ proc[q].child \in Proc /\ proc[proc[q].child].pptr = q
          /\ "SPPWAIT" \in proc[proc[q].child].flag
      BY <1>1, <3>1 DEF CallsFit, WaitersCovered
    <3>3. proc[q].child # p
      BY <1>2, <3>1, <3>2
    <3> QED
      BY <1>12, <3>1, <3>2, <3>3
  <2> QED
    BY <2>1, <2>2
<1> QED
  BY <1>11, <1>13, <1>14, <1>15, <1>16 DEF WaitInv

-----------------------------------------------------------------------------
(* Death: wait4() frees the zombie.                                        *)

LEMMA wait4_reapStep ==
  ASSUME WaitInv, NEW q \in Proc, NEW pid, wait4_reap(q, pid) PROVE WaitInv'
<1>1. PICK p \in Zombies(q, pid) :
        proc' = [Unlinked(p) EXCEPT ![p] = Free, ![q].at = "user", ![q].arg = 0]
  BY DEF wait4_reap
<1>2. /\ Shape /\ Family /\ ZombiesMarked /\ CallsFit /\ WaitersCovered
      /\ init \in Proc /\ none \notin Proc
      /\ proc[q].stat = "SRUN" /\ proc[q].at \in {"user", "wait4"}
      /\ p \in Proc /\ proc[p].stat = "SZOMB" /\ proc[p].pptr = q /\ p # q /\ p # init
  BY <1>1, ProcAssumption
     DEF wait4_reap, Looks, WaitInv, Zombies, Found, Children, Family
<1>3. PICK u : u = Unlinked(p)
  OBVIOUS
<1>4. /\ u = [r \in Proc |-> u[r]]
      /\ \A r \in Proc : IsEntry(u[r]) /\ Alike(u[r], proc[r])
  BY <1>2, <1>3, UnlinkedIs
<1>5. PICK v : v = [u EXCEPT ![p] = Free]
  OBVIOUS
<1>6. v = [r \in Proc |-> IF r = p THEN Free ELSE u[r]]
  BY <1>4, <1>5
<1>7. proc' = [v EXCEPT ![q].at = "user", ![q].arg = 0]
  BY <1>1, <1>3, <1>5
<1>8. proc' = [r \in Proc |-> IF r = q THEN [v[q] EXCEPT !.at = "user", !.arg = 0] ELSE v[r]]
  BY <1>6, <1>7
<1>9. /\ proc'[p] = Free
      /\ proc'[q] = [u[q] EXCEPT !.at = "user", !.arg = 0]
      /\ \A r \in Proc \ {p, q} : proc'[r] = u[r]
  BY <1>2, <1>6, <1>8
<1>10. IsEntry(Free) /\ Free.stat = "free" /\ Free.at = "user"
  BY DEF IsEntry, Free
<1>11. /\ IsEntry(proc'[q]) /\ proc'[q].stat = proc[q].stat /\ proc'[q].pptr = proc[q].pptr
       /\ proc'[q].flag = proc[q].flag /\ proc'[q].pid = proc[q].pid
       /\ proc'[q].pgid = proc[q].pgid /\ proc'[q].at = "user"
  <2>1. IsEntry(u[q]) /\ Alike(u[q], proc[q])
    BY <1>4
  <2> QED
    BY <1>9, <2>1 DEF IsEntry, Alike
<1>12. Shape'
  <2>1. \A r \in Proc : IsEntry(proc'[r])
    BY <1>4, <1>9, <1>10, <1>11
  <2> QED
    BY <1>8, <2>1 DEF Shape
<1>13. ASSUME NEW r \in Proc \ {p}
       PROVE  /\ proc'[r].stat = proc[r].stat /\ proc'[r].pptr = proc[r].pptr
              /\ proc'[r].flag = proc[r].flag /\ proc'[r].pid = proc[r].pid
              /\ proc'[r].pgid = proc[r].pgid
              /\ proc'[r].at # "user" => /\ r # q /\ proc'[r].at = proc[r].at
                                         /\ proc'[r].arg = proc[r].arg
                                         /\ proc'[r].child = proc[r].child
  <2>1. CASE r = q
    BY <1>11, <2>1
  <2>2. CASE r # q
    <3>1. proc'[r] = u[r] /\ Alike(u[r], proc[r])
      BY <1>4, <1>9, <2>2
    <3> QED
      BY <2>2, <3>1 DEF Alike
  <2> QED
    BY <2>1, <2>2
<1>14. \A r \in Proc : proc[r].stat # "free" => proc[r].pptr # p
  BY <1>2 DEF Family
<1>15. Family'
  <2>1. proc'[init].stat = "SRUN" /\ proc'[init].pptr = none
    BY <1>2, <1>13 DEF Family
  <2>2. ASSUME NEW r \in Proc \ {init}, proc'[r].stat # "free"
        PROVE  /\ proc'[r].pptr \in Proc \ {r} /\ proc'[proc'[r].pptr].stat = "SRUN"
               /\ proc'[proc'[r].pptr].pptr # r
    <3>1. r # p
      BY <1>9, <1>10, <2>2
    <3>2. /\ proc[r].stat # "free" /\ proc'[r].pptr = proc[r].pptr /\ proc[r].pptr # p
      BY <1>13, <1>14, <2>2, <3>1
    <3>3. /\ proc[r].pptr \in Proc \ {r} /\ proc[proc[r].pptr].stat = "SRUN"
          /\ proc[proc[r].pptr].pptr # r
      BY <1>2, <3>2 DEF Family
    <3> QED
      BY <1>13, <3>2, <3>3
  <2> QED
    BY <2>1, <2>2 DEF Family
<1>16. ZombiesMarked'
  <2> SUFFICES ASSUME NEW r \in Proc, proc'[r].stat = "SZOMB", proc'[r].pptr # init
               PROVE  "SZCHILD" \in proc'[proc'[r].pptr].flag
    BY DEF ZombiesMarked
  <2>1. r # p
    BY <1>9, <1>10
  <2>2. proc[r].stat = "SZOMB" /\ proc'[r].pptr = proc[r].pptr /\ r # init
    BY <1>2, <1>13, <2>1 DEF Family
  <2>3. proc[r].pptr \in Proc \ {p}
    BY <1>2, <1>14, <2>2 DEF Family
  <2> QED
    BY <1>2, <1>13, <2>2, <2>3 DEF ZombiesMarked
<1>17. ASSUME NEW r \in Proc \ {p}, proc'[r].at \in {"copy", "ppwait", "ppwoken"}
       PROVE  proc[r].child \in Proc \ {p}
  <2>1. r # q /\ proc[r].at \in {"copy", "ppwait", "ppwoken"}
    BY <1>13, <1>17
  <2> QED
    BY <1>2, <2>1 DEF CallsFit
<1>18. CallsFit'
  <2> SUFFICES ASSUME NEW r \in Proc
               PROVE  /\ proc'[r].at # "user" => proc'[r].stat = "SRUN"
                      /\ proc'[r].at \in {"copy", "ppwait", "ppwoken"} =>
                           proc'[r].child \in Proc \ {init} /\ proc'[proc'[r].child].pptr = r
                      /\ proc'[r].at = "copy" => proc'[proc'[r].child].stat = "SIDL"
                      /\ proc'[r].at \in {"ppwait", "ppwoken"} =>
                           proc'[proc'[r].child].stat \in {"SRUN", "SZOMB"}
    BY DEF CallsFit
  <2>1. CASE r = p
    BY <1>9, <1>10, <2>1
  <2>2. CASE r # p
    BY <1>2, <1>13, <1>17, <2>2 DEF CallsFit
  <2> QED
    BY <2>1, <2>2
<1>19. ASSUME NEW r \in Proc, NEW n PROVE Zombies(r, n)' \subseteq Zombies(r, n)
  BY <1>9, <1>10, <1>13 DEF Zombies, Found, Children, Matches
<1>20. WaitersCovered'
  <2> SUFFICES ASSUME NEW r \in Proc
               PROVE  /\ proc'[r].at = "wait" => Zombies(r, proc[r].arg)' = {}
                      /\ proc'[r].at = "ppwait" => "SPPWAIT" \in proc'[proc'[r].child].flag
    BY DEF WaitersCovered
  <2>1. CASE r = p
    BY <1>9, <1>10, <2>1
  <2>2. CASE r # p
    <3>1. ASSUME proc'[r].at = "wait" PROVE Zombies(r, proc[r].arg)' = {}
      <4>1. PICK n : n = proc[r].arg
        OBVIOUS
      <4>2. proc[r].at = "wait" /\ proc'[r].arg = proc[r].arg
        BY <1>13, <2>2, <3>1
      <4>3. Zombies(r, n)' = {}
        BY <1>2, <1>19, <4>1, <4>2 DEF WaitersCovered
      <4> QED
        BY <4>1, <4>2, <4>3 DEF Zombies, Found, Children, Matches
    <3>2. ASSUME proc'[r].at = "ppwait" PROVE "SPPWAIT" \in proc'[proc'[r].child].flag
      <4>1. proc[r].at = "ppwait" /\ proc'[r].child = proc[r].child /\ proc[r].child \in Proc \ {p}
        BY <1>13, <1>17, <2>2, <3>2
      <4> QED
        BY <1>2, <1>13, <4>1 DEF WaitersCovered
    <3> QED
      BY <3>1, <3>2
  <2> QED
    BY <2>1, <2>2
<1> QED
  BY <1>12, <1>15, <1>16, <1>18, <1>20 DEF WaitInv
-----------------------------------------------------------------------------
(* The invariant and what follows from it.                                 *)

LEMMA InitInv == Init => WaitInv
<1> SUFFICES ASSUME Init PROVE WaitInv
  OBVIOUS
<1>1. init \in Proc /\ Shell \in Proc \ {init} /\ none \notin Proc
  BY ProcAssumption
<1> DEFINE first == [Free EXCEPT !.stat = "SRUN", !.pid = 1, !.pgid = 1]
           shell == [Free EXCEPT !.stat = "SRUN", !.pid = ShellPid, !.pgid = ShellPid,
                                 !.pptr = init, !.flag = {"SEXEC"}]
<1>2. proc = [p \in Proc |-> CASE p = init -> first [] p = Shell -> shell [] OTHER -> Free]
  BY DEF Init
<1>3. proc[init] = first /\ proc[Shell] = shell /\ \A p \in Proc \ {init, Shell} : proc[p] = Free
  <2> HIDE DEF first, shell
  <2> QED
    BY <1>1, <1>2
<1>6. IsEntry(Free) /\ Free.stat = "free" /\ Free.at = "user" /\ Free.pptr = none
  BY DEF Free, IsEntry
<1>4. IsEntry(first) /\ first.stat = "SRUN" /\ first.pptr = none /\ first.at = "user"
  <2>1. PICK a : a = [Free EXCEPT !.stat = "SRUN", !.pid = 1, !.pgid = 1]
    OBVIOUS
  <2>2. IsEntry(a) /\ a.stat = "SRUN" /\ a.pptr = none /\ a.at = "user"
    BY <1>6, <2>1 DEF IsEntry
  <2> QED
    BY <2>1, <2>2
<1>5. IsEntry(shell) /\ shell.stat = "SRUN" /\ shell.pptr = init /\ shell.at = "user"
  <2>1. PICK a : a = [Free EXCEPT !.stat = "SRUN", !.pid = ShellPid, !.pgid = ShellPid]
    OBVIOUS
  <2>2. IsEntry(a) /\ a.stat = "SRUN" /\ a.at = "user"
    BY <1>6, <2>1 DEF IsEntry
  <2>3. PICK b : b = [a EXCEPT !.pptr = init, !.flag = {"SEXEC"}]
    OBVIOUS
  <2>4. IsEntry(b) /\ b.stat = "SRUN" /\ b.pptr = init /\ b.at = "user"
    BY <2>2, <2>3 DEF IsEntry
  <2>5. shell = b
    BY <2>1, <2>3
  <2> QED
    BY <2>4, <2>5
<1> HIDE DEF first, shell
<1>7. \A p \in Proc : /\ IsEntry(proc[p]) /\ proc[p].at = "user" /\ proc[p].stat # "SZOMB"
                      /\ p = init \/ p = Shell \/ proc[p].stat = "free"
  BY <1>3, <1>4, <1>5, <1>6
<1>8. Shape
  BY <1>2, <1>7 DEF Shape
<1>9. Family
  BY <1>1, <1>3, <1>4, <1>5, <1>7 DEF Family
<1>10. ZombiesMarked /\ CallsFit /\ WaitersCovered
  BY <1>7 DEF ZombiesMarked, CallsFit, WaitersCovered
<1> QED
  BY <1>8, <1>9, <1>10 DEF WaitInv

LEMMA StepInv == WaitInv /\ [Next]_vars => WaitInv'
<1> SUFFICES ASSUME WaitInv, [Next]_vars PROVE WaitInv'
  OBVIOUS
<1>1. CASE UNCHANGED vars
  BY <1>1 DEF vars, WaitInv, Shape, Family, ZombiesMarked, CallsFit, WaitersCovered,
              Zombies, Found, Children, Matches
<1>2. CASE Next
  <2>1. PICK p \in Proc :
          \/ setsid(p) \/ setpgid(p)
          \/ fork_pid(p) \/ fork_create(p) \/ (\E isvfork \in BOOLEAN : fork_done(p, isvfork))
          \/ vfork_wait(p) \/ execve(p) \/ exit(p)
          \/ \E pid \in Waits(p) \cup {proc[p].arg} : wait4_reap(p, pid) \/ wait4_sleep(p, pid)
          \/ wait4_none(p) \/ wait4_signal(p)
    BY <1>2 DEF Next
  <2>2. CASE setsid(p)
    BY <2>2, setsidStep
  <2>3. CASE setpgid(p)
    BY <2>3, setpgidStep
  <2>4. CASE fork_pid(p)
    BY <2>4, fork_pidStep
  <2>5. CASE fork_create(p)
    BY <2>5, fork_createStep
  <2>6. CASE \E isvfork \in BOOLEAN : fork_done(p, isvfork)
    BY <2>6, fork_doneStep
  <2>7. CASE vfork_wait(p)
    BY <2>7, vfork_waitStep
  <2>8. CASE execve(p)
    BY <2>8, execveStep
  <2>9. CASE exit(p)
    BY <2>9, exitStep
  <2>10. CASE \E pid \in Waits(p) \cup {proc[p].arg} : wait4_reap(p, pid) \/ wait4_sleep(p, pid)
    BY <2>10, wait4_reapStep, wait4Step
  <2>11. CASE wait4_none(p) \/ wait4_signal(p)
    BY <2>11, wait4Step
  <2> QED
    BY <2>1, <2>2, <2>3, <2>4, <2>5, <2>6, <2>7, <2>8, <2>9, <2>10, <2>11
<1> QED
  BY <1>1, <1>2

\* Nobody sleeps in wait4() beside a zombie of its own, and nobody in vfork() once the
\* child has exited or has given the address space back: exit() and execve() wake the
\* right process, whoever forks, moves, dies and is inherited in between.
THEOREM WaitersAreCovered == Spec => []WaitersCovered
<1>1. WaitInv => WaitersCovered
  BY DEF WaitInv
<1> QED
  BY InitInv, StepInv, <1>1, PTL DEF Spec
-----------------------------------------------------------------------------
(* The lists of the groups.                                                *)

\* A set of numbers that is not empty has a least one.
LEMMA Least ==
  ASSUME NEW T \in SUBSET Nat, T # {}
  PROVE  \E i \in T : \A j \in T : i <= j
<1> DEFINE R == OpToRel(<, Nat)
<1>1. IsWellFoundedOn(R, Nat)
  BY NatLessThanWellFounded
<1>2. \A x, y \in Nat : <<y, x>> \in R <=> y < x
  BY DEF OpToRel
<1> HIDE DEF R
<1>3. PICK i \in T : \A j \in T : ~(<<j, i>> \in R)
  BY <1>1, WFMin
<1>4. \A j \in T : i <= j
  <2> TAKE j \in T
  <2>1. ~(j < i)
    BY <1>2, <1>3
  <2> QED
    BY <2>1
<1> QED
  BY <1>4

\* A function over 1 .. n is a sequence.
LEMMA FunIsSeq ==
  ASSUME NEW S, NEW n \in Nat, NEW f \in [1 .. n -> S]
  PROVE  f \in Seq(S) /\ Len(f) = n /\ \A i \in 1 .. n : f[i] \in S
OBVIOUS

\* s is the list from h along nx, which gives the next of each process.
IsList(nx, h, s) ==
  /\ s \in Seq(Proc)
  /\ h = IF Len(s) = 0 THEN none ELSE s[1]
  /\ \A i \in 1 .. Len(s) : nx[s[i]] = IF i = Len(s) THEN none ELSE s[i + 1]

\* Nobody is on it twice.
Once(s) == \A i, j \in 1 .. Len(s) : s[i] = s[j] => i = j

LEMMA OnList ==
  ASSUME NEW s \in Seq(Proc)
  PROVE  /\ Len(s) \in Nat /\ DOMAIN s = 1 .. Len(s)
         /\ \A i \in 1 .. Len(s) : s[i] \in Proc
         /\ Range(s) \in SUBSET Proc
         /\ \A p : p \in Range(s) <=> \E i \in 1 .. Len(s) : s[i] = p
         /\ s = <<>> <=> Len(s) = 0
         /\ s = <<>> <=> Range(s) = {}
<1>1. Len(s) \in Nat /\ DOMAIN s = 1 .. Len(s) /\ \A i \in 1 .. Len(s) : s[i] \in Proc
  BY LenProperties, ElementOfSeq
<1>2. Len(<<>>) = 0 /\ (s # <<>> => Len(s) \in Nat \ {0})
  BY EmptySeq
<1>3. \A p : p \in Range(s) <=> \E i \in 1 .. Len(s) : s[i] = p
  BY <1>1 DEF Range
<1>4. s # <<>> => 1 \in 1 .. Len(s)
  BY <1>2
<1>5. s = <<>> => 1 .. Len(s) = {}
  BY <1>2
<1> QED
  BY <1>1, <1>2, <1>3, <1>4, <1>5

\* Two lists from one place agree as far as the first goes.
LEMMA SameSteps ==
  ASSUME NEW nx, NEW h, NEW s, NEW t, IsList(nx, h, s), IsList(nx, h, t)
  PROVE  \A i \in 1 .. Len(s) : i \in 1 .. Len(t) /\ s[i] = t[i]
<1> DEFINE Good(i) == i \in 1 .. Len(t) /\ s[i] = t[i]
           Bad == {i \in 1 .. Len(s) : ~Good(i)}
<1>1. /\ Len(s) \in Nat /\ Len(t) \in Nat /\ none \notin Proc
      /\ \A i \in 1 .. Len(s) : s[i] \in Proc
      /\ \A i \in 1 .. Len(t) : t[i] \in Proc
  BY OnList, ProcAssumption DEF IsList
<1>2. SUFFICES ASSUME Bad # {} PROVE FALSE
  OBVIOUS
<1>3. Bad \in SUBSET Nat
  BY <1>1
<1> HIDE DEF Bad
<1>4. PICK i \in Bad : \A j \in Bad : i <= j
  BY <1>2, <1>3, Least
<1>5. i \in 1 .. Len(s) /\ ~Good(i)
  BY <1>4 DEF Bad
<1>6. CASE i = 1
  <2>1. h = s[1] /\ s[1] # none
    BY <1>1, <1>5, <1>6 DEF IsList
  <2>2. Len(t) # 0 /\ t[1] = h
    BY <2>1 DEF IsList
  <2> QED
    BY <1>1, <1>5, <1>6, <2>1, <2>2
<1>7. CASE i # 1
  <2>1. i - 1 \in 1 .. Len(s) /\ i - 1 # Len(s) /\ ~(i <= i - 1) /\ i - 1 + 1 = i
    BY <1>1, <1>5, <1>7
  <2>2. Good(i - 1)
    BY <1>4, <2>1 DEF Bad
  <2>3. nx[s[i - 1]] = s[i] /\ s[i] # none
    BY <1>1, <1>5, <2>1 DEF IsList
  <2>4. i - 1 # Len(t) /\ t[i] = s[i]
    BY <2>1, <2>2, <2>3 DEF IsList
  <2> QED
    BY <1>1, <1>5, <2>2, <2>4
<1> QED
  BY <1>6, <1>7

LEMMA OneList ==
  ASSUME NEW nx, NEW h, NEW s, NEW t, IsList(nx, h, s), IsList(nx, h, t)
  PROVE  s = t
<1>1. /\ s \in Seq(Proc) /\ t \in Seq(Proc) /\ Len(s) \in Nat /\ Len(t) \in Nat
  BY OnList DEF IsList
<1>2. /\ \A i \in 1 .. Len(s) : i \in 1 .. Len(t) /\ s[i] = t[i]
      /\ \A i \in 1 .. Len(t) : i \in 1 .. Len(s) /\ t[i] = s[i]
  BY SameSteps
<1>3. Len(s) = Len(t)
  <2>1. Len(s) > 0 => Len(s) \in 1 .. Len(t)
    BY <1>1, <1>2
  <2>2. Len(t) > 0 => Len(t) \in 1 .. Len(s)
    BY <1>1, <1>2
  <2> QED
    BY <1>1, <2>1, <2>2
<1> QED
  BY <1>1, <1>2, <1>3, SeqEqual

\* The list from a process is the process and the list from the next.
LEMMA ListOn ==
  ASSUME NEW nx, NEW p \in Proc, NEW t, IsList(nx, nx[p], t)
  PROVE  IsList(nx, p, <<p>> \o t)
<1> DEFINE s == <<p>> \o t
<1>1. /\ t \in Seq(Proc) /\ Len(t) \in Nat /\ none \notin Proc
      /\ nx[p] = IF Len(t) = 0 THEN none ELSE t[1]
      /\ \A i \in 1 .. Len(t) : nx[t[i]] = IF i = Len(t) THEN none ELSE t[i + 1]
  BY OnList, ProcAssumption DEF IsList
<1>2. <<p>> \in Seq(Proc) /\ Len(<<p>>) = 1 /\ <<p>>[1] = p
  OBVIOUS
<1>3. /\ s \in Seq(Proc) /\ Len(s) = Len(t) + 1
      /\ \A i \in 1 .. Len(t) + 1 : s[i] = IF i <= 1 THEN <<p>>[i] ELSE t[i - 1]
  BY <1>1, <1>2, ConcatProperties
<1> HIDE DEF s
<1>4. s[1] = p /\ \A i \in 2 .. Len(s) : s[i] = t[i - 1] /\ i - 1 \in 1 .. Len(t)
  BY <1>1, <1>2, <1>3
<1>5. ASSUME NEW i \in 1 .. Len(s) PROVE nx[s[i]] = IF i = Len(s) THEN none ELSE s[i + 1]
  <2>1. CASE i = 1
    BY <1>1, <1>3, <1>4, <2>1
  <2>2. CASE i # 1
    <3>1. i \in 2 .. Len(s) /\ (i # Len(s) => i + 1 \in 2 .. Len(s) /\ i + 1 - 1 = i - 1 + 1)
      BY <1>1, <1>3, <2>2
    <3>2. nx[t[i - 1]] = IF i - 1 = Len(t) THEN none ELSE t[i - 1 + 1]
      BY <1>1, <1>4, <3>1
    <3> QED
      BY <1>1, <1>3, <1>4, <3>1, <3>2
  <2> QED
    BY <2>1, <2>2
<1>6. IsList(nx, p, s)
  BY <1>1, <1>3, <1>4, <1>5 DEF IsList
<1> QED
  BY <1>6 DEF s

\* What is left of a list behind its first process is the list from the next.
LEMMA ListBehind ==
  ASSUME NEW nx, NEW h, NEW s, IsList(nx, h, s), Len(s) # 0
  PROVE  /\ h \in Proc /\ h = s[1] /\ s = <<h>> \o Tail(s)
         /\ IsList(nx, nx[h], Tail(s)) /\ Len(Tail(s)) = Len(s) - 1
<1> DEFINE t == Tail(s)
<1>1. /\ s \in Seq(Proc) /\ Len(s) \in Nat /\ s # <<>> /\ h = s[1] /\ h \in Proc
      /\ \A i \in 1 .. Len(s) : nx[s[i]] = IF i = Len(s) THEN none ELSE s[i + 1]
  <2>1. s \in Seq(Proc) /\ h = s[1]
    BY DEF IsList
  <2>2. Len(s) \in Nat /\ 1 \in 1 .. Len(s)
    BY <2>1, OnList
  <2> QED
    BY <2>1, <2>2, OnList DEF IsList
<1>2. /\ t \in Seq(Proc) /\ Len(t) = Len(s) - 1 /\ Len(t) \in Nat
      /\ \A i \in 1 .. Len(t) : t[i] = s[i + 1] /\ i + 1 \in 1 .. Len(s)
  <2>1. t \in Seq(Proc) /\ Len(t) = Len(s) - 1 /\ \A i \in 1 .. Len(t) : t[i] = s[i + 1]
    BY <1>1, HeadTailProperties
  <2>2. Len(t) \in Nat
    BY <2>1, OnList
  <2> HIDE DEF t
  <2> QED
    BY <1>1, <2>1, <2>2
<1> HIDE DEF t
<1>3. nx[h] = IF Len(t) = 0 THEN none ELSE t[1]
  BY <1>1, <1>2
<1>4. ASSUME NEW i \in 1 .. Len(t) PROVE nx[t[i]] = IF i = Len(t) THEN none ELSE t[i + 1]
  <2>1. i # Len(t) => i + 1 \in 1 .. Len(t)
    BY <1>2
  <2> QED
    BY <1>1, <1>2, <2>1
<1>5. IsList(nx, nx[h], t)
  BY <1>2, <1>3, <1>4 DEF IsList
<1>6. s = <<h>> \o t
  <2>1. IsList(nx, h, <<h>> \o t)
    BY <1>1, <1>5, ListOn
  <2> QED
    BY <2>1, OneList
<1> QED
  BY <1>1, <1>2, <1>5, <1>6 DEF t

\* From every process on a list there is a list.
LEMMA ListFrom ==
  ASSUME NEW nx, NEW h, NEW s, IsList(nx, h, s), NEW k \in 1 .. Len(s)
  PROVE  \E t : IsList(nx, s[k], t)
<1> DEFINE n == Len(s) - k + 1
           t == [i \in 1 .. n |-> s[i + k - 1]]
<1>1. /\ s \in Seq(Proc) /\ Len(s) \in Nat /\ \A i \in 1 .. Len(s) : s[i] \in Proc
      /\ \A i \in 1 .. Len(s) : nx[s[i]] = IF i = Len(s) THEN none ELSE s[i + 1]
  BY OnList DEF IsList
<1>2. n \in Nat /\ n # 0 /\ \A i \in 1 .. n : i + k - 1 \in 1 .. Len(s) /\ (i + k - 1 = Len(s) <=> i = n)
  BY <1>1
<1> HIDE DEF n
<1>3. t \in [1 .. n -> Proc]
  BY <1>1, <1>2
<1>4. t \in Seq(Proc) /\ Len(t) = n /\ \A i \in 1 .. n : t[i] = s[i + k - 1]
  BY <1>2, <1>3, FunIsSeq
<1> HIDE DEF t
<1>5. t[1] = s[k]
  BY <1>1, <1>2, <1>4
<1>6. ASSUME NEW i \in 1 .. n PROVE nx[t[i]] = IF i = n THEN none ELSE t[i + 1]
  <2>1. i # n => i + 1 \in 1 .. n /\ i + 1 + k - 1 = i + k - 1 + 1
    BY <1>2
  <2> QED
    BY <1>1, <1>2, <1>4, <2>1
<1>7. IsList(nx, s[k], t)
  BY <1>2, <1>4, <1>5, <1>6 DEF IsList
<1> QED
  BY <1>7

\* The next of each process in its group.
nxt == [p \in Proc |-> proc[p].pgrpnxt]

\* Members() follows a list to its end, as lists do end.
LEMMA MembersAre ==
  ASSUME \A p \in Proc : \E t : IsList(nxt, p, t),
         NEW g, NEW s, IsList(nxt, pgrp[g].mem, s)
  PROVE  Members(g) = s
<1> DEFINE Dom == Proc \cup {none}
           Alongs(e) == e = [p \in Dom |-> IF p = none THEN <<>> ELSE <<p>> \o e[proc[p].pgrpnxt]]
           f == [p \in Dom |-> IF p = none THEN <<>> ELSE CHOOSE t : IsList(nxt, p, t)]
<1>1. none \notin Proc /\ \A p \in Proc : nxt[p] = proc[p].pgrpnxt
  BY ProcAssumption DEF nxt
<1>2. PICK nx : nx = nxt
  OBVIOUS
<1>3. IsList(nx, none, <<>>)
  <2>1. <<>> \in Seq(Proc) /\ Len(<<>>) = 0
    BY EmptySeq
  <2>2. \A i \in 1 .. 0 : FALSE
    OBVIOUS
  <2> QED
    BY <2>1, <2>2 DEF IsList
<1>4. ASSUME NEW p \in Dom PROVE IsList(nx, p, f[p])
  <2>1. CASE p = none
    BY <1>3, <2>1
  <2>2. CASE p # none
    <3>1. p \in Proc /\ f[p] = CHOOSE t : IsList(nxt, p, t)
      BY <2>2
    <3> QED
      BY <1>2, <3>1
  <2> QED
    BY <2>1, <2>2
<1>5. f[none] = <<>> /\ f = [p \in Dom |-> f[p]]
  OBVIOUS
<1> HIDE DEF f
<1>6. ASSUME NEW p \in Proc PROVE nx[p] \in Dom /\ f[p] = <<p>> \o f[nx[p]]
  <2>1. IsList(nx, p, f[p]) /\ p # none
    BY <1>1, <1>4
  <2>2. Len(f[p]) # 0
    BY <2>1 DEF IsList
  <2>3. IsList(nx, nx[p], Tail(f[p]))
    BY <2>1, <2>2, ListBehind
  <2>4. nx[p] \in Dom
    <3>1. CASE Len(Tail(f[p])) = 0
      BY <2>3, <3>1 DEF IsList
    <3>2. CASE Len(Tail(f[p])) # 0
      BY <2>3, <3>2, ListBehind
    <3> QED
      BY <3>1, <3>2
  <2>5. IsList(nx, p, <<p>> \o f[nx[p]])
    BY <1>4, <2>4, ListOn
  <2> QED
    BY <2>1, <2>4, <2>5, OneList
<1>7. Alongs(f)
  BY <1>1, <1>2, <1>5, <1>6
<1>8. Alongs(CHOOSE e : Alongs(e))
  <2> HIDE DEF Alongs
  <2> QED
    BY <1>7
<1>9. PICK e : e = CHOOSE x : Alongs(x)
  OBVIOUS
<1>10. e[none] = <<>> /\ \A p \in Proc : nx[p] \in Dom => e[p] = <<p>> \o e[nx[p]]
  <2>1. e = [p \in Dom |-> IF p = none THEN <<>> ELSE <<p>> \o e[proc[p].pgrpnxt]]
    BY <1>8, <1>9
  <2> QED
    BY <1>1, <1>2, <2>1
<1>11. \A h, t : IsList(nx, h, t) => e[h] = t
  <2> DEFINE Bad == {n \in Nat : \E h, t : IsList(nx, h, t) /\ Len(t) = n /\ e[h] # t}
  <2>1. SUFFICES ASSUME Bad # {} PROVE FALSE
    <3> SUFFICES ASSUME NEW h, NEW t, IsList(nx, h, t), e[h] # t PROVE Bad # {}
      BY DEF Bad
    <3>1. Len(t) \in Nat
      BY OnList DEF IsList
    <3> QED
      BY <3>1
  <2>2. Bad \in SUBSET Nat
    OBVIOUS
  <2>3. PICK n \in Bad : \A m \in Bad : n <= m
    <3> HIDE DEF Bad
    <3> QED
      BY <2>1, <2>2, Least
  <2>4. PICK h, t : IsList(nx, h, t) /\ Len(t) = n /\ e[h] # t
    BY <2>3
  <2>5. CASE n = 0
    <3>1. h = none /\ t = <<>>
      BY <2>4, <2>5, OnList DEF IsList
    <3> QED
      BY <1>10, <2>4, <3>1
  <2>6. CASE n # 0
    <3>1. /\ h \in Proc /\ t = <<h>> \o Tail(t)
          /\ IsList(nx, nx[h], Tail(t)) /\ Len(Tail(t)) = n - 1
      BY <2>4, <2>6, ListBehind
    <3>2. n - 1 \in Nat /\ ~(n <= n - 1)
      BY <2>3, <2>6
    <3>3. e[nx[h]] = Tail(t)
      BY <2>3, <3>1, <3>2
    <3>4. e[h] = <<h>> \o e[nx[h]]
      BY <1>6, <1>10, <3>1
    <3> QED
      BY <2>4, <3>1, <3>3, <3>4
  <2> QED
    BY <2>5, <2>6
<1>12. Members(g) = e[pgrp[g].mem]
  BY <1>9 DEF Members
<1>13. IsList(nx, pgrp[g].mem, s)
  BY <1>2
<1> QED
  BY <1>11, <1>12, <1>13

\* The processes of set S are on the list from h, each once.
ListOf(nx, h, S) == \E s : IsList(nx, h, s) /\ Once(s) /\ Range(s) = S

\* A list is not touched by changes elsewhere.
LEMMA ListKept ==
  ASSUME NEW nx, NEW m, NEW h, NEW S, ListOf(nx, h, S), \A p \in S : m[p] = nx[p]
  PROVE  ListOf(m, h, S)
<1>1. PICK s : IsList(nx, h, s) /\ Once(s) /\ Range(s) = S
  BY DEF ListOf
<1>2. \A i \in 1 .. Len(s) : m[s[i]] = nx[s[i]]
  BY <1>1, OnList DEF IsList
<1>3. IsList(m, h, s)
  BY <1>1, <1>2 DEF IsList
<1> QED
  BY <1>1, <1>3 DEF ListOf

\* h is on the list, if there is one.
LEMMA ListHead ==
  ASSUME NEW nx, NEW h, NEW S, ListOf(nx, h, S)
  PROVE  /\ S \in SUBSET Proc /\ (S = {} <=> h = none) /\ (h # none => h \in S)
         /\ \A p \in S : nx[p] \in S \cup {none}
<1>1. PICK s : IsList(nx, h, s) /\ Once(s) /\ Range(s) = S
  BY DEF ListOf
<1>2. /\ Len(s) \in Nat /\ \A i \in 1 .. Len(s) : s[i] \in Proc
      /\ \A p : p \in S <=> \E i \in 1 .. Len(s) : s[i] = p
      /\ Len(s) = 0 <=> S = {}
      /\ S \in SUBSET Proc /\ none \notin Proc
  BY <1>1, OnList, ProcAssumption DEF IsList
<1>3. Len(s) # 0 => 1 \in 1 .. Len(s)
  BY <1>2
<1>4. ASSUME NEW p \in S PROVE nx[p] \in S \cup {none}
  <2>1. PICK i \in 1 .. Len(s) : s[i] = p
    BY <1>2
  <2>2. nx[p] = IF i = Len(s) THEN none ELSE s[i + 1]
    BY <1>1, <2>1 DEF IsList
  <2>3. i # Len(s) => i + 1 \in 1 .. Len(s)
    BY <1>2
  <2> QED
    BY <1>2, <2>2, <2>3
<1> QED
  BY <1>1, <1>2, <1>3, <1>4 DEF IsList

\* p comes to the head of the list.
LEMMA ListPushed ==
  ASSUME NEW nx, NEW m, NEW h, NEW S, ListOf(nx, h, S), NEW p \in Proc \ S,
         m[p] = h, \A q \in S : m[q] = nx[q]
  PROVE  ListOf(m, p, S \cup {p})
<1>1. ListOf(m, m[p], S)
  BY ListKept
<1>2. PICK s : IsList(m, m[p], s) /\ Once(s) /\ Range(s) = S
  BY <1>1 DEF ListOf
<1> DEFINE t == <<p>> \o s
<1>3. IsList(m, p, t)
  BY <1>2, ListOn
<1>4. s \in Seq(Proc) /\ t \in Seq(Proc)
  BY <1>2, <1>3 DEF IsList
<1>5. <<p>> \in Seq(Proc) /\ Len(<<p>>) = 1 /\ <<p>>[1] = p
  OBVIOUS
<1>6. /\ Len(s) \in Nat /\ Len(t) = Len(s) + 1
      /\ \A i \in 1 .. Len(s) + 1 : t[i] = IF i <= 1 THEN <<p>>[i] ELSE s[i - 1]
  BY <1>4, <1>5, ConcatProperties, OnList
<1> HIDE DEF t
<1>7. /\ t[1] = p /\ 1 \in 1 .. Len(t)
      /\ \A i \in 1 .. Len(t) : i # 1 => i - 1 \in 1 .. Len(s) /\ t[i] = s[i - 1]
      /\ \A i \in 1 .. Len(s) : i + 1 \in 1 .. Len(t) /\ t[i + 1] = s[i]
  <2>1. \A i \in 1 .. Len(t) : i # 1 => i - 1 \in 1 .. Len(s) /\ t[i] = s[i - 1]
    BY <1>6
  <2>2. \A i \in 1 .. Len(s) : i + 1 \in 1 .. Len(t) /\ t[i + 1] = s[i]
    BY <1>6
  <2> QED
    BY <1>5, <1>6, <2>1, <2>2
<1>8. \A i \in 1 .. Len(s) : s[i] # p
  BY <1>2, <1>4, OnList
<1>9. Once(t)
  <2> SUFFICES ASSUME NEW i \in 1 .. Len(t), NEW j \in 1 .. Len(t), t[i] = t[j] PROVE i = j
    BY DEF Once
  <2>1. CASE i = 1 \/ j = 1
    BY <1>7, <1>8, <2>1
  <2>2. CASE i # 1 /\ j # 1
    <3>1. i - 1 = j - 1
      BY <1>2, <1>7, <2>2 DEF Once
    <3> QED
      BY <1>6, <3>1
  <2> QED
    BY <2>1, <2>2
<1>10. Range(t) = S \cup {p}
  <2>1. \A q : q \in Range(t) <=> q \in S \/ q = p
    <3>1. \A q : q \in Range(t) <=> \E i \in 1 .. Len(t) : t[i] = q
      BY <1>4, OnList
    <3>2. \A q : q \in S <=> \E i \in 1 .. Len(s) : s[i] = q
      BY <1>2, <1>4, OnList
    <3>3. ASSUME NEW q, q \in Range(t) PROVE q \in S \/ q = p
      <4>1. PICK i \in 1 .. Len(t) : t[i] = q
        BY <3>1, <3>3
      <4> QED
        BY <1>7, <3>2, <4>1
    <3>4. ASSUME NEW q \in S PROVE q \in Range(t)
      <4>1. PICK i \in 1 .. Len(s) : s[i] = q
        BY <3>2
      <4> QED
        BY <1>7, <3>1, <4>1
    <3>5. p \in Range(t)
      BY <1>7, <3>1
    <3> QED
      BY <3>3, <3>4, <3>5
  <2> QED
    BY <2>1
<1> QED
  BY <1>3, <1>9, <1>10 DEF ListOf

\* p leaves the list.
LEMMA ListRemoved ==
  ASSUME NEW nx, NEW m, NEW h, NEW S, ListOf(nx, h, S), NEW p \in S,
         \A q \in S \ {p} : m[q] = IF nx[q] = p THEN nx[p] ELSE nx[q]
  PROVE  /\ ListOf(m, IF h = p THEN nx[p] ELSE h, S \ {p})
         /\ h = p /\ nx[p] = none <=> S = {p}
<1>1. PICK s : IsList(nx, h, s) /\ Once(s) /\ Range(s) = S
  BY DEF ListOf
<1>2. /\ s \in Seq(Proc) /\ Len(s) \in Nat /\ \A i \in 1 .. Len(s) : s[i] \in Proc /\ s[i] # none
      /\ \A q : q \in S <=> \E i \in 1 .. Len(s) : s[i] = q
      /\ \A i, j \in 1 .. Len(s) : s[i] = s[j] => i = j
      /\ h = IF Len(s) = 0 THEN none ELSE s[1]
      /\ \A i \in 1 .. Len(s) : nx[s[i]] = IF i = Len(s) THEN none ELSE s[i + 1]
  BY <1>1, OnList, ProcAssumption DEF IsList, Once
<1>3. PICK k \in 1 .. Len(s) : s[k] = p
  BY <1>2
<1> DEFINE n == Len(s) - 1
           at(i) == IF i < k THEN i ELSE i + 1
           t == [i \in 1 .. n |-> s[at(i)]]
           g == IF h = p THEN nx[p] ELSE h
<1>4. /\ n \in Nat /\ Len(s) = n + 1 /\ k \in 1 .. n + 1
      /\ \A i \in 1 .. n : at(i) \in 1 .. Len(s) /\ at(i) # k
  BY <1>2, <1>3
<1>5. t \in [1 .. n -> Proc]
  BY <1>2, <1>4
<1> HIDE DEF n
<1>6. t \in Seq(Proc) /\ Len(t) = n /\ \A i \in 1 .. n : t[i] = s[at(i)]
  <2>1. \A i \in 1 .. n : t[i] = s[at(i)]
    OBVIOUS
  <2> HIDE DEF t
  <2> QED
    BY <1>4, <1>5, <2>1, FunIsSeq
<1> HIDE DEF t
<1>7. \A i \in 1 .. n : t[i] = IF i < k THEN s[i] ELSE s[i + 1]
  BY <1>6
<1>8. g = IF Len(t) = 0 THEN none ELSE t[1]
  <2>1. h = s[1] /\ 1 \in 1 .. Len(s)
    BY <1>2, <1>4
  <2>2. CASE k = 1
    <3>0. h = p /\ s[1] = p
      BY <1>3, <2>1, <2>2
    <3>1. h = p /\ nx[p] = IF 1 = Len(s) THEN none ELSE s[1 + 1]
      BY <1>2, <2>1, <3>0
    <3> QED
      BY <1>4, <1>6, <1>7, <2>2, <3>1
  <2>3. CASE k # 1
    <3>1. h # p /\ n # 0 /\ 1 \in 1 .. n /\ 1 < k
      BY <1>2, <1>3, <1>4, <2>1, <2>3
    <3> QED
      BY <1>6, <1>7, <2>1, <3>1
  <2> QED
    BY <2>2, <2>3
<1>9. ASSUME NEW i \in 1 .. n PROVE m[t[i]] = IF i = n THEN none ELSE t[i + 1]
  <2>1. \A j \in 1 .. Len(s) : j # k => s[j] \in S \ {p}
    BY <1>2, <1>3
  <2>2. CASE i < k - 1
    <3>1. /\ i \in 1 .. Len(s) /\ i # k /\ i # Len(s) /\ i < k /\ i + 1 < k /\ i # n
          /\ i + 1 \in 1 .. Len(s) /\ i + 1 \in 1 .. n /\ i + 1 # k
      BY <1>4, <2>2
    <3>2. nx[s[i]] = s[i + 1] /\ s[i + 1] # p
      BY <1>2, <2>1, <3>1
    <3>3. m[s[i]] = s[i + 1]
      BY <2>1, <3>1, <3>2
    <3> QED
      BY <1>7, <3>1, <3>3
  <2>3. CASE i = k - 1
    <3>1. /\ i \in 1 .. Len(s) /\ i # k /\ i # Len(s) /\ i < k /\ i + 1 = k
      BY <1>4, <2>3
    <3>2. nx[s[i]] = p
      BY <1>2, <1>3, <3>1
    <3>3. m[s[i]] = nx[p]
      BY <2>1, <3>1, <3>2
    <3>4. nx[p] = IF k = Len(s) THEN none ELSE s[k + 1]
      BY <1>2, <1>3
    <3>5. k = Len(s) <=> i = n
      BY <1>4, <3>1
    <3>6. i # n => i + 1 \in 1 .. n /\ ~(i + 1 < k) /\ i + 1 + 1 = k + 1
      BY <1>4, <3>1
    <3> QED
      BY <1>7, <3>1, <3>3, <3>4, <3>5, <3>6
  <2>4. CASE i > k - 1
    <3>1. /\ i + 1 \in 1 .. Len(s) /\ i + 1 # k /\ ~(i < k) /\ ~(i + 1 < k)
          /\ i + 1 = Len(s) <=> i = n
          /\ i # n => i + 1 \in 1 .. n /\ i + 1 + 1 \in 1 .. Len(s) /\ i + 1 + 1 # k
      BY <1>4, <2>4
    <3>2. /\ nx[s[i + 1]] = (IF i = n THEN none ELSE s[i + 1 + 1])
          /\ nx[s[i + 1]] # p
      BY <1>2, <1>3, <2>1, <3>1
    <3>3. m[s[i + 1]] = nx[s[i + 1]]
      BY <2>1, <3>1, <3>2
    <3> QED
      BY <1>7, <3>1, <3>2, <3>3
  <2> QED
    BY <1>4, <2>2, <2>3, <2>4
<1>10. Once(t)
  <2> SUFFICES ASSUME NEW i \in 1 .. Len(t), NEW j \in 1 .. Len(t), t[i] = t[j] PROVE i = j
    BY DEF Once
  <2>1. at(i) = at(j)
    BY <1>2, <1>4, <1>6
  <2> QED
    BY <1>3, <1>4, <1>6, <2>1
<1>11. Range(t) = S \ {p}
  <2>1. ASSUME NEW q, q \in Range(t) PROVE q \in S \ {p}
    <3>1. PICK i \in 1 .. Len(t) : t[i] = q
      BY <1>6, <2>1, OnList
    <3> QED
      BY <1>2, <1>3, <1>4, <1>6, <3>1
  <2>2. ASSUME NEW q \in S \ {p} PROVE q \in Range(t)
    <3>1. PICK j \in 1 .. Len(s) : s[j] = q
      BY <1>2
    <3>2. j # k
      BY <1>3, <3>1
    <3>3. CASE j < k
      <4>1. j \in 1 .. n /\ t[j] = s[j]
        BY <1>4, <1>7, <3>3
      <4> QED
        BY <1>6, <3>1, <4>1, OnList
    <3>4. CASE j > k
      <4>1. j - 1 \in 1 .. n /\ ~(j - 1 < k) /\ j - 1 + 1 = j
        BY <1>4, <3>4
      <4>2. t[j - 1] = s[j]
        BY <1>7, <4>1
      <4> QED
        BY <1>6, <3>1, <4>1, <4>2, OnList
    <3> QED
      BY <1>4, <3>2, <3>3, <3>4
  <2> QED
    BY <2>1, <2>2
<1>12. IsList(m, g, t)
  BY <1>6, <1>8, <1>9 DEF IsList
<1>13. h = p /\ nx[p] = none <=> S = {p}
  <2>1. h = s[1] /\ 1 \in 1 .. Len(s)
    BY <1>2, <1>4
  <2>2. ASSUME h = p, nx[p] = none PROVE S = {p}
    <3>1. k = 1 /\ k = Len(s)
      <4>1. k = 1
        BY <1>2, <1>3, <2>1, <2>2
      <4>2. k # Len(s) => k + 1 \in 1 .. Len(s)
        BY <1>2
      <4> QED
        BY <1>2, <1>3, <2>2, <4>1, <4>2
    <3>2. Len(s) = 1 /\ k = 1 /\ \A i \in 1 .. 1 : i = 1
      BY <3>1
    <3>3. \A q : q \in S <=> \E i \in 1 .. 1 : s[i] = q
      BY <1>2, <3>2
    <3>4. \A q : q \in S <=> q = p
      BY <1>3, <3>2, <3>3
    <3> QED
      BY <3>4
  <2>3. ASSUME S = {p} PROVE h = p /\ nx[p] = none
    <3>1. \A i \in 1 .. Len(s) : i = k
      BY <1>2, <1>3, <2>3
    <3>2. k = 1 /\ k = Len(s)
      BY <1>4, <2>1, <3>1
    <3> QED
      BY <1>2, <1>3, <2>1, <3>2
  <2> QED
    BY <2>2, <2>3
<1> HIDE DEF g
<1>14. ListOf(m, g, S \ {p})
  BY <1>10, <1>11, <1>12 DEF ListOf
<1> QED
  BY <1>13, <1>14 DEF g

\* c comes behind p.
LEMMA ListInserted ==
  ASSUME NEW nx, NEW m, NEW h, NEW S, ListOf(nx, h, S), NEW p \in S, NEW c \in Proc \ S,
         m[p] = c, m[c] = nx[p], \A q \in S \ {p} : m[q] = nx[q]
  PROVE  ListOf(m, h, S \cup {c})
<1>1. PICK s : IsList(nx, h, s) /\ Once(s) /\ Range(s) = S
  BY DEF ListOf
<1>2. /\ s \in Seq(Proc) /\ Len(s) \in Nat /\ \A i \in 1 .. Len(s) : s[i] \in Proc /\ s[i] # none
      /\ \A q : q \in S <=> \E i \in 1 .. Len(s) : s[i] = q
      /\ \A i, j \in 1 .. Len(s) : s[i] = s[j] => i = j
      /\ h = IF Len(s) = 0 THEN none ELSE s[1]
      /\ \A i \in 1 .. Len(s) : nx[s[i]] = IF i = Len(s) THEN none ELSE s[i + 1]
  BY <1>1, OnList, ProcAssumption DEF IsList, Once
<1>3. PICK k \in 1 .. Len(s) : s[k] = p
  BY <1>2
<1> DEFINE n == Len(s) + 1
           t == [i \in 1 .. n |-> IF i <= k THEN s[i] ELSE IF i = k + 1 THEN c ELSE s[i - 1]]
<1>4. /\ n \in Nat /\ n = Len(s) + 1 /\ k \in 1 .. n - 1
      /\ \A i \in 1 .. n : i <= k => i \in 1 .. Len(s)
      /\ \A i \in 1 .. n : ~(i <= k) /\ i # k + 1 => i - 1 \in 1 .. Len(s) /\ i - 1 > k
  BY <1>2, <1>3
<1>5. t \in [1 .. n -> Proc]
  BY <1>2, <1>4
<1>6. /\ t \in Seq(Proc) /\ Len(t) = n
      /\ \A i \in 1 .. n : t[i] = IF i <= k THEN s[i] ELSE IF i = k + 1 THEN c ELSE s[i - 1]
  BY <1>4, <1>5, FunIsSeq
<1> HIDE DEF n, t
<1>7. h = IF Len(t) = 0 THEN none ELSE t[1]
  BY <1>2, <1>4, <1>6
<1>8. \A j \in 1 .. Len(s) : s[j] \in S /\ (j # k => s[j] # p)
  BY <1>2, <1>3
<1>9. ASSUME NEW i \in 1 .. n PROVE m[t[i]] = IF i = n THEN none ELSE t[i + 1]
  <2>1. CASE i < k
    <3>1. /\ i \in 1 .. Len(s) /\ i # k /\ i # Len(s) /\ i <= k /\ i + 1 <= k /\ i # n
          /\ i + 1 \in 1 .. n
      BY <1>4, <2>1
    <3>2. m[s[i]] = s[i + 1]
      BY <1>2, <1>8, <3>1
    <3> QED
      BY <1>6, <3>1, <3>2
  <2>2. CASE i = k
    <3>1. i <= k /\ i # n /\ i + 1 \in 1 .. n /\ ~(i + 1 <= k)
      BY <1>4, <2>2
    <3> QED
      BY <1>3, <1>6, <2>2, <3>1
  <2>3. CASE i = k + 1
    <3>1. /\ ~(i <= k) /\ (i = n <=> k = Len(s))
          /\ i # n => i + 1 \in 1 .. n /\ ~(i + 1 <= k) /\ i + 1 # k + 1 /\ i + 1 - 1 = k + 1
      BY <1>4, <2>3
    <3>2. t[i] = c /\ m[c] = IF k = Len(s) THEN none ELSE s[k + 1]
      BY <1>2, <1>3, <1>6, <2>3, <3>1
    <3> QED
      BY <1>6, <3>1, <3>2
  <2>4. CASE i > k + 1
    <3>1. /\ ~(i <= k) /\ i # k + 1 /\ i - 1 \in 1 .. Len(s) /\ i - 1 # k
          /\ (i = n <=> i - 1 = Len(s)) /\ i - 1 + 1 = i
          /\ i # n => i + 1 \in 1 .. n /\ ~(i + 1 <= k) /\ i + 1 # k + 1 /\ i + 1 - 1 = i
      BY <1>4, <2>4
    <3>2. t[i] = s[i - 1] /\ m[s[i - 1]] = IF i = n THEN none ELSE s[i]
      <4>1. t[i] = s[i - 1]
        BY <1>6, <3>1
      <4>2. m[s[i - 1]] = nx[s[i - 1]]
        BY <1>8, <3>1
      <4>3. nx[s[i - 1]] = IF i - 1 = Len(s) THEN none ELSE s[i - 1 + 1]
        BY <1>2, <3>1
      <4> QED
        BY <3>1, <4>1, <4>2, <4>3
    <3> QED
      BY <1>6, <3>1, <3>2
  <2> QED
    BY <1>4, <2>1, <2>2, <2>3, <2>4
<1>10. Once(t)
  <2> SUFFICES ASSUME NEW i \in 1 .. Len(t), NEW j \in 1 .. Len(t), t[i] = t[j] PROVE i = j
    BY DEF Once
  <2>1. \A x \in 1 .. n : x # k + 1 => t[x] \in S
    BY <1>4, <1>6, <1>8
  <2>2. k + 1 \in 1 .. n /\ t[k + 1] = c
    BY <1>4, <1>6
  <2>3. CASE i = k + 1 \/ j = k + 1
    BY <1>6, <2>1, <2>2, <2>3
  <2>4. CASE i # k + 1 /\ j # k + 1
    <3>1. \A x \in 1 .. n : x # k + 1 => t[x] = IF x <= k THEN s[x] ELSE s[x - 1]
      BY <1>6
    <3>2. PICK x \in 1 .. Len(s) : t[i] = s[x] /\ x = IF i <= k THEN i ELSE i - 1
      BY <1>4, <1>6, <2>4, <3>1
    <3>3. PICK y \in 1 .. Len(s) : t[j] = s[y] /\ y = IF j <= k THEN j ELSE j - 1
      BY <1>4, <1>6, <2>4, <3>1
    <3>4. x = y
      BY <1>1, <3>2, <3>3 DEF Once
    <3> QED
      BY <1>4, <1>6, <2>4, <3>2, <3>3, <3>4
  <2> QED
    BY <2>3, <2>4
<1>11. Range(t) = S \cup {c}
  <2>1. ASSUME NEW q, q \in Range(t) PROVE q \in S \cup {c}
    <3>1. PICK i \in 1 .. Len(t) : t[i] = q
      BY <1>6, <2>1, OnList
    <3> QED
      BY <1>4, <1>6, <1>8, <3>1
  <2>2. ASSUME NEW q \in S \cup {c} PROVE q \in Range(t)
    <3>1. CASE q = c
      <4>1. k + 1 \in 1 .. n /\ t[k + 1] = c
        BY <1>4, <1>6
      <4> QED
        BY <1>6, <3>1, <4>1, OnList
    <3>2. CASE q \in S
      <4>1. PICK j \in 1 .. Len(s) : s[j] = q
        BY <1>2, <3>2
      <4>2. CASE j <= k
        <5>1. j \in 1 .. n /\ t[j] = s[j]
          BY <1>4, <1>6, <4>2
        <5> QED
          BY <1>6, <4>1, <5>1, OnList
      <4>3. CASE j > k
        <5>1. j + 1 \in 1 .. n /\ ~(j + 1 <= k) /\ j + 1 # k + 1 /\ j + 1 - 1 = j
          BY <1>4, <4>3
        <5>2. t[j + 1] = s[j]
          BY <1>6, <5>1
        <5> QED
          BY <1>6, <4>1, <5>1, <5>2, OnList
      <4> QED
        BY <1>4, <4>2, <4>3
    <3> QED
      BY <3>1, <3>2
  <2> QED
    BY <2>1, <2>2
<1>12. IsList(m, h, t)
  BY <1>6, <1>7, <1>9 DEF IsList
<1> QED
  BY <1>10, <1>11, <1>12 DEF ListOf
-----------------------------------------------------------------------------
(* The search for a run of pids.                                           *)

\* A state of the search.
IsSearch(st) ==
  /\ st = [next |-> st.next, checked |-> st.checked, retry |-> st.retry]
  /\ st.next \in Int /\ st.checked \in Int /\ st.retry \in BOOLEAN

\* The run that a state of the search stands for has neither number of an entry.
Clear(st, r) == \A x \in {r.pid, r.pgid} : ~(st.next < x /\ x < st.checked)

\* What an entry does to the search.
LEMMA LookedIs ==
  ASSUME NEW st, IsSearch(st), NEW r, r.pid \in Int, r.pgid \in Int
  PROVE  /\ st.retry => Looked(st, r) = st
         /\ ~st.retry /\ st.next < st.checked =>
              /\ IsSearch(Looked(st, r))
              /\ \/ Looked(st, r).next = st.next
                 \/ Looked(st, r).next = st.next + 1 /\ st.next \in {r.pid, r.pgid}
              /\ Looked(st, r).checked <= st.checked
              /\ Looked(st, r).retry =>
                   Looked(st, r).next = st.next + 1 /\ Looked(st, r).next >= Looked(st, r).checked
              /\ ~Looked(st, r).retry =>
                   Looked(st, r).next < Looked(st, r).checked /\ Clear(Looked(st, r), r)
<1> DEFINE n == IF r.pid = st.next \/ r.pgid = st.next THEN st.next + 1 ELSE st.next
           above == {x \in {r.pid, r.pgid} : n < x /\ x < st.checked}
           least == CHOOSE x \in above : \A y \in above : x <= y
           t == Looked(st, r)
<1>1. t = IF st.retry THEN st
          ELSE IF n # st.next /\ n >= st.checked THEN [st EXCEPT !.next = n, !.retry = TRUE]
          ELSE [st EXCEPT !.next = n, !.checked = IF above = {} THEN @ ELSE least]
  BY DEF Looked
<1>2. SUFFICES ASSUME ~st.retry, st.next < st.checked
               PROVE  /\ IsSearch(t)
                      /\ \/ t.next = st.next
                         \/ t.next = st.next + 1 /\ st.next \in {r.pid, r.pgid}
                      /\ t.checked <= st.checked
                      /\ t.retry => t.next = st.next + 1 /\ t.next >= t.checked
                      /\ ~t.retry => t.next < t.checked /\ Clear(t, r)
  BY <1>1
<1>3. /\ n \in Int /\ st.next \in Int /\ st.checked \in Int /\ st.retry = FALSE
      /\ n = st.next \/ (n = st.next + 1 /\ st.next \in {r.pid, r.pgid})
  BY <1>2 DEF IsSearch
<1>4. \A x \in above : x \in {r.pid, r.pgid} /\ x \in Int /\ n < x /\ x < st.checked
  OBVIOUS
<1>5. \A x \in {r.pid, r.pgid} : n < x /\ x < st.checked => x \in above
  OBVIOUS
<1>6. above # {} => \E x \in above : \A y \in above : x <= y
  <2>1. CASE r.pid \in above /\ r.pgid \in above
    <3>1. \A y \in above : y = r.pid \/ y = r.pgid
      BY <1>4
    <3> HIDE DEF above
    <3>2. r.pid <= r.pgid \/ r.pgid <= r.pid
      OBVIOUS
    <3>3. r.pid <= r.pid /\ r.pgid <= r.pgid
      OBVIOUS
    <3> QED
      BY <2>1, <3>1, <3>2, <3>3
  <2>2. CASE r.pid \in above /\ r.pgid \notin above
    <3>1. \A y \in above : y = r.pid
      BY <1>4, <2>2
    <3> HIDE DEF above
    <3> QED
      BY <2>2, <3>1
  <2>3. CASE r.pid \notin above /\ r.pgid \in above
    <3>1. \A y \in above : y = r.pgid
      BY <1>4, <2>3
    <3> HIDE DEF above
    <3> QED
      BY <2>3, <3>1
  <2>4. r.pid \in above \/ r.pgid \in above \/ above = {}
    BY <1>4
  <2> QED
    BY <2>1, <2>2, <2>3, <2>4
<1> HIDE DEF above
<1>7. above # {} => least \in above /\ \A y \in above : least <= y
  BY <1>6
<1> HIDE DEF n, least, t
<1>8. CASE n # st.next /\ n >= st.checked
  <2>1. t = [st EXCEPT !.next = n, !.retry = TRUE]
    BY <1>1, <1>2, <1>8
  <2>2. /\ t = [next |-> n, checked |-> st.checked, retry |-> TRUE]
        /\ t.next = n /\ t.checked = st.checked /\ t.retry = TRUE
    BY <2>1 DEF IsSearch
  <2> QED
    BY <1>3, <1>8, <2>2 DEF IsSearch
<1>9. CASE ~(n # st.next /\ n >= st.checked)
  <2> DEFINE c == IF above = {} THEN st.checked ELSE least
  <2>1. t = [st EXCEPT !.next = n, !.checked = c]
    BY <1>1, <1>2, <1>9
  <2>2. c \in Int /\ c <= st.checked /\ n < c
    BY <1>2, <1>3, <1>4, <1>7, <1>9
  <2>3. \A x \in {r.pid, r.pgid} : ~(n < x /\ x < c)
    BY <1>3, <1>4, <1>5, <1>7
  <2> HIDE DEF c
  <2>4. /\ t = [next |-> n, checked |-> c, retry |-> FALSE]
        /\ t.next = n /\ t.checked = c /\ t.retry = FALSE
    BY <1>3, <2>1 DEF IsSearch
  <2>5. IsSearch(t) /\ Clear(t, r)
    BY <1>3, <2>2, <2>3, <2>4 DEF IsSearch, Clear
  <2> QED
    BY <1>3, <2>2, <2>4, <2>5
<1> QED
  BY <1>8, <1>9

\* The outcome t of a scan from n on that has met the processes S.
Outcome(t, n, S) ==
  /\ IsSearch(t) /\ n <= t.next /\ t.next <= PID_MAX /\ t.checked <= PID_MAX
  /\ t.retry => t.next >= n + 1 /\ t.next >= t.checked
  /\ ~t.retry => t.next < t.checked /\ \A p \in S : Clear(t, proc[p])

\* One more process is met.
LEMMA OutcomeStep ==
  ASSUME NEW st, NEW n \in Int, NEW S, Outcome(st, n, S), PID_MAX \in Int,
         NEW p, \A q \in S \cup {p} : proc[q].pid \in Int /\ proc[q].pgid \in Int
  PROVE  /\ Outcome(Looked(st, proc[p]), n, S \cup {p})
         /\ \A f \in Int : f \notin {proc[p].pid, proc[p].pgid} /\ st.next <= f
                             => Looked(st, proc[p]).next <= f
<1>1. PICK r : r = proc[p]
  OBVIOUS
<1>2. PICK t : t = Looked(st, r)
  OBVIOUS
<1>3. /\ IsSearch(st) /\ n <= st.next /\ st.next <= PID_MAX /\ st.checked <= PID_MAX
      /\ st.retry => st.next >= n + 1 /\ st.next >= st.checked
      /\ ~st.retry => st.next < st.checked /\ \A q \in S : Clear(st, proc[q])
      /\ st.next \in Int /\ st.checked \in Int /\ r.pid \in Int /\ r.pgid \in Int
  BY <1>1 DEF Outcome, IsSearch
<1>4. CASE st.retry
  <2>1. t = st
    BY <1>2, <1>3, <1>4, LookedIs
  <2> QED
    BY <1>1, <1>2, <1>3, <1>4, <2>1 DEF Outcome
<1>5. CASE ~st.retry
  <2>1. /\ IsSearch(t)
        /\ t.next = st.next \/ (t.next = st.next + 1 /\ st.next \in {r.pid, r.pgid})
        /\ t.checked <= st.checked
        /\ t.retry => t.next = st.next + 1 /\ t.next >= t.checked
        /\ ~t.retry => t.next < t.checked /\ Clear(t, r)
    BY <1>2, <1>3, <1>5, LookedIs
  <2>2. t.next \in Int /\ t.checked \in Int /\ st.next < st.checked
    BY <1>3, <1>5, <2>1 DEF IsSearch
  <2>3. n <= t.next /\ t.next <= PID_MAX /\ t.checked <= PID_MAX
    BY <1>3, <2>1, <2>2
  <2>4. t.retry => t.next >= n + 1 /\ t.next >= t.checked
    BY <1>3, <2>1, <2>2
  <2>5. ASSUME ~t.retry, NEW q \in S \cup {p} PROVE Clear(t, proc[q])
    <3>1. CASE q = p
      BY <1>1, <2>1, <2>5, <3>1
    <3>2. CASE q # p
      <4>1. \A x \in {proc[q].pid, proc[q].pgid} : ~(st.next < x /\ x < st.checked)
        BY <1>3, <1>5, <2>5, <3>2 DEF Clear
      <4> SUFFICES ASSUME NEW x \in {proc[q].pid, proc[q].pgid}, t.next < x, x < t.checked
                   PROVE  FALSE
        BY DEF Clear
      <4>2. x \in Int
        BY <3>2
      <4>3. st.next <= t.next /\ t.checked <= st.checked
        BY <1>3, <2>1, <2>2
      <4>4. st.next < x /\ x < st.checked
        BY <1>3, <2>2, <4>2, <4>3
      <4> QED
        BY <4>1, <4>4
    <3> QED
      BY <3>1, <3>2
  <2>6. Outcome(t, n, S \cup {p})
    BY <2>1, <2>3, <2>4, <2>5 DEF Outcome
  <2>7. \A f \in Int : f \notin {r.pid, r.pgid} /\ st.next <= f => t.next <= f
    BY <1>3, <2>1, <2>2
  <2> QED
    BY <1>1, <1>2, <2>6, <2>7
<1> QED
  BY <1>4, <1>5

\* A scan ends behind n with a run that is clear of all it met, or at the end of a run;
\* it does not pass a number that nobody has.
LEMMA ScanIs ==
  ASSUME NEW o \in Seq(Proc), NEW n \in Int, PID_MAX \in Int, n < PID_MAX,
         \A p \in Range(o) : proc[p].pid \in Int /\ proc[p].pgid \in Int
  PROVE  /\ Outcome(Scan(o, n), n, Range(o))
         /\ \A f \in Int : n <= f /\ (\A p \in Range(o) : f \notin {proc[p].pid, proc[p].pgid})
                             => Scan(o, n).next <= f
<1> DEFINE first == [next |-> n, checked |-> PID_MAX, retry |-> FALSE]
           Scans(e, m) == e = [i \in 0 .. m |-> IF i = 0 THEN first ELSE Looked(e[i - 1], proc[o[i]])]
           S(i) == {o[j] : j \in 1 .. i}
<1>1. /\ Len(o) \in Nat /\ \A p : p \in Range(o) <=> \E i \in 1 .. Len(o) : o[i] = p
  BY OnList
<1>2. PICK fst : fst = first
  OBVIOUS
<1>3. Outcome(fst, n, {}) /\ fst.next = n
  BY <1>2 DEF Outcome, IsSearch
<1>4. \A m \in 0 .. Len(o) : \E e : Scans(e, m)
  <2> DEFINE Bad == {m \in 0 .. Len(o) : ~\E e : Scans(e, m)}
  <2>1. SUFFICES ASSUME Bad # {} PROVE FALSE
    OBVIOUS
  <2>2. Bad \in SUBSET Nat
    BY <1>1
  <2>3. PICK m \in Bad : \A k \in Bad : m <= k
    <3> HIDE DEF Bad
    <3> QED
      BY <2>1, <2>2, Least
  <2>4. m \in 0 .. Len(o) /\ \A e : ~Scans(e, m)
    OBVIOUS
  <2>5. CASE m = 0
    <3> DEFINE e == [i \in 0 .. 0 |-> fst]
    <3>1. Scans(e, 0)
      <4>1. \A i \in 0 .. 0 : i = 0
        OBVIOUS
      <4> HIDE DEF first
      <4> QED
        BY <1>2, <4>1
    <3> QED
      BY <2>4, <2>5, <3>1
  <2>6. CASE m # 0
    <3>1. m - 1 \in 0 .. Len(o) /\ ~(m <= m - 1) /\ m \in Nat
      BY <1>1, <2>4, <2>6
    <3>2. PICK e : Scans(e, m - 1)
      BY <2>3, <3>1
    <3> DEFINE g == [i \in 0 .. m |-> IF i < m THEN e[i] ELSE Looked(e[m - 1], proc[o[m]])]
    <3> HIDE DEF first
    <3>3. \A i \in 0 .. m - 1 : e[i] = IF i = 0 THEN first ELSE Looked(e[i - 1], proc[o[i]])
      BY <3>2
    <3>4. ASSUME NEW i \in 0 .. m
          PROVE  g[i] = IF i = 0 THEN first ELSE Looked(g[i - 1], proc[o[i]])
      <4>1. CASE i = 0
        <5>1. g[0] = e[0] /\ 0 \in 0 .. m - 1
          BY <2>6, <3>1
        <5> QED
          BY <3>3, <4>1, <5>1
      <4>2. CASE i # 0 /\ i < m
        <5>1. g[i] = e[i] /\ g[i - 1] = e[i - 1] /\ i \in 0 .. m - 1
          BY <3>1, <4>2
        <5> QED
          BY <3>3, <4>2, <5>1
      <4>3. CASE i = m
        <5>1. g[m] = Looked(e[m - 1], proc[o[m]]) /\ g[m - 1] = e[m - 1]
          BY <2>6, <3>1
        <5> QED
          BY <2>6, <4>3, <5>1
      <4> QED
        BY <3>1, <4>1, <4>2, <4>3
    <3>5. g = [i \in 0 .. m |-> g[i]]
      OBVIOUS
    <3> HIDE DEF g
    <3>6. Scans(g, m)
      BY <3>4, <3>5
    <3> QED
      BY <2>4, <3>6
  <2> QED
    BY <2>5, <2>6
<1>5. PICK e : e = CHOOSE x : Scans(x, Len(o))
  OBVIOUS
<1>6. Scans(e, Len(o))
  <2>1. \E x : Scans(x, Len(o))
    BY <1>1, <1>4
  <2> HIDE DEF Scans
  <2> QED
    BY <1>5, <2>1
<1>7. Scan(o, n) = e[Len(o)]
  BY <1>5 DEF Scan
<1>8. e[0] = fst /\ \A i \in 1 .. Len(o) : e[i] = Looked(e[i - 1], proc[o[i]])
  <2> HIDE DEF first
  <2> QED
    BY <1>1, <1>2, <1>6
<1> HIDE DEF first, Scans
<1> DEFINE Good(i) == /\ Outcome(e[i], n, S(i))
                      /\ \A f \in Int : n <= f /\ (\A p \in Range(o) : f \notin {proc[p].pid, proc[p].pgid})
                                          => e[i].next <= f
<1>9. \A i \in 0 .. Len(o) : Good(i)
  <2> DEFINE Bad == {i \in 0 .. Len(o) : ~Good(i)}
  <2> HIDE DEF Good
  <2>1. SUFFICES ASSUME Bad # {} PROVE FALSE
    OBVIOUS
  <2>2. Bad \in SUBSET Nat
    BY <1>1
  <2>3. PICK i \in Bad : \A k \in Bad : i <= k
    <3> HIDE DEF Bad
    <3> QED
      BY <2>1, <2>2, Least
  <2>4. i \in 0 .. Len(o) /\ ~Good(i)
    OBVIOUS
  <2>5. CASE i = 0
    <3>1. S(0) = {}
      OBVIOUS
    <3> HIDE DEF S
    <3> QED
      BY <1>3, <1>8, <2>4, <2>5, <3>1 DEF Good
  <2>6. CASE i # 0
    <3>1. i - 1 \in 0 .. Len(o) /\ ~(i <= i - 1) /\ i \in 1 .. Len(o)
      BY <1>1, <2>4, <2>6
    <3>2. Good(i - 1)
      BY <2>3, <3>1
    <3>3. S(i) = S(i - 1) \cup {o[i]}
      <4>1. \A j : j \in 1 .. i <=> j \in 1 .. (i - 1) \/ j = i
        BY <1>1, <3>1
      <4> QED
        BY <4>1
    <3>4. S(i) \in SUBSET Range(o) /\ o[i] \in Range(o)
      <4>1. \A j \in 1 .. i : j \in 1 .. Len(o)
        BY <1>1, <3>1
      <4> QED
        BY <1>1, <3>1, <4>1
    <3> HIDE DEF S
    <3>5. \A q \in S(i - 1) \cup {o[i]} : proc[q].pid \in Int /\ proc[q].pgid \in Int
      BY <3>3, <3>4
    <3>6. PICK st : st = e[i - 1]
      OBVIOUS
    <3>7. e[i] = Looked(st, proc[o[i]])
      BY <1>8, <3>1, <3>6
    <3>8. Outcome(st, n, S(i - 1))
      BY <3>2, <3>6 DEF Good
    <3>9. /\ Outcome(Looked(st, proc[o[i]]), n, S(i - 1) \cup {o[i]})
          /\ \A f \in Int : f \notin {proc[o[i]].pid, proc[o[i]].pgid} /\ st.next <= f
                              => Looked(st, proc[o[i]]).next <= f
      BY <3>5, <3>8, OutcomeStep
    <3>10. Outcome(e[i], n, S(i))
      BY <3>3, <3>7, <3>9
    <3>11. \A f \in Int : n <= f /\ (\A p \in Range(o) : f \notin {proc[p].pid, proc[p].pgid})
                            => e[i].next <= f
      BY <3>2, <3>4, <3>6, <3>7, <3>9 DEF Good
    <3>12. Good(i)
      BY <3>10, <3>11 DEF Good
    <3> QED
      BY <2>4, <3>12
  <2> QED
    BY <2>5, <2>6
<1>10. Good(Len(o))
  <2> HIDE DEF Good
  <2> QED
    BY <1>1, <1>9
<1>11. S(Len(o)) = Range(o)
  BY <1>1
<1> HIDE DEF S
<1> QED
  BY <1>7, <1>10, <1>11

\* What a search has come to after k tries, when nobody has the number f.
Searched(st, k, f, S) ==
  /\ IsSearch(st) /\ FirstPid <= st.next /\ st.next <= PID_MAX /\ st.checked <= PID_MAX
  /\ ~st.retry => st.next < st.checked /\ \A p \in S : Clear(st, proc[p])
  /\ st.retry => /\ st.next >= st.checked
                 /\ st.next >= k + 1 \/ (st.next <= f /\ st.next >= k + 1 - PID_MAX)

LEMMA TriedIs ==
  ASSUME NEW o \in Seq(Proc), NEW f \in FirstPid .. PID_MAX - 1,
         \A p \in Range(o) : proc[p].pid \in Int /\ proc[p].pgid \in Int,
         \A p \in Range(o) : f \notin {proc[p].pid, proc[p].pgid},
         NEW st, NEW k \in Nat, Searched(st, k, f, Range(o))
  PROVE  Searched(Tried(o, st), k + 1, f, Range(o))
<1>1. PID_MAX \in Nat /\ FirstPid \in Nat /\ FirstPid > 0 /\ f \in Int /\ FirstPid <= f /\ f < PID_MAX
  BY ProcAssumption
<1>2. /\ IsSearch(st) /\ FirstPid <= st.next /\ st.next <= PID_MAX /\ st.checked <= PID_MAX
      /\ st.next \in Int /\ st.checked \in Int /\ st.retry \in BOOLEAN
      /\ st.retry => /\ st.next >= st.checked
                     /\ st.next >= k + 1 \/ (st.next <= f /\ st.next >= k + 1 - PID_MAX)
  BY DEF Searched, IsSearch
<1>3. CASE ~st.retry
  <2>1. Tried(o, st) = st
    BY <1>3 DEF Tried
  <2> QED
    BY <1>3, <2>1 DEF Searched
<1>4. CASE st.retry
  <2>1. PICK n : n = IF st.next >= PID_MAX THEN FirstPid ELSE st.next
    OBVIOUS
  <2>2. PICK w : w = Wrapped(st.next, st.checked)
    OBVIOUS
  <2>3. w.next = n /\ ~(w.next < w.checked)
    BY <1>1, <1>2, <1>4, <2>1, <2>2 DEF Wrapped
  <2>4. Tried(o, st) = Scan(o, n)
    BY <1>4, <2>2, <2>3 DEF Tried
  <2>5. n \in Int /\ n < PID_MAX /\ FirstPid <= n
    BY <1>1, <1>2, <2>1
  <2>6. PICK t : t = Scan(o, n)
    OBVIOUS
  <2>7. Outcome(t, n, Range(o)) /\ (n <= f => t.next <= f)
    BY <1>1, <2>5, <2>6, ScanIs
  <2>8. /\ IsSearch(t) /\ n <= t.next /\ t.next <= PID_MAX /\ t.checked <= PID_MAX
        /\ t.next \in Int /\ t.checked \in Int
        /\ t.retry => t.next >= n + 1 /\ t.next >= t.checked
        /\ ~t.retry => t.next < t.checked /\ \A p \in Range(o) : Clear(t, proc[p])
    BY <2>7 DEF Outcome, IsSearch
  <2>9. FirstPid <= t.next
    BY <1>1, <2>5, <2>8
  <2>10. ASSUME t.retry
         PROVE  t.next >= k + 1 + 1 \/ (t.next <= f /\ t.next >= k + 1 + 1 - PID_MAX)
    <3>1. t.next >= n + 1
      BY <2>8, <2>10
    <3>2. CASE st.next >= PID_MAX
      <4>1. n = FirstPid /\ t.next <= f
        BY <1>1, <2>1, <2>7, <3>2
      <4>2. PID_MAX >= k + 1
        BY <1>1, <1>2, <1>4, <3>2
      <4> QED
        BY <1>1, <2>8, <3>1, <4>1, <4>2
    <3>3. CASE ~(st.next >= PID_MAX)
      <4>1. n = st.next
        BY <2>1, <3>3
      <4>2. CASE st.next >= k + 1
        BY <1>2, <2>8, <3>1, <4>1, <4>2
      <4>3. CASE st.next <= f /\ st.next >= k + 1 - PID_MAX
        BY <1>1, <1>2, <2>7, <2>8, <3>1, <4>1, <4>3
      <4> QED
        BY <1>2, <1>4, <4>2, <4>3
    <3> QED
      BY <3>2, <3>3
  <2>11. Searched(t, k + 1, f, Range(o))
    BY <2>8, <2>9, <2>10 DEF Searched
  <2> QED
    BY <2>4, <2>6, <2>11
<1> QED
  BY <1>2, <1>3, <1>4

\* The search ends, with a pid and a run that is clear of everybody.
LEMMA SearchIs ==
  ASSUME NEW o \in Seq(Proc), NEW f \in FirstPid .. PID_MAX - 1,
         \A p \in Range(o) : proc[p].pid \in Int /\ proc[p].pgid \in Int,
         \A p \in Range(o) : f \notin {proc[p].pid, proc[p].pgid},
         nextpid \in FirstPid .. PID_MAX - 1, pidchecked \in 0 .. PID_MAX, nextpid + 1 >= pidchecked
  PROVE  /\ IsSearch(Search(o)) /\ FirstPid <= Search(o).next /\ Search(o).next < Search(o).checked
         /\ Search(o).checked <= PID_MAX
         /\ \A p \in Range(o) : Clear(Search(o), proc[p])
<1> DEFINE first == [next |-> nextpid + 1, checked |-> pidchecked, retry |-> TRUE]
           N == 2 * PID_MAX
           Tries(e, m) == e = [i \in 0 .. m |-> IF i = 0 THEN first ELSE Tried(o, e[i - 1])]
<1>1. PID_MAX \in Nat /\ FirstPid \in Nat /\ FirstPid > 0 /\ f < PID_MAX /\ f \in Int /\ N \in Nat
  BY ProcAssumption
<1>2. PICK fst : fst = first
  OBVIOUS
<1>3. Searched(fst, 0, f, Range(o))
  <2>1. /\ IsSearch(fst) /\ fst.next = nextpid + 1 /\ fst.checked = pidchecked /\ fst.retry = TRUE
    BY <1>1, <1>2 DEF IsSearch
  <2>2. /\ FirstPid <= fst.next /\ fst.next <= PID_MAX /\ fst.checked <= PID_MAX
        /\ fst.next >= fst.checked /\ fst.next >= 0 + 1
    BY <1>1, <2>1
  <2> QED
    BY <2>1, <2>2 DEF Searched
<1>4. \A m \in 0 .. N : \E e : Tries(e, m)
  <2> DEFINE Bad == {m \in 0 .. N : ~\E e : Tries(e, m)}
  <2>1. SUFFICES ASSUME Bad # {} PROVE FALSE
    OBVIOUS
  <2>2. Bad \in SUBSET Nat
    BY <1>1
  <2>3. PICK m \in Bad : \A k \in Bad : m <= k
    <3> HIDE DEF Bad
    <3> QED
      BY <2>1, <2>2, Least
  <2>4. m \in 0 .. N /\ \A e : ~Tries(e, m)
    OBVIOUS
  <2> HIDE DEF N
  <2>5. CASE m = 0
    <3> DEFINE e == [i \in 0 .. 0 |-> fst]
    <3>1. Tries(e, 0)
      <4>1. \A i \in 0 .. 0 : i = 0
        OBVIOUS
      <4> HIDE DEF first
      <4> QED
        BY <1>2, <4>1
    <3> QED
      BY <2>4, <2>5, <3>1
  <2>6. CASE m # 0
    <3>1. m - 1 \in 0 .. N /\ ~(m <= m - 1) /\ m \in Nat
      BY <1>1, <2>4, <2>6
    <3>2. PICK e : Tries(e, m - 1)
      BY <2>3, <3>1
    <3> DEFINE g == [i \in 0 .. m |-> IF i < m THEN e[i] ELSE Tried(o, e[m - 1])]
    <3> HIDE DEF first
    <3>3. \A i \in 0 .. m - 1 : e[i] = IF i = 0 THEN first ELSE Tried(o, e[i - 1])
      BY <3>2
    <3>4. ASSUME NEW i \in 0 .. m
          PROVE  g[i] = IF i = 0 THEN first ELSE Tried(o, g[i - 1])
      <4>1. CASE i = 0
        <5>1. g[0] = e[0] /\ 0 \in 0 .. m - 1
          BY <2>6, <3>1
        <5> QED
          BY <3>3, <4>1, <5>1
      <4>2. CASE i # 0 /\ i < m
        <5>1. g[i] = e[i] /\ g[i - 1] = e[i - 1] /\ i \in 0 .. m - 1
          BY <3>1, <4>2
        <5> QED
          BY <3>3, <4>2, <5>1
      <4>3. CASE i = m
        <5>1. g[m] = Tried(o, e[m - 1]) /\ g[m - 1] = e[m - 1]
          BY <2>6, <3>1
        <5> QED
          BY <2>6, <4>3, <5>1
      <4> QED
        BY <3>1, <4>1, <4>2, <4>3
    <3>5. g = [i \in 0 .. m |-> g[i]]
      OBVIOUS
    <3> HIDE DEF g
    <3>6. Tries(g, m)
      BY <3>4, <3>5
    <3> QED
      BY <2>4, <3>6
  <2> QED
    BY <2>5, <2>6
<1>5. PICK e : e = CHOOSE x : Tries(x, N)
  OBVIOUS
<1>6. Tries(e, N)
  <2> HIDE DEF Tries, N
  <2>1. \E x : Tries(x, N)
    BY <1>1, <1>4
  <2> QED
    BY <1>5, <2>1
<1>7. Search(o) = e[N]
  BY <1>5 DEF Search
<1>8. e[0] = fst /\ \A i \in 1 .. N : e[i] = Tried(o, e[i - 1])
  <2> HIDE DEF first, N
  <2> QED
    BY <1>1, <1>2, <1>6
<1>9. N = PID_MAX + PID_MAX
  BY <1>1
<1> HIDE DEF first, N, Tries
<1>10. \A i \in 0 .. N : Searched(e[i], i, f, Range(o))
  <2> DEFINE Bad == {i \in 0 .. N : ~Searched(e[i], i, f, Range(o))}
  <2>1. SUFFICES ASSUME Bad # {} PROVE FALSE
    OBVIOUS
  <2>2. Bad \in SUBSET Nat
    BY <1>1
  <2>3. PICK i \in Bad : \A k \in Bad : i <= k
    <3> HIDE DEF Bad
    <3> QED
      BY <2>1, <2>2, Least
  <2>4. i \in 0 .. N /\ ~Searched(e[i], i, f, Range(o))
    OBVIOUS
  <2>5. CASE i = 0
    BY <1>3, <1>8, <2>4, <2>5
  <2>6. CASE i # 0
    <3>1. /\ i - 1 \in 0 .. N /\ i - 1 \in Nat /\ ~(i <= i - 1) /\ i \in 1 .. N /\ i - 1 + 1 = i
      BY <1>1, <2>4, <2>6
    <3>2. Searched(e[i - 1], i - 1, f, Range(o))
      BY <2>3, <3>1
    <3>3. Searched(Tried(o, e[i - 1]), i - 1 + 1, f, Range(o))
      BY <3>1, <3>2, TriedIs
    <3> QED
      BY <1>8, <2>4, <3>1, <3>3
  <2> QED
    BY <2>5, <2>6
<1>11. PICK t : t = e[N]
  OBVIOUS
<1>12. Searched(t, N, f, Range(o))
  BY <1>1, <1>10, <1>11
<1>13. /\ IsSearch(t) /\ FirstPid <= t.next /\ t.next <= PID_MAX /\ t.checked <= PID_MAX
       /\ t.next \in Int /\ t.checked \in Int /\ t.retry \in BOOLEAN
       /\ ~t.retry => t.next < t.checked /\ \A p \in Range(o) : Clear(t, proc[p])
       /\ t.retry => t.next >= N + 1 \/ (t.next <= f /\ t.next >= N + 1 - PID_MAX)
  BY <1>12 DEF Searched, IsSearch
<1>14. ~t.retry
  BY <1>1, <1>9, <1>13
<1> QED
  BY <1>7, <1>11, <1>13, <1>14
-----------------------------------------------------------------------------
(* The invariant of the groups and of the numbers.                         *)

\* The processes of group g.
Of(g) == {p \in Proc : proc[p].stat # "free" /\ proc[p].pgid = g}

\* init has number 1, and nobody else a number that small.
Numbers ==
  /\ proc[init].pid = 1 /\ proc[init].pgid = 1 /\ proc[init].stat # "free" /\ nextpid >= FirstPid
  /\ \A p \in Proc \ {init} : proc[p].stat # "free" =>
       proc[p].pid \in FirstPid .. PID_MAX - 1 /\ proc[p].pgid \in FirstPid .. PID_MAX - 1

\* The list of a group has its processes, and there is nothing to a group without any.
Lists ==
  /\ \A g \in Pid : /\ ListOf(nxt, pgrp[g].mem, Of(g))
                    /\ Exists(g) <=> Of(g) # {}
                    /\ ~Exists(g) => pgrp[g] = NoGroup
  /\ \A p \in Proc : proc[p].stat = "free" => proc[p].pgrpnxt = none

\* The sessions ss count the groups, whose sessions are gs, and a session without any is gone.
Counts(ss, gs) ==
  \A s \in Session : /\ ss[s].count = Cardinality({g \in Pid : gs[g] = s})
                     /\ ss[s].count = 0 => ss[s] = NoSession

\* init has its session to itself.
InitAlone == \A g \in Pid : sessions[g] = sessions[1] => g = 1

\* The processes that JobcExact counts for group g.
Quals(g) ==
  {p \in Proc : /\ proc[p].stat \notin {"free", "SZOMB"} /\ proc[p].pgid = g
                /\ proc[p].pptr # none
                /\ proc[proc[p].pptr].pgid # g
                /\ SessionOf(proc[p].pptr) = pgrp[g].session}
JobcInv == \A g \in Pid : Exists(g) => pgrp[g].jobc = Cardinality(Quals(g))

GroupInv ==
  TypeOK /\ Numbers /\ Lists /\ Counts(session, sessions) /\ InitAlone /\ RunUnused /\ JobcInv
-----------------------------------------------------------------------------
(* What the invariant says of a state.                                     *)

LEMMA Constants ==
  /\ FirstPid \in Nat /\ FirstPid > 1 /\ PID_MAX \in Nat /\ FirstPid < PID_MAX
  /\ 1 \in Pid /\ Pid \in SUBSET Int /\ FirstPid .. PID_MAX - 1 \in SUBSET Pid /\ 1 \notin FirstPid .. PID_MAX - 1
  /\ init \in Proc /\ none \notin Proc /\ none \notin Session /\ IsFiniteSet(Proc)
<1>1. /\ FirstPid \in Nat /\ FirstPid > 1 /\ PID_MAX \in Nat
      /\ init \in Proc /\ none \notin Proc /\ none \notin Session /\ IsFiniteSet(Proc)
  BY ProcAssumption
<1>2. FirstPid < PID_MAX
  BY ProcAssumption
<1> QED
  BY <1>1, <1>2 DEF Pid

LEMMA Facts ==
  ASSUME GroupInv
  PROVE  /\ nextpid \in FirstPid .. PID_MAX - 1 /\ pidchecked \in 0 .. PID_MAX /\ nextpid \in Int
         /\ \A p \in Proc : proc[p].pid \in Int /\ proc[p].pgid \in Int
         /\ \A p \in Proc : proc[p].stat # "free" => proc[p].pid \in Pid /\ proc[p].pgid \in Pid
         /\ \A p \in Proc : proc[p].stat # "free" => p \in Of(proc[p].pgid) /\ Exists(proc[p].pgid)
         /\ \A p \in Proc : proc[p].stat # "free" => SessionOf(p) \in Session
         /\ \A g \in Pid : sessions[g] = pgrp[g].session /\ jobcs[g] = pgrp[g].jobc
         /\ \A g \in Pid : IsFiniteSet(Of(g))
<1>1. TypeOK /\ Numbers /\ Lists
  BY DEF GroupInv
<1>2. nextpid \in FirstPid .. PID_MAX - 1 /\ pidchecked \in 0 .. PID_MAX /\ nextpid \in Int
  BY <1>1, Constants DEF TypeOK, Numbers, Pid
<1>3. \A p \in Proc : proc[p].pid \in Int /\ proc[p].pgid \in Int
  BY <1>1, Constants DEF TypeOK, Pid
<1>4. \A p \in Proc : proc[p].stat # "free" => proc[p].pid \in Pid /\ proc[p].pgid \in Pid
  BY <1>1, Constants DEF Numbers
<1>5. \A p \in Proc : proc[p].stat # "free" => p \in Of(proc[p].pgid) /\ Exists(proc[p].pgid)
  <2>1. \A p \in Proc : proc[p].stat # "free" => p \in Of(proc[p].pgid)
    BY DEF Of
  <2> QED
    BY <1>1, <1>4, <2>1 DEF Lists
<1>6. \A p \in Proc : proc[p].stat # "free" => SessionOf(p) \in Session
  <2> SUFFICES ASSUME NEW p \in Proc, proc[p].stat # "free" PROVE SessionOf(p) \in Session
    OBVIOUS
  <2>1. PICK g : g = proc[p].pgid
    OBVIOUS
  <2>2. g \in Pid /\ pgrp[g].session # none
    BY <1>4, <1>5, <2>1 DEF Exists
  <2>3. pgrp[g].session \in Session \cup {none}
    BY <1>1, <2>2 DEF TypeOK
  <2> QED
    BY <2>1, <2>2, <2>3 DEF SessionOf
<1>7. \A g \in Pid : sessions[g] = pgrp[g].session /\ jobcs[g] = pgrp[g].jobc
  BY DEF sessions, jobcs
<1>8. \A g \in Pid : IsFiniteSet(Of(g))
  <2> SUFFICES ASSUME NEW g \in Pid PROVE IsFiniteSet(Of(g))
    OBVIOUS
  <2>1. Of(g) \in SUBSET Proc
    BY DEF Of
  <2> QED
    BY <2>1, Constants, FS_Subset
<1> QED
  BY <1>2, <1>3, <1>4, <1>5, <1>6, <1>7, <1>8

\* From everybody there is a list, and Members() is the list of its group.
LEMMA GroupList ==
  ASSUME GroupInv, NEW g \in Pid
  PROVE  /\ Range(Members(g)) = Of(g)
         /\ Len(Members(g)) = Cardinality(Of(g))
         /\ Members(g) = <<>> <=> Of(g) = {}
<1>1. TypeOK /\ Lists
  BY DEF GroupInv
<1>2. PICK nx : nx = nxt
  OBVIOUS
<1>3. ASSUME NEW p \in Proc PROVE \E t : IsList(nx, p, t)
  <2>1. CASE proc[p].stat = "free"
    <3>1. nx[p] = none
      BY <1>1, <1>2, <2>1 DEF Lists, nxt
    <3>2. IsList(nx, nx[p], <<>>)
      <4>1. <<>> \in Seq(Proc) /\ Len(<<>>) = 0
        BY EmptySeq
      <4>2. \A i \in 1 .. 0 : FALSE
        OBVIOUS
      <4> QED
        BY <3>1, <4>1, <4>2 DEF IsList
    <3> QED
      BY <3>2, ListOn
  <2>2. CASE proc[p].stat # "free"
    <3>1. PICK h : h = proc[p].pgid
      OBVIOUS
    <3>2. h \in Pid /\ p \in Of(h)
      BY <2>2, <3>1, Facts
    <3>3. PICK s : IsList(nx, pgrp[h].mem, s) /\ Range(s) = Of(h)
      BY <1>1, <1>2, <3>2 DEF Lists, ListOf
    <3>4. PICK k \in 1 .. Len(s) : s[k] = p
      BY <3>2, <3>3, OnList DEF IsList
    <3> QED
      BY <3>3, <3>4, ListFrom
  <2> QED
    BY <2>1, <2>2
<1>4. PICK s : IsList(nxt, pgrp[g].mem, s) /\ Once(s) /\ Range(s) = Of(g)
  BY <1>1 DEF Lists, ListOf
<1>5. Members(g) = s
  BY <1>2, <1>3, <1>4, MembersAre
<1>6. /\ s \in Seq(Proc) /\ Len(s) \in Nat /\ DOMAIN s = 1 .. Len(s)
      /\ s = <<>> <=> Range(s) = {}
      /\ s \in [1 .. Len(s) -> Proc]
      /\ \A p : p \in Range(s) <=> \E i \in 1 .. Len(s) : s[i] = p
  BY <1>4, OnList, LenProperties DEF IsList
<1>7. s \in Bijection(1 .. Len(s), Range(s))
  <2>1. s \in [1 .. Len(s) -> Range(s)]
    BY <1>6
  <2>2. \A i, j \in 1 .. Len(s) : s[i] = s[j] => i = j
    BY <1>4 DEF Once
  <2>3. \A p \in Range(s) : \E i \in 1 .. Len(s) : s[i] = p
    BY <1>6
  <2>4. s \in Injection(1 .. Len(s), Range(s))
    BY <2>1, <2>2 DEF Injection, IsInjective
  <2>5. s \in Surjection(1 .. Len(s), Range(s))
    BY <2>1, <2>3 DEF Surjection
  <2> QED
    BY <2>4, <2>5 DEF Bijection
<1>8. Cardinality(Range(s)) = Len(s)
  <2>1. IsFiniteSet(1 .. Len(s)) /\ Cardinality(1 .. Len(s)) = Len(s)
    <3>1. PICK n : n = Len(s)
      OBVIOUS
    <3>2. n \in Int /\ n >= 0
      BY <1>6, <3>1
    <3>3. IsFiniteSet(1 .. n) /\ Cardinality(1 .. n) = IF 1 > n THEN 0 ELSE n - 1 + 1
      BY <3>2, FS_Interval
    <3> QED
      BY <3>1, <3>2, <3>3
  <2>2. ExistsBijection(1 .. Len(s), Range(s))
    BY <1>7 DEF ExistsBijection
  <2> QED
    BY <2>1, <2>2, FS_Bijection
<1> QED
  BY <1>4, <1>5, <1>6, <1>8

\* The values of a function on a finite set are no more than its arguments.
LEMMA ImageSize ==
  ASSUME NEW S, IsFiniteSet(S), NEW f, f = [x \in S |-> f[x]]
  PROVE  IsFiniteSet({f[x] : x \in S}) /\ Cardinality({f[x] : x \in S}) <= Cardinality(S)
<1> DEFINE T == {f[x] : x \in S}
<1>1. f \in [S -> T] /\ \A y \in T : \E x \in S : f[x] = y
  OBVIOUS
<1> HIDE DEF T
<1>2. f \in Surjection(S, T)
  BY <1>1 DEF Surjection
<1>3. IsFiniteSet(T) /\ Cardinality(T) <= Cardinality(S)
  BY <1>2, FS_Surjection
<1> QED
  BY <1>3 DEF T

\* When a process may be made, some number for it belongs to nobody.
LEMMA FreeNumber ==
  ASSUME GroupInv, nprocs < maxproc
  PROVE  \E f \in FirstPid .. PID_MAX - 1 : \A p \in Proc :
           proc[p].stat # "free" => f \notin {proc[p].pid, proc[p].pgid}
<1> DEFINE A == {p \in Proc : proc[p].stat # "free"}
           B == A \ {init}
           pids == [p \in B |-> proc[p].pid]
           pgids == [p \in B |-> proc[p].pgid]
           U == {pids[p] : p \in B}
           V == {pgids[p] : p \in B}
           I == FirstPid .. PID_MAX - 1
<1>1. /\ maxproc \in Nat /\ maxproc > 1 /\ PID_MAX - FirstPid > 2 * (maxproc - 2)
      /\ FirstPid \in Nat /\ PID_MAX \in Nat /\ FirstPid > 1 /\ FirstPid < PID_MAX
  BY ProcAssumption, Constants
<1>2. A \in SUBSET Proc /\ init \in A /\ nprocs = Cardinality(A)
  BY Constants DEF GroupInv, Numbers, TypeOK
<1>3. IsFiniteSet(A)
  BY <1>2, Constants, FS_Subset
<1>4. Cardinality(A) \in Nat
  BY <1>3, FS_CardinalityType
<1>5. IsFiniteSet(B) /\ Cardinality(B) = Cardinality(A) - 1
  <2> HIDE DEF A
  <2> QED
    BY <1>2, <1>3, FS_RemoveElement
<1>6. pids = [p \in B |-> pids[p]] /\ pgids = [p \in B |-> pgids[p]]
  OBVIOUS
<1>7. IsFiniteSet(U) /\ Cardinality(U) <= Cardinality(B)
  <2> HIDE DEF B, pids
  <2> QED
    BY <1>5, <1>6, ImageSize
<1>8. IsFiniteSet(V) /\ Cardinality(V) <= Cardinality(B)
  <2> HIDE DEF B, pgids
  <2> QED
    BY <1>5, <1>6, ImageSize
<1>9. ASSUME NEW p \in B PROVE proc[p].pid \in U /\ proc[p].pgid \in V
  <2>1. pids[p] = proc[p].pid /\ pgids[p] = proc[p].pgid
    OBVIOUS
  <2>2. pids[p] \in U /\ pgids[p] \in V
    <3> HIDE DEF pids, pgids, B
    <3> QED
      OBVIOUS
  <2> QED
    BY <2>1, <2>2
<1> HIDE DEF U, V, B, I
<1>10. IsFiniteSet(U \cup V) /\ Cardinality(U \cup V) <= 2 * (maxproc - 2)
  <2>1. /\ IsFiniteSet(U \cup V)
        /\ Cardinality(U \cup V) = Cardinality(U) + Cardinality(V) - Cardinality(U \cap V)
    BY <1>7, <1>8, FS_Union
  <2>2. IsFiniteSet(U \cap V)
    BY <1>7, FS_Intersection
  <2>3. Cardinality(U \cap V) \in Nat /\ Cardinality(U) \in Nat /\ Cardinality(V) \in Nat
    BY <1>7, <1>8, <2>2, FS_CardinalityType
  <2>4. Cardinality(B) <= maxproc - 2
    BY <1>1, <1>2, <1>4, <1>5 DEF GroupInv
  <2>5. Cardinality(B) \in Int
    BY <1>4, <1>5
  <2> QED
    BY <1>1, <1>7, <1>8, <2>1, <2>3, <2>4, <2>5
<1>11. Cardinality(I) = PID_MAX - FirstPid
  <2>1. PICK n : n = PID_MAX - 1
    OBVIOUS
  <2>2. n \in Int /\ FirstPid \in Int /\ ~(FirstPid > n)
    BY <1>1, <2>1
  <2>3. Cardinality(FirstPid .. n) = n - FirstPid + 1
    BY <2>2, FS_Interval
  <2> QED
    BY <1>1, <2>1, <2>3 DEF I
<1>12. ~(I \subseteq U \cup V)
  <2> SUFFICES ASSUME I \subseteq U \cup V PROVE FALSE
    OBVIOUS
  <2>1. I \in SUBSET (U \cup V)
    OBVIOUS
  <2>2. Cardinality(I) <= Cardinality(U \cup V)
    BY <1>10, <2>1, FS_Subset
  <2>3. Cardinality(U \cup V) \in Nat
    BY <1>10, FS_CardinalityType
  <2> QED
    BY <1>1, <1>10, <1>11, <2>2, <2>3
<1>13. PICK f \in I : f \notin U \cup V
  BY <1>12
<1>14. f \in FirstPid .. PID_MAX - 1
  BY DEF I
<1>15. ASSUME NEW p \in Proc, proc[p].stat # "free" PROVE f \notin {proc[p].pid, proc[p].pgid}
  <2>1. CASE p = init
    <3>1. proc[p].pid = 1 /\ proc[p].pgid = 1
      BY <2>1 DEF GroupInv, Numbers
    <3> QED
      BY <1>1, <1>14, <3>1
  <2>2. CASE p # init
    <3>1. p \in B
      BY <1>15, <2>2 DEF B
    <3> QED
      BY <1>9, <1>13, <3>1
  <2> QED
    BY <2>1, <2>2
<1> QED
  BY <1>14, <1>15

\* The processes in any order of the scan are all those that there are.
LEMMA OrdersAre ==
  ASSUME TypeOK, NEW o \in Orders
  PROVE  o \in Seq(Proc) /\ Range(o) = {p \in Proc : proc[p].stat # "free"}
<1> DEFINE A == {p \in Proc : proc[p].stat # "free"}
<1>1. Scanned = A
  BY DEF Scanned, TypeOK
<1>2. A \in SUBSET Proc
  OBVIOUS
<1> HIDE DEF A
<1>3. IsFiniteSet(A)
  BY <1>2, Constants, FS_Subset
<1>4. PICK n : n = Cardinality(A)
  OBVIOUS
<1>5. n \in Nat
  BY <1>3, <1>4, FS_CardinalityType
<1>6. o \in [1 .. n -> A] /\ \A i, j \in 1 .. n : i # j => o[i] # o[j]
  BY <1>1, <1>4 DEF Orders, SetToSeqs
<1>7. o \in [1 .. n -> Proc]
  BY <1>2, <1>6
<1>8. o \in Seq(Proc) /\ Len(o) = n
  BY <1>5, <1>7, FunIsSeq
<1>9. IsFiniteSet(1 .. n) /\ Cardinality(1 .. n) = n
  <2>1. IsFiniteSet(1 .. n) /\ Cardinality(1 .. n) = IF 1 > n THEN 0 ELSE n - 1 + 1
    BY <1>5, FS_Interval
  <2> QED
    BY <1>5, <2>1
<1>10. o \in Injection(1 .. n, A)
  BY <1>6 DEF Injection, IsInjective
<1>11. o \in Surjection(1 .. n, A)
  BY <1>3, <1>4, <1>9, <1>10, FS_Injection
<1>12. \A p : p \in Range(o) <=> p \in A
  <2>1. \A p : p \in Range(o) <=> \E i \in 1 .. n : o[i] = p
    BY <1>8, OnList
  <2>2. \A p \in A : \E i \in 1 .. n : o[i] = p
    BY <1>11 DEF Surjection
  <2>3. \A i \in 1 .. n : o[i] \in A
    BY <1>6
  <2> QED
    BY <2>1, <2>2, <2>3
<1>13. Range(o) = A
  BY <1>12
<1> QED
  BY <1>8, <1>13 DEF A

\* The next pid is in range, and so is the run behind it, which nobody uses.
LEMMA NextPidsAre ==
  ASSUME GroupInv, nprocs < maxproc, NEW st \in NextPids
  PROVE  /\ st.next \in FirstPid .. PID_MAX - 1 /\ st.checked \in 0 .. PID_MAX
         /\ \A p \in Proc : proc[p].stat # "free" => Clear(st, proc[p])
<1>1. /\ nextpid \in FirstPid .. PID_MAX - 1 /\ pidchecked \in 0 .. PID_MAX
      /\ \A p \in Proc : proc[p].pid \in Int /\ proc[p].pgid \in Int
      /\ FirstPid \in Nat /\ PID_MAX \in Nat /\ FirstPid < PID_MAX
  BY Facts, Constants
<1>2. CASE nextpid + 1 < pidchecked
  <2>1. st = [next |-> nextpid + 1, checked |-> pidchecked, retry |-> FALSE]
    BY <1>2 DEF NextPids
  <2>2. st.next = nextpid + 1 /\ st.checked = pidchecked
    BY <2>1
  <2>3. ASSUME NEW p \in Proc, proc[p].stat # "free" PROVE Clear(st, proc[p])
    <3>1. {proc[p].pid, proc[p].pgid} \cap nextpid + 1 .. pidchecked - 1 = {}
      BY <2>3 DEF GroupInv, RunUnused
    <3>2. \A x \in {proc[p].pid, proc[p].pgid} : x \in Int
      BY <1>1
    <3> SUFFICES ASSUME NEW x \in {proc[p].pid, proc[p].pgid}, st.next < x, x < st.checked
                 PROVE  FALSE
      BY DEF Clear
    <3>3. x \in nextpid + 1 .. pidchecked - 1
      BY <1>1, <2>2, <3>2
    <3> QED
      BY <3>1, <3>3
  <2> QED
    BY <1>1, <1>2, <2>2, <2>3
<1>3. CASE ~(nextpid + 1 < pidchecked)
  <2>1. PICK o \in Orders : st = Search(o)
    BY <1>3 DEF NextPids
  <2>2. o \in Seq(Proc) /\ Range(o) = {p \in Proc : proc[p].stat # "free"}
    BY <2>1, OrdersAre DEF GroupInv
  <2>3. PICK f \in FirstPid .. PID_MAX - 1 : \A p \in Proc :
          proc[p].stat # "free" => f \notin {proc[p].pid, proc[p].pgid}
    BY FreeNumber
  <2>4. /\ \A p \in Range(o) : proc[p].pid \in Int /\ proc[p].pgid \in Int
        /\ \A p \in Range(o) : f \notin {proc[p].pid, proc[p].pgid}
        /\ nextpid + 1 >= pidchecked
    BY <1>1, <1>3, <2>2, <2>3
  <2>5. /\ IsSearch(st) /\ FirstPid <= st.next /\ st.next < st.checked /\ st.checked <= PID_MAX
        /\ \A p \in Range(o) : Clear(st, proc[p])
    BY <1>1, <2>1, <2>2, <2>4, SearchIs
  <2>6. st.next \in FirstPid .. PID_MAX - 1 /\ st.checked \in 0 .. PID_MAX
    BY <1>1, <2>5 DEF IsSearch
  <2> QED
    BY <2>2, <2>5, <2>6
<1> QED
  BY <1>2, <1>3
-----------------------------------------------------------------------------
(* Steps that leave the groups alone.                                      *)

Entry ==
  [stat : {"free", "SIDL", "SRUN", "SZOMB"}, pid : Pid \cup {0},
   pptr : Proc \cup {none}, pgid : Pid \cup {0}, pgrpnxt : Proc \cup {none},
   flag : SUBSET {"SPPWAIT", "SZCHILD", "SEXEC"},
   at : {"user", "redo", "malloc", "copy", "ppwait", "ppwoken", "wait", "wait4"},
   arg : -PID_MAX .. PID_MAX, child : Proc \cup {none}]

Alive == {p \in Proc : proc[p].stat # "free"}

\* The types of what a step may change, apart.
LEMMA TypesAre ==
  TypeOK <=>
    /\ proc \in [Proc -> Entry]
    /\ pgrp \in [Pid -> [session : Session \cup {none}, jobc : Int, mem : Proc \cup {none}]]
    /\ session \in [Session -> [leader : Proc \cup {none}, count : Nat]]
    /\ nextpid \in Pid /\ pidchecked \in 0 .. PID_MAX
    /\ nprocs = Cardinality(Alive)
BY DEF TypeOK, Entry, Alive

LEMMA TypesAfter ==
  TypeOK' <=>
    /\ proc' \in [Proc -> Entry]
    /\ pgrp' \in [Pid -> [session : Session \cup {none}, jobc : Int, mem : Proc \cup {none}]]
    /\ session' \in [Session -> [leader : Proc \cup {none}, count : Nat]]
    /\ nextpid' \in Pid /\ pidchecked' \in 0 .. PID_MAX
    /\ nprocs' = Cardinality(Alive')
BY DEF TypeOK, Entry, Alive

\* The number of a new process or of anybody does not use the run up.
LEMMA RunKept ==
  ASSUME GroupInv, nextpid' = nextpid, pidchecked' = pidchecked,
         \A q \in Proc : proc'[q].stat # "free" => \A x \in {proc'[q].pid, proc'[q].pgid} :
           x = nextpid \/ \E r \in Proc : proc[r].stat # "free" /\ x \in {proc[r].pid, proc[r].pgid}
  PROVE  RunUnused'
<1> SUFFICES ASSUME NEW q \in Proc, proc'[q].stat # "free", NEW x \in {proc'[q].pid, proc'[q].pgid},
                    x \in nextpid + 1 .. pidchecked - 1
             PROVE  FALSE
  BY DEF RunUnused
<1>1. nextpid \in Int /\ pidchecked \in Int
  BY Facts
<1>2. x # nextpid
  BY <1>1
<1>3. PICK r \in Proc : proc[r].stat # "free" /\ x \in {proc[r].pid, proc[r].pgid}
  BY <1>2
<1> QED
  BY <1>3 DEF GroupInv, RunUnused

\* q keeps its numbers, its parent and its place in its group.
Stays(q) ==
  /\ proc'[q].stat = "free" <=> proc[q].stat = "free"
  /\ proc'[q].stat = "SZOMB" <=> proc[q].stat = "SZOMB"
  /\ proc'[q].pid = proc[q].pid /\ proc'[q].pptr = proc[q].pptr
  /\ proc'[q].pgid = proc[q].pgid /\ proc'[q].pgrpnxt = proc[q].pgrpnxt

LEMMA QuietStep ==
  ASSUME GroupInv, WaitInv, pgrp' = pgrp, session' = session, nprocs' = nprocs,
         \A q \in Proc : Stays(q),
         proc' \in [Proc -> Entry],
         nextpid' \in FirstPid .. PID_MAX - 1, pidchecked' \in 0 .. PID_MAX, RunUnused'
  PROVE  GroupInv'
<1>1. TypeOK /\ Numbers /\ Lists /\ Counts(session, sessions) /\ InitAlone /\ JobcInv /\ Family
  BY DEF GroupInv, WaitInv
<1>2. Alive' = Alive
  BY DEF Alive, Stays
<1>3. TypeOK'
  BY <1>1, <1>2, TypesAre, TypesAfter, Constants
<1>4. Numbers'
  BY <1>1, Constants DEF Numbers, Stays
<1>5. \A g \in Pid : Of(g)' = Of(g)
  BY DEF Of, Stays
<1>6. nxt' = nxt
  BY DEF nxt, Stays
<1>7. Lists'
  <2>1. \A g \in Pid : ListOf(nxt', pgrp'[g].mem, Of(g)')
    BY <1>1, <1>5, <1>6 DEF Lists
  <2>2. \A p \in Proc : proc'[p].stat = "free" => proc'[p].pgrpnxt = none
    BY <1>1 DEF Lists, Stays
  <2> QED
    BY <1>1, <1>5, <2>1, <2>2 DEF Lists, Exists
<1>8. sessions' = sessions
  BY DEF sessions
<1>9. Counts(session, sessions)' /\ InitAlone'
  BY <1>1, <1>8 DEF Counts, InitAlone
<1>10. \A g \in Pid : Quals(g)' = Quals(g)
  <2> SUFFICES ASSUME NEW g \in Pid PROVE Quals(g)' = Quals(g)
    OBVIOUS
  <2>1. \A p \in Proc : proc[p].stat # "free" /\ proc[p].pptr # none => proc[p].pptr \in Proc
    BY <1>1, Constants DEF Family
  <2> QED
    BY <2>1 DEF Quals, SessionOf, Stays
<1>11. JobcInv'
  BY <1>1, <1>10 DEF JobcInv, Exists
<1> QED
  BY <1>3, <1>4, <1>7, <1>9, <1>11 DEF GroupInv

\* A step that changes only where p is, and what it is about.
LEMMA QuietMove ==
  ASSUME GroupInv, WaitInv, pgrp' = pgrp, session' = session, nprocs' = nprocs,
         NEW p \in Proc, NEW r \in Entry, proc' = [proc EXCEPT ![p] = r],
         r.stat = proc[p].stat, r.pid = proc[p].pid, r.pptr = proc[p].pptr,
         r.pgid = proc[p].pgid, r.pgrpnxt = proc[p].pgrpnxt,
         nextpid' \in FirstPid .. PID_MAX - 1, pidchecked' \in 0 .. PID_MAX, RunUnused'
  PROVE  GroupInv'
<1>1. proc \in [Proc -> Entry]
  BY TypesAre DEF GroupInv
<1>2. proc' \in [Proc -> Entry]
  BY <1>1
<1>3. \A q \in Proc : Stays(q)
  BY <1>1 DEF Stays
<1> QED
  BY <1>2, <1>3, QuietStep

\* The same, when nothing else changes.
LEMMA StillMove ==
  ASSUME GroupInv, WaitInv, UNCHANGED <<pgrp, session, nextpid, pidchecked, nprocs>>,
         NEW p \in Proc, NEW r \in Entry, proc' = [proc EXCEPT ![p] = r],
         r.stat = proc[p].stat, r.pid = proc[p].pid, r.pptr = proc[p].pptr,
         r.pgid = proc[p].pgid, r.pgrpnxt = proc[p].pgrpnxt
  PROVE  GroupInv'
<1>1. proc \in [Proc -> Entry]
  BY TypesAre DEF GroupInv
<1>2. \A q \in Proc : Stays(q)
  BY <1>1 DEF Stays
<1>3. RunUnused'
  BY <1>2, RunKept DEF Stays
<1>4. nextpid' \in FirstPid .. PID_MAX - 1 /\ pidchecked' \in 0 .. PID_MAX
  BY Facts
<1> QED
  BY <1>3, <1>4, QuietMove

LEMMA EntryIs ==
  ASSUME GroupInv, NEW p \in Proc
  PROVE  /\ proc \in [Proc -> Entry] /\ proc[p] \in Entry
         /\ proc[p].arg \in -PID_MAX .. PID_MAX /\ proc[p].child \in Proc \cup {none}
         /\ proc[p].at \in {"user", "redo", "malloc", "copy", "ppwait", "ppwoken", "wait", "wait4"}
         /\ 0 \in -PID_MAX .. PID_MAX
<1>1. proc \in [Proc -> Entry] /\ proc[p] \in Entry
  BY TypesAre DEF GroupInv
<1> QED
  BY <1>1, Constants DEF Entry

\* A process goes on to another place with another argument.
LEMMA GoesOn ==
  ASSUME GroupInv, WaitInv, UNCHANGED <<pgrp, session, nextpid, pidchecked, nprocs>>,
         NEW p \in Proc, NEW at, NEW arg,
         proc' = [proc EXCEPT ![p].at = at, ![p].arg = arg],
         at \in {"user", "redo", "malloc", "wait"}, arg \in -PID_MAX .. PID_MAX
  PROVE  GroupInv'
<1>1. PICK e : e = proc[p]
  OBVIOUS
<1>2. PICK r : r = [e EXCEPT !.at = at, !.arg = arg]
  OBVIOUS
<1>3. e \in Entry /\ proc \in [Proc -> Entry]
  BY <1>1, EntryIs
<1>4. /\ r \in Entry /\ r.stat = e.stat /\ r.pid = e.pid /\ r.pptr = e.pptr
      /\ r.pgid = e.pgid /\ r.pgrpnxt = e.pgrpnxt
  BY <1>2, <1>3 DEF Entry
<1>5. proc' = [proc EXCEPT ![p] = r]
  BY <1>1, <1>2, <1>3
<1> QED
  BY <1>1, <1>4, <1>5, StillMove

LEMMA fork_pidGroups ==
  ASSUME GroupInv, WaitInv, NEW p \in Proc, fork_pid(p) PROVE GroupInv'
<1>1. UNCHANGED <<pgrp, session, nprocs>>
  BY DEF fork_pid
<1>2. CASE nprocs >= maxproc
  <2>1. /\ proc' = [proc EXCEPT ![p].at = "user"]
        /\ UNCHANGED <<pgrp, session, nextpid, pidchecked, nprocs>>
    BY <1>2 DEF fork_pid
  <2>2. PICK arg : arg = proc[p].arg
    OBVIOUS
  <2>3. proc' = [proc EXCEPT ![p].at = "user", ![p].arg = arg]
    BY <2>1, <2>2, EntryIs DEF Entry
  <2>4. arg \in -PID_MAX .. PID_MAX
    BY <2>2, EntryIs
  <2> QED
    BY <2>1, <2>3, <2>4, GoesOn
<1>3. CASE ~(nprocs >= maxproc)
  <2>1. PICK st \in NextPids : /\ nextpid' = st.next /\ pidchecked' = st.checked
                               /\ proc' = [proc EXCEPT ![p].at = "malloc", ![p].arg = st.next]
    BY <1>3 DEF fork_pid
  <2>2. nprocs < maxproc
    <3>1. IsFiniteSet(Alive)
      <4>1. Alive \in SUBSET Proc
        BY DEF Alive
      <4> QED
        BY <4>1, Constants, FS_Subset
    <3>2. nprocs \in Nat
      <4>1. nprocs = Cardinality(Alive)
        BY TypesAre DEF GroupInv
      <4> QED
        BY <3>1, <4>1, FS_CardinalityType
    <3> QED
      BY <1>3, <3>2, ProcAssumption
  <2>3. /\ st.next \in FirstPid .. PID_MAX - 1 /\ st.checked \in 0 .. PID_MAX
        /\ \A q \in Proc : proc[q].stat # "free" => Clear(st, proc[q])
    BY <2>2, NextPidsAre
  <2>4. PICK e : e = proc[p]
    OBVIOUS
  <2>5. PICK n : n = st.next
    OBVIOUS
  <2>6. PICK r : r = [e EXCEPT !.at = "malloc", !.arg = n]
    OBVIOUS
  <2>7. e \in Entry /\ proc \in [Proc -> Entry]
    BY <2>4, EntryIs
  <2>8. n \in -PID_MAX .. PID_MAX
    BY <2>3, <2>5, Constants
  <2>9. /\ r \in Entry /\ r.stat = e.stat /\ r.pid = e.pid /\ r.pptr = e.pptr
        /\ r.pgid = e.pgid /\ r.pgrpnxt = e.pgrpnxt
    BY <2>6, <2>7, <2>8 DEF Entry
  <2>10. proc' = [proc EXCEPT ![p] = r]
    BY <2>1, <2>4, <2>5, <2>6, <2>7
  <2>11. \A q \in Proc : /\ proc'[q].stat = proc[q].stat /\ proc'[q].pid = proc[q].pid
                         /\ proc'[q].pgid = proc[q].pgid
    BY <2>4, <2>7, <2>9, <2>10
  <2>12. RunUnused'
    <3> SUFFICES ASSUME NEW q \in Proc, proc'[q].stat # "free",
                        NEW x \in {proc'[q].pid, proc'[q].pgid}, x \in nextpid' + 1 .. pidchecked' - 1
                 PROVE  FALSE
      BY DEF RunUnused
    <3>1. Clear(st, proc[q]) /\ x \in {proc[q].pid, proc[q].pgid}
      BY <2>3, <2>11
    <3>2. st.next < x /\ x < st.checked
      BY <2>1, <2>3, Constants
    <3> QED
      BY <3>1, <3>2 DEF Clear
  <2> QED
    BY <1>1, <2>1, <2>3, <2>4, <2>9, <2>10, <2>12, QuietMove
<1> QED
  BY <1>2, <1>3

LEMMA wait4Groups ==
  ASSUME GroupInv, WaitInv, NEW q \in Proc, NEW pid \in Waits(q) \cup {proc[q].arg},
         wait4_none(q) \/ wait4_sleep(q, pid) \/ wait4_signal(q)
  PROVE  GroupInv'
<1>1. 0 \in -PID_MAX .. PID_MAX /\ proc[q].arg \in -PID_MAX .. PID_MAX
  BY EntryIs
<1>2. CASE wait4_none(q) \/ wait4_signal(q)
  <2>1. /\ proc' = [proc EXCEPT ![q].at = "user", ![q].arg = 0]
        /\ UNCHANGED <<pgrp, session, nextpid, pidchecked, nprocs>>
    BY <1>2 DEF wait4_none, wait4_signal
  <2> QED
    BY <1>1, <2>1, GoesOn
<1>3. CASE wait4_sleep(q, pid)
  <2>1. /\ proc' = [proc EXCEPT ![q].at = "wait", ![q].arg = pid]
        /\ UNCHANGED <<pgrp, session, nextpid, pidchecked, nprocs>>
    BY <1>3 DEF wait4_sleep
  <2>2. pid \in -PID_MAX .. PID_MAX
    <3>1. PID_MAX \in Nat /\ PID_MAX > 1
      BY Constants
    <3>2. CASE pid = proc[q].arg
      BY <1>1, <3>2
    <3>3. CASE pid = WAIT_ANY
      BY <3>1, <3>3 DEF WAIT_ANY
    <3>4. CASE \E c \in Children(q) : pid \in {proc[c].pid, -proc[c].pgid}
      <4>1. PICK c \in Children(q) : pid \in {proc[c].pid, -proc[c].pgid}
        BY <3>4
      <4>2. c \in Proc /\ proc[c].stat # "free"
        BY DEF Children
      <4>3. proc[c].pid \in 1 .. PID_MAX - 1 /\ proc[c].pgid \in 1 .. PID_MAX - 1
        BY <4>2, Facts DEF Pid
      <4> QED
        BY <3>1, <4>1, <4>3
    <3>5. pid = proc[q].arg \/ pid = WAIT_ANY
          \/ \E c \in Children(q) : pid \in {proc[c].pid, -proc[c].pgid}
      BY DEF Waits
    <3> QED
      BY <3>2, <3>3, <3>4, <3>5
  <2> QED
    BY <2>1, <2>2, GoesOn
<1> QED
  BY <1>2, <1>3

LEMMA vfork_waitGroups ==
  ASSUME GroupInv, WaitInv, NEW p \in Proc, vfork_wait(p) PROVE GroupInv'
<1>1. PICK e : e = proc[p]
  OBVIOUS
<1>2. PICK r : r = IF "SPPWAIT" \in proc[e.child].flag THEN [e EXCEPT !.at = "ppwait"]
                   ELSE [e EXCEPT !.at = "user", !.child = none]
  OBVIOUS
<1>3. e \in Entry /\ proc \in [Proc -> Entry]
  BY <1>1, EntryIs
<1>4. proc' = [proc EXCEPT ![p] = r] /\ UNCHANGED <<pgrp, session, nextpid, pidchecked, nprocs>>
  BY <1>1, <1>2 DEF vfork_wait
<1>5. /\ r \in Entry /\ r.stat = e.stat /\ r.pid = e.pid /\ r.pptr = e.pptr
      /\ r.pgid = e.pgid /\ r.pgrpnxt = e.pgrpnxt
  <2>1. CASE "SPPWAIT" \in proc[e.child].flag
    <3>1. r = [e EXCEPT !.at = "ppwait"]
      BY <1>2, <2>1
    <3> QED
      BY <1>3, <3>1 DEF Entry
  <2>2. CASE ~("SPPWAIT" \in proc[e.child].flag)
    <3>1. r = [e EXCEPT !.at = "user", !.child = none]
      BY <1>2, <2>2
    <3> QED
      BY <1>3, <3>1 DEF Entry
  <2> QED
    BY <2>1, <2>2
<1> QED
  BY <1>1, <1>4, <1>5, StillMove

\* A step that leaves the numbers and the places of all where they are.
LEMMA StillStep ==
  ASSUME GroupInv, WaitInv, UNCHANGED <<pgrp, session, nextpid, pidchecked, nprocs>>,
         \A q \in Proc : Stays(q), proc' \in [Proc -> Entry]
  PROVE  GroupInv'
<1>1. RunUnused'
  BY RunKept DEF Stays
<1>2. nextpid' \in FirstPid .. PID_MAX - 1 /\ pidchecked' \in 0 .. PID_MAX
  BY Facts
<1> QED
  BY <1>1, <1>2, QuietStep

LEMMA fork_doneGroups ==
  ASSUME GroupInv, WaitInv, NEW p \in Proc, NEW isvfork \in BOOLEAN, fork_done(p, isvfork)
  PROVE  GroupInv'
<1>1. proc[p].at = "copy" /\ UNCHANGED <<pgrp, session, nextpid, pidchecked, nprocs>>
  BY DEF fork_done
<1>2. PICK c : c = proc[p].child
  OBVIOUS
<1>3. c \in Proc /\ proc[c].stat = "SIDL" /\ proc[p].stat = "SRUN" /\ c # p
  BY <1>1, <1>2 DEF WaitInv, CallsFit
<1>4. proc \in [Proc -> Entry] /\ proc[p] \in Entry /\ proc[c] \in Entry
  BY <1>3, EntryIs
<1>5. PICK flag, at, child :
        /\ flag \in SUBSET {"SPPWAIT", "SZCHILD", "SEXEC"} /\ at \in {"user", "ppwait"}
        /\ child \in Proc \cup {none}
        /\ proc' = [proc EXCEPT ![c].stat = "SRUN", ![c].flag = flag, ![p].at = at, ![p].child = child]
  <2>1. CASE isvfork
    <3>1. proc' = [proc EXCEPT ![c].stat = "SRUN", ![c].flag = {"SPPWAIT"}, ![p].at = "ppwait",
                               ![p].child = @]
      BY <1>2, <2>1 DEF fork_done
    <3>2. proc' = [proc EXCEPT ![c].stat = "SRUN", ![c].flag = {"SPPWAIT"}, ![p].at = "ppwait",
                               ![p].child = c]
      BY <1>2, <1>3, <1>4, <3>1 DEF Entry
    <3> QED
      BY <1>3, <3>2
  <2>2. CASE ~isvfork
    <3>1. proc' = [proc EXCEPT ![c].stat = "SRUN", ![c].flag = {}, ![p].at = "user",
                               ![p].child = none]
      BY <1>2, <2>2 DEF fork_done
    <3> QED
      BY <3>1
  <2> QED
    BY <2>1, <2>2
<1>6. PICK r : r = [proc[c] EXCEPT !.stat = "SRUN", !.flag = flag]
  OBVIOUS
<1>7. PICK s : s = [proc[p] EXCEPT !.at = at, !.child = child]
  OBVIOUS
<1>8. proc' = [q \in Proc |-> IF q = c THEN r ELSE IF q = p THEN s ELSE proc[q]]
  <2>1. PICK v : v = [proc EXCEPT ![c].stat = "SRUN", ![c].flag = flag]
    OBVIOUS
  <2>2. v = [proc EXCEPT ![c] = r]
    BY <1>3, <1>4, <1>6, <2>1
  <2>3. v = [q \in Proc |-> IF q = c THEN r ELSE proc[q]]
    BY <1>4, <2>2
  <2>4. proc' = [v EXCEPT ![p].at = at, ![p].child = child]
    BY <1>5, <2>1
  <2>5. v[p] = proc[p]
    BY <1>3, <2>3
  <2>6. proc' = [v EXCEPT ![p] = s]
    BY <1>3, <1>7, <2>3, <2>4, <2>5
  <2> QED
    BY <1>3, <2>3, <2>6
<1>9. /\ r \in Entry /\ r.stat = "SRUN" /\ r.pid = proc[c].pid /\ r.pptr = proc[c].pptr
      /\ r.pgid = proc[c].pgid /\ r.pgrpnxt = proc[c].pgrpnxt
  BY <1>4, <1>5, <1>6 DEF Entry
<1>10. /\ s \in Entry /\ s.stat = proc[p].stat /\ s.pid = proc[p].pid /\ s.pptr = proc[p].pptr
       /\ s.pgid = proc[p].pgid /\ s.pgrpnxt = proc[p].pgrpnxt
  BY <1>4, <1>5, <1>7 DEF Entry
<1>11. proc' \in [Proc -> Entry]
  BY <1>4, <1>8, <1>9, <1>10
<1>12. \A q \in Proc : Stays(q)
  BY <1>3, <1>8, <1>9, <1>10 DEF Stays
<1> QED
  BY <1>1, <1>11, <1>12, StillStep

LEMMA ResumedEntry ==
  ASSUME NEW e \in Entry
  PROVE  /\ Resumed(e) \in Entry /\ Resumed(e).stat = e.stat /\ Resumed(e).pid = e.pid
         /\ Resumed(e).pptr = e.pptr /\ Resumed(e).pgid = e.pgid /\ Resumed(e).pgrpnxt = e.pgrpnxt
         /\ Resumed(e).flag = e.flag
<1>1. PICK at : /\ at \in {"user", "redo", "malloc", "copy", "ppwait", "ppwoken", "wait", "wait4"}
                /\ Resumed(e) = [e EXCEPT !.at = at]
  BY DEF Resumed, Entry
<1> QED
  BY <1>1 DEF Entry

LEMMA execveGroups ==
  ASSUME GroupInv, WaitInv, NEW p \in Proc, execve(p) PROVE GroupInv'
<1>1. UNCHANGED <<pgrp, session, nextpid, pidchecked, nprocs>>
  BY DEF execve
<1>2. proc \in [Proc -> Entry]
  BY EntryIs
<1>3. PICK r : r = [proc[p] EXCEPT !.flag = (@ \cup {"SEXEC"}) \ {"SPPWAIT"}]
  OBVIOUS
<1>4. /\ r \in Entry /\ r.stat = proc[p].stat /\ r.pid = proc[p].pid /\ r.pptr = proc[p].pptr
      /\ r.pgid = proc[p].pgid /\ r.pgrpnxt = proc[p].pgrpnxt
  BY <1>2, <1>3 DEF Entry
<1>5. proc' = [q \in Proc |-> CASE q = p -> r
                                [] q = proc[p].pptr /\ "SPPWAIT" \in proc[p].flag -> Resumed(proc[q])
                                [] OTHER -> proc[q]]
  BY <1>3 DEF execve
<1>6. p # proc[p].pptr
  BY Constants DEF WaitInv, Family, execve, Running
<1>7. ASSUME NEW q \in Proc PROVE proc'[q] \in Entry /\ Stays(q)
  <2>1. CASE q = p
    <3>1. proc'[q] = r
      BY <1>5, <1>6, <2>1
    <3> QED
      BY <1>4, <2>1, <3>1 DEF Stays
  <2>2. CASE q # p
    <3>1. proc'[q] = proc[q] \/ proc'[q] = Resumed(proc[q])
      BY <1>5, <2>2
    <3> QED
      BY <1>2, <3>1, ResumedEntry DEF Stays
  <2> QED
    BY <2>1, <2>2
<1>8. proc' \in [Proc -> Entry]
  BY <1>5, <1>7
<1> QED
  BY <1>1, <1>7, <1>8, StillStep
-----------------------------------------------------------------------------
(* The counts of job control.  ps are the entries, gs the sessions of the  *)
(* groups.                                                                 *)

Works(ps, q) == ps[q].stat \notin {"free", "SZOMB"}
QualsIn(ps, gs, h) ==
  {q \in Proc : /\ Works(ps, q) /\ ps[q].pgid = h /\ ps[q].pptr # none
                /\ ps[ps[q].pptr].pgid # h /\ gs[ps[ps[q].pptr].pgid] = gs[h]}
\* The children of p in group h, ...
KidsIn(ps, p, h) == {c \in Proc : Works(ps, c) /\ ps[c].pptr = p /\ ps[c].pgid = h}
\* ... what p does not concern, ...
RestIn(ps, gs, p, h) == {q \in QualsIn(ps, gs, h) : q # p /\ ps[q].pptr # p}
\* ... and whether p itself counts.
OwnIn(ps, gs, p, g) == ps[ps[p].pptr].pgid # g /\ gs[ps[ps[p].pptr].pgid] = gs[g]

\* What fixjobc() adds to the count of group h when p enters group g.
Share(ps, gs, p, g, h) ==
  (IF h = g /\ OwnIn(ps, gs, p, g) THEN 1 ELSE 0)
  + (IF h # g /\ gs[h] = gs[g] THEN Cardinality(KidsIn(ps, p, h)) ELSE 0)

\* A set of three parts.
ApartFrom(R, X, Y) ==
  /\ IsFiniteSet(R) /\ IsFiniteSet(X) /\ IsFiniteSet(Y)
  /\ R \cap X = {} /\ R \cap Y = {} /\ X \cap Y = {}
LEMMA ThreeParts ==
  ASSUME NEW R, NEW X, NEW Y, ApartFrom(R, X, Y)
  PROVE  /\ Cardinality(R \cup X \cup Y) = Cardinality(R) + Cardinality(X) + Cardinality(Y)
         /\ Cardinality(R) \in Nat /\ Cardinality(X) \in Nat /\ Cardinality(Y) \in Nat
<1>0. /\ IsFiniteSet(R) /\ IsFiniteSet(X) /\ IsFiniteSet(Y)
      /\ R \cap X = {} /\ R \cap Y = {} /\ X \cap Y = {}
  BY DEF ApartFrom
<1>1. Cardinality(R) \in Nat /\ Cardinality(X) \in Nat /\ Cardinality(Y) \in Nat
  BY <1>0, FS_CardinalityType
<1>2. IsFiniteSet(R \cup X) /\ Cardinality(R \cup X) = Cardinality(R) + Cardinality(X) - Cardinality({})
  BY <1>0, FS_Union
<1>3. (R \cup X) \cap Y = {}
  BY <1>0
<1>4. Cardinality((R \cup X) \cup Y) = Cardinality(R \cup X) + Cardinality(Y) - Cardinality({})
  BY <1>0, <1>2, <1>3, FS_Union
<1>5. Cardinality({}) = 0
  BY FS_EmptySet
<1> QED
  BY <1>1, <1>2, <1>4, <1>5

\* The count of a group has a share that comes from p.
LEMMA Parts ==
  ASSUME NEW ps, NEW gs, NEW p \in Proc, NEW h, Works(ps, p), ps[p].pptr \in Proc \ {p}
  PROVE  /\ Cardinality(QualsIn(ps, gs, h)) =
              Cardinality(RestIn(ps, gs, p, h)) + Share(ps, gs, p, ps[p].pgid, h)
         /\ Cardinality(RestIn(ps, gs, p, h)) \in Nat /\ Cardinality(KidsIn(ps, p, h)) \in Nat
         /\ Cardinality(QualsIn(ps, gs, h)) \in Nat
<1> DEFINE R == RestIn(ps, gs, p, h)
           K == KidsIn(ps, p, h)
           a == ps[p].pgid
           X == IF h = a /\ OwnIn(ps, gs, p, a) THEN {p} ELSE {}
           Y == IF h # a /\ gs[h] = gs[a] THEN K ELSE {}
           Q == QualsIn(ps, gs, h)
<1>1. none \notin Proc /\ IsFiniteSet(Proc)
  BY Constants
<1>2. R \in SUBSET Proc /\ K \in SUBSET Proc /\ Q \in SUBSET Proc
  BY DEF RestIn, KidsIn, QualsIn
<1>3. \A q : q \in R => q # p /\ ps[q].pptr # p
  BY DEF RestIn
<1>4. \A q : q \in K => q # p /\ ps[q].pptr = p
  BY DEF KidsIn
<1>5. ASSUME NEW q PROVE q \in Q <=> q \in R \/ q \in X \/ q \in Y
  <2>1. CASE q = p
    <3>1. q \in Q <=> h = a /\ OwnIn(ps, gs, p, a)
      BY <1>1, <2>1 DEF QualsIn, OwnIn
    <3>2. q \notin R /\ q \notin Y
      BY <1>3, <1>4, <2>1
    <3> QED
      BY <2>1, <3>1, <3>2
  <2>2. CASE q # p /\ q \in Proc /\ ps[q].pptr = p
    <3>1. q \in Q <=> h # a /\ gs[h] = gs[a] /\ q \in K
      BY <1>1, <2>2 DEF QualsIn, KidsIn
    <3>2. q \notin R /\ q \notin X
      BY <1>3, <2>2
    <3> QED
      BY <3>1, <3>2
  <2>3. CASE q # p /\ (q \notin Proc \/ ps[q].pptr # p)
    <3>1. q \in Q <=> q \in R
      BY <1>2, <2>3 DEF RestIn
    <3>2. q \notin X /\ q \notin Y
      BY <1>2, <1>4, <2>3
    <3> QED
      BY <3>1, <3>2
  <2> QED
    BY <2>1, <2>2, <2>3
<1>6. X \cap R = {} /\ R \cap Y = {} /\ X \cap Y = {}
  BY <1>3, <1>4
<1>7. IsFiniteSet(R) /\ IsFiniteSet(K) /\ IsFiniteSet(Q)
  <2> HIDE DEF R, K, Q
  <2> QED
    BY <1>1, <1>2, FS_Subset
<1>8. IsFiniteSet({p}) /\ Cardinality({p}) = 1 /\ IsFiniteSet({}) /\ Cardinality({}) = 0
  BY FS_Singleton, FS_EmptySet
<1>9. IsFiniteSet(X) /\ IsFiniteSet(Y)
  <2> HIDE DEF K
  <2> QED
    BY <1>7, <1>8
<1>10. /\ Cardinality(X) = (IF h = a /\ OwnIn(ps, gs, p, a) THEN 1 ELSE 0)
       /\ Cardinality(Y) = (IF h # a /\ gs[h] = gs[a] THEN Cardinality(K) ELSE 0)
  BY <1>8
<1>11. Cardinality(K) \in Nat /\ Cardinality(Q) \in Nat
  <2> HIDE DEF K, Q
  <2> QED
    BY <1>7, FS_CardinalityType
<1> HIDE DEF R, X, Y, Q
<1>12. Q = R \cup X \cup Y
  BY <1>5
<1>13. /\ Cardinality(R \cup X \cup Y) = Cardinality(R) + Cardinality(X) + Cardinality(Y)
       /\ Cardinality(R) \in Nat
  <2>1. R \cap X = {} /\ R \cap Y = {} /\ X \cap Y = {}
    BY <1>6
  <2>2. IsFiniteSet(R) /\ IsFiniteSet(X) /\ IsFiniteSet(Y)
    BY <1>7, <1>9
  <2>3. ApartFrom(R, X, Y)
    BY <2>1, <2>2 DEF ApartFrom
  <2> QED
    BY <2>3, ThreeParts
<1>14. Share(ps, gs, p, a, h) = Cardinality(X) + Cardinality(Y)
  BY <1>10 DEF Share
<1>15. Cardinality(X) \in Int /\ Cardinality(Y) \in Int
  BY <1>10, <1>11
<1> HIDE DEF K
<1>16. Cardinality(Q) = Cardinality(R) + Share(ps, gs, p, a, h)
  BY <1>12, <1>13, <1>14, <1>15
<1> QED
  BY <1>11, <1>13, <1>16 DEF R, K, Q

\* fixjobc() adds or takes the share of p.
LEMMA fixjobcIs ==
  ASSUME NEW j, NEW s, NEW p \in Proc, NEW g, NEW n, NEW h \in Pid
  PROVE  fixjobc(j, s, p, g, n)[h] = j[h] + n * Share(proc, s, p, g, h)
<1>1. {c \in Children(p) : proc[c].pgid = h /\ Counted(c)} = KidsIn(proc, p, h)
  BY DEF Children, Counted, KidsIn, Works
<1>2. fixjobc(j, s, p, g, n)[h] =
        j[h] + n * ((IF h = g THEN (IF OwnIn(proc, s, p, g) THEN 1 ELSE 0) ELSE 0)
                    + (IF h # g /\ s[h] = s[g]
                       THEN Cardinality({c \in Children(p) : proc[c].pgid = h /\ Counted(c)}) ELSE 0))
  BY DEF fixjobc, OwnIn
<1>3. (IF h = g THEN (IF OwnIn(proc, s, p, g) THEN 1 ELSE 0) ELSE 0)
      = IF h = g /\ OwnIn(proc, s, p, g) THEN 1 ELSE 0
  OBVIOUS
<1> QED
  BY <1>1, <1>2, <1>3 DEF Share

\* The processes that count, by the sessions of the groups.
LEMMA QualsAre ==
  ASSUME Family, \A q \in Proc : proc[q].stat # "free" => proc[q].pgid \in Pid, NEW h \in Pid
  PROVE  Quals(h) = QualsIn(proc, sessions, h)
<1>1. ASSUME NEW q \in Proc, Works(proc, q), proc[q].pptr # none
      PROVE  SessionOf(proc[q].pptr) = sessions[proc[proc[q].pptr].pgid]
  <2>1. proc[q].pptr \in Proc /\ proc[proc[q].pptr].stat # "free"
    BY <1>1, Constants DEF Family, Works
  <2>2. proc[proc[q].pptr].pgid \in Pid
    BY <2>1
  <2> QED
    BY <2>2 DEF SessionOf, sessions
<1>2. sessions[h] = pgrp[h].session
  BY DEF sessions
<1>3. \A q \in Proc : q \in Quals(h) <=> q \in QualsIn(proc, sessions, h)
  BY <1>1, <1>2 DEF Quals, QualsIn, Works
<1>4. Quals(h) \in SUBSET Proc /\ QualsIn(proc, sessions, h) \in SUBSET Proc
  BY DEF Quals, QualsIn
<1> QED
  BY <1>3, <1>4

LEMMA QualsAfter ==
  ASSUME Family', \A q \in Proc : proc'[q].stat # "free" => proc'[q].pgid \in Pid, NEW h \in Pid
  PROVE  Quals(h)' = QualsIn(proc', sessions', h)
<1>1. ASSUME NEW q \in Proc, Works(proc', q), proc'[q].pptr # none
      PROVE  pgrp'[proc'[proc'[q].pptr].pgid].session = sessions'[proc'[proc'[q].pptr].pgid]
  <2>1. proc'[q].pptr \in Proc /\ proc'[proc'[q].pptr].stat # "free"
    BY <1>1, Constants DEF Family, Works
  <2>2. proc'[proc'[q].pptr].pgid \in Pid
    BY <2>1
  <2> QED
    BY <2>2 DEF sessions
<1>2. sessions'[h] = pgrp'[h].session
  BY DEF sessions
<1>3. \A q \in Proc : q \in Quals(h)' <=> q \in QualsIn(proc', sessions', h)
  BY <1>1, <1>2 DEF Quals, QualsIn, Works, SessionOf
<1>4. Quals(h)' \in SUBSET Proc /\ QualsIn(proc', sessions', h) \in SUBSET Proc
  BY DEF Quals, QualsIn
<1> QED
  BY <1>3, <1>4
-----------------------------------------------------------------------------
(* The counts of the sessions.                                             *)

Sessions == [Session -> [leader : Proc \cup {none}, count : Nat]]
GroupsOf(gs, x) == {g \in Pid : gs[g] = x}

LEMMA GroupsAreFinite ==
  ASSUME NEW gs, NEW x
  PROVE  IsFiniteSet(GroupsOf(gs, x)) /\ Cardinality(GroupsOf(gs, x)) \in Nat
<1>1. IsFiniteSet(Pid)
  <2>1. PICK n : n = PID_MAX - 1
    OBVIOUS
  <2>2. n \in Int
    BY <2>1, Constants
  <2>3. IsFiniteSet(1 .. n)
    BY <2>2, FS_Interval
  <2> QED
    BY <2>1, <2>3 DEF Pid
<1>2. GroupsOf(gs, x) \in SUBSET Pid
  BY DEF GroupsOf
<1>3. IsFiniteSet(GroupsOf(gs, x))
  BY <1>1, <1>2, FS_Subset
<1> QED
  BY <1>3, FS_CardinalityType

\* hs is gs but for group a, which has session x.
Differs(gs, hs, a, x) == a \in Pid /\ hs[a] = x /\ \A g \in Pid \ {a} : hs[g] = gs[g]

\* Group a goes.
LEMMA CountsDropped ==
  ASSUME NEW ss \in Sessions, NEW gs, NEW hs, Counts(ss, gs), NEW a, Differs(gs, hs, a, none),
         gs[a] \in Session
  PROVE  Counts(Dropped(ss, gs[a]), hs) /\ Dropped(ss, gs[a]) \in Sessions
<1>1. PICK s \in Session : s = gs[a]
  OBVIOUS
<1>2. PICK ts : ts = Dropped(ss, s)
  OBVIOUS
<1>3. none \notin Session /\ a \in Pid
  BY Constants DEF Differs
<1>4. \A x \in Session : ss[x].count = Cardinality(GroupsOf(gs, x)) /\ (ss[x].count = 0 => ss[x] = NoSession)
  BY DEF Counts, GroupsOf
<1>5. \A x \in Session \ {s} : GroupsOf(hs, x) = GroupsOf(gs, x)
  BY <1>1, <1>3 DEF GroupsOf, Differs
<1>6. GroupsOf(hs, s) = GroupsOf(gs, s) \ {a} /\ a \in GroupsOf(gs, s)
  BY <1>1, <1>3 DEF GroupsOf, Differs
<1>7. Cardinality(GroupsOf(hs, s)) = Cardinality(GroupsOf(gs, s)) - 1
  BY <1>6, GroupsAreFinite, FS_RemoveElement
<1>8. ss[s].count = Cardinality(GroupsOf(hs, s)) + 1 /\ Cardinality(GroupsOf(hs, s)) \in Nat
  BY <1>4, <1>7, GroupsAreFinite
<1>9. /\ ts \in Sessions /\ \A x \in Session \ {s} : ts[x] = ss[x]
      /\ ts[s].count = ss[s].count - 1
      /\ ts[s].count = 0 => ts[s] = NoSession
  <2>1. CASE ss[s].count = 1
    <3>1. ts = [ss EXCEPT ![s] = NoSession]
      BY <1>2, <2>1 DEF Dropped
    <3> QED
      BY <2>1, <3>1, Constants DEF Sessions, NoSession
  <2>2. CASE ss[s].count # 1
    <3>1. ts = [ss EXCEPT ![s].count = @ - 1]
      BY <1>2, <2>2 DEF Dropped
    <3>2. PICK n \in Nat : n = ss[s].count - 1 /\ n # 0
      BY <1>8, <2>2
    <3>3. ts = [ss EXCEPT ![s].count = n]
      BY <3>1, <3>2 DEF Sessions
    <3> QED
      BY <3>2, <3>3 DEF Sessions
  <2> QED
    BY <2>1, <2>2
<1>10. \A x \in Session : ts[x].count = Cardinality(GroupsOf(hs, x)) /\ (ts[x].count = 0 => ts[x] = NoSession)
  BY <1>4, <1>5, <1>8, <1>9
<1> QED
  BY <1>1, <1>2, <1>9, <1>10 DEF Counts, GroupsOf

\* ts counts one group more in session s.
Grows(ss, ts, s) == /\ s \in Session /\ ts[s].count = ss[s].count + 1
                    /\ \A x \in Session \ {s} : ts[x] = ss[x]

\* Group a comes, in session s.
LEMMA CountsAdded ==
  ASSUME NEW ss, NEW ts, NEW gs, NEW hs, NEW s, NEW a,
         Counts(ss, gs), Differs(gs, hs, a, s), gs[a] = none, Grows(ss, ts, s)
  PROVE  Counts(ts, hs)
<1>1. s \in Session /\ ts[s].count = ss[s].count + 1 /\ \A x \in Session \ {s} : ts[x] = ss[x]
  BY DEF Grows
<1>3. none \notin Session /\ a \in Pid
  BY Constants DEF Differs
<1>4. \A x \in Session : ss[x].count = Cardinality(GroupsOf(gs, x)) /\ (ss[x].count = 0 => ss[x] = NoSession)
  BY DEF Counts, GroupsOf
<1>5. \A x \in Session \ {s} : GroupsOf(hs, x) = GroupsOf(gs, x)
  BY <1>1, <1>3 DEF GroupsOf, Differs
<1>6. GroupsOf(hs, s) = GroupsOf(gs, s) \cup {a} /\ a \notin GroupsOf(gs, s)
  BY <1>1, <1>3 DEF GroupsOf, Differs
<1>7. Cardinality(GroupsOf(hs, s)) = Cardinality(GroupsOf(gs, s)) + 1 /\ Cardinality(GroupsOf(gs, s)) \in Nat
  BY <1>6, GroupsAreFinite, FS_AddElement
<1>8. \A x \in Session : ts[x].count = Cardinality(GroupsOf(hs, x)) /\ (ts[x].count = 0 => ts[x] = NoSession)
  BY <1>1, <1>4, <1>5, <1>7
<1> QED
  BY <1>8 DEF Counts, GroupsOf

\* There are more sessions than processes, so some session is free.
LEMMA FreeSession ==
  ASSUME GroupInv
  PROVE  \E x \in Session : session[x] = NoSession
<1> DEFINE f == [p \in Proc |-> SessionOf(p)]
           U == {f[p] : p \in Proc}
<1>1. IsFiniteSet(Proc) /\ Cardinality(Session) > Cardinality(Proc)
  BY ProcAssumption
<1>2. f = [p \in Proc |-> f[p]]
  OBVIOUS
<1>3. IsFiniteSet(U) /\ Cardinality(U) <= Cardinality(Proc)
  <2> HIDE DEF f
  <2> QED
    BY <1>1, <1>2, ImageSize
<1>4. \A p \in Proc : SessionOf(p) \in U
  <2>1. \A p \in Proc : f[p] \in U
    <3> HIDE DEF f
    <3> QED
      OBVIOUS
  <2> QED
    BY <2>1
<1> HIDE DEF U, f
<1>5. ~(Session \subseteq U)
  <2> SUFFICES ASSUME Session \in SUBSET U PROVE FALSE
    OBVIOUS
  <2>1. IsFiniteSet(Session) /\ Cardinality(Session) <= Cardinality(U)
    BY <1>3, FS_Subset
  <2>2. Cardinality(Session) \in Nat /\ Cardinality(U) \in Nat /\ Cardinality(Proc) \in Nat
    BY <1>1, <1>3, <2>1, FS_CardinalityType
  <2> QED
    BY <1>1, <1>3, <2>1, <2>2
<1>6. PICK x \in Session : x \notin U
  BY <1>5
<1>7. GroupsOf(sessions, x) = {}
  <2> SUFFICES ASSUME NEW g \in Pid, sessions[g] = x PROVE FALSE
    BY DEF GroupsOf
  <2>1. pgrp[g].session = x /\ Exists(g)
    BY Facts, <1>6, Constants DEF Exists
  <2>2. Of(g) # {}
    BY <2>1 DEF GroupInv, Lists
  <2>3. PICK p \in Proc : proc[p].pgid = g
    BY <2>2 DEF Of
  <2>4. SessionOf(p) = x
    BY <2>1, <2>3 DEF SessionOf
  <2> QED
    BY <1>4, <1>6, <2>4
<1>8. Cardinality(GroupsOf(sessions, x)) = 0
  BY <1>7, FS_EmptySet
<1>9. session[x] = NoSession
  BY <1>6, <1>8 DEF GroupInv, Counts, GroupsOf
<1> QED
  BY <1>6, <1>9
-----------------------------------------------------------------------------
(* A process leaves its group.                                             *)

\* m goes on where nx does, past p.
Skips(nx, m, p, S) == \A q \in S \ {p} : m[q] = IF nx[q] = p THEN nx[p] ELSE nx[q]

LEMMA ListSkipped ==
  ASSUME NEW nx, NEW m, NEW h, NEW S, NEW p, NEW x, ListOf(nx, h, S), p \in S, Skips(nx, m, p, S),
         x = IF h = p THEN nx[p] ELSE h
  PROVE  ListOf(m, x, S \ {p}) /\ (h = p /\ nx[p] = none <=> S = {p})
<1>1. \A q \in S \ {p} : m[q] = IF nx[q] = p THEN nx[p] ELSE nx[q]
  BY DEF Skips
<1> QED
  BY <1>1, ListRemoved

\* u are the entries when p is off the list of group a.
Off(u, p, a) ==
  \A q \in Proc : u[q] = IF q \in Of(a) /\ nxt[q] = p THEN [proc[q] EXCEPT !.pgrpnxt = nxt[p]] ELSE proc[q]

LEMMA Leaves ==
  ASSUME GroupInv, NEW p \in Proc, proc[p].stat # "free", NEW a, a = proc[p].pgid
  PROVE  /\ Off(Unlinked(p), p, a)
         /\ Unlinked(p) \in [Proc -> Entry]
         /\ Emptied(p) <=> Of(a) = {p}
         /\ ListOf([q \in Proc |-> IF q \in Of(a) /\ nxt[q] = p THEN nxt[p] ELSE nxt[q]],
                   IF pgrp[a].mem = p THEN nxt[p] ELSE pgrp[a].mem, Of(a) \ {p})
<1>1. a \in Pid /\ p \in Of(a)
  BY Facts
<1>2. Range(Members(a)) = Of(a)
  BY <1>1, GroupList
<1>3. \A q \in Proc : nxt[q] = proc[q].pgrpnxt
  BY DEF nxt
<1>4. Unlinked(p) = [q \in Proc |-> IF q \in Of(a) /\ nxt[q] = p
                                    THEN [proc[q] EXCEPT !.pgrpnxt = nxt[p]] ELSE proc[q]]
  BY <1>2, <1>3 DEF Unlinked
<1>5. proc \in [Proc -> Entry]
  BY EntryIs
<1>6. \A q \in Proc : Unlinked(p)[q] \in Entry
  <2> TAKE q \in Proc
  <2>1. CASE q \in Of(a) /\ nxt[q] = p
    <3>1. nxt[p] \in Proc \cup {none}
      BY <1>3, <1>5 DEF Entry
    <3>2. Unlinked(p)[q] = [proc[q] EXCEPT !.pgrpnxt = nxt[p]]
      BY <1>4, <2>1
    <3> QED
      BY <1>5, <3>1, <3>2 DEF Entry
  <2>2. CASE ~(q \in Of(a) /\ nxt[q] = p)
    BY <1>4, <1>5, <2>2
  <2> QED
    BY <2>1, <2>2
<1>7. PICK nx : nx = nxt
  OBVIOUS
<1>8. PICK m : m = [q \in Proc |-> IF q \in Of(a) /\ nx[q] = p THEN nx[p] ELSE nx[q]]
  OBVIOUS
<1>9. PICK h : h = pgrp[a].mem
  OBVIOUS
<1>10. ListOf(nx, h, Of(a))
  BY <1>1, <1>7, <1>9 DEF GroupInv, Lists
<1>11. PICK S : S = Of(a)
  OBVIOUS
<1>12. \A q \in S \ {p} : m[q] = IF nx[q] = p THEN nx[p] ELSE nx[q]
  BY <1>8, <1>11 DEF Of
<1>13. /\ ListOf(m, IF h = p THEN nx[p] ELSE h, S \ {p})
       /\ h = p /\ nx[p] = none <=> S = {p}
  BY <1>1, <1>10, <1>11, <1>12, ListRemoved
<1>14. Emptied(p) <=> Of(a) = {p}
  BY <1>3, <1>7, <1>9, <1>11, <1>13 DEF Emptied
<1>15. Off(Unlinked(p), p, a)
  BY <1>4 DEF Off
<1> QED
  BY <1>4, <1>5, <1>6, <1>7, <1>8, <1>9, <1>11, <1>13, <1>14, <1>15

-----------------------------------------------------------------------------
(* enterpgrp()                                                             *)

MayEnter(p, g, mksess) ==
  /\ p # init /\ Works(proc, p) /\ proc[p].stat # "free" /\ mksess \in BOOLEAN
  /\ g \in FirstPid .. PID_MAX - 1 /\ g # proc[p].pgid
  /\ mksess => ~Exists(g)
  /\ g = proc[p].pid \/ Exists(g)

\* The session of p, or the new one, and what is counted in it.
Joins(p, g, s, S, ss) ==
  /\ s \in Session /\ s # sessions[1]
  /\ S = [h \in Pid |-> IF h = g /\ ~Exists(g) THEN s ELSE sessions[h]]
  /\ ss \in Sessions /\ Counts(ss, S)

\* As enterpgrp() picks them.
Picks(p, g, mksess, s, S, ss) ==
  /\ s = IF mksess THEN CHOOSE x \in Session : session[x] = NoSession ELSE SessionOf(p)
  /\ ss = IF mksess THEN [session EXCEPT ![s] = [leader |-> p, count |-> 1]]
          ELSE IF ~Exists(g) THEN [session EXCEPT ![s].count = @ + 1] ELSE session
  /\ S = [h \in Pid |-> IF h = g /\ ~Exists(g) THEN s ELSE sessions[h]]

LEMMA EnterSessions ==
  ASSUME GroupInv, NEW p \in Proc, NEW g, NEW mksess, MayEnter(p, g, mksess),
         NEW s, NEW S, NEW ss, Picks(p, g, mksess, s, S, ss)
  PROVE  Joins(p, g, s, S, ss)
<1>0. /\ s = IF mksess THEN CHOOSE x \in Session : session[x] = NoSession ELSE SessionOf(p)
      /\ ss = IF mksess THEN [session EXCEPT ![s] = [leader |-> p, count |-> 1]]
              ELSE IF ~Exists(g) THEN [session EXCEPT ![s].count = @ + 1] ELSE session
      /\ S = [h \in Pid |-> IF h = g /\ ~Exists(g) THEN s ELSE sessions[h]]
  BY DEF Picks
<1>1. /\ session \in Sessions /\ Counts(session, sessions) /\ InitAlone /\ Numbers
      /\ g \in Pid /\ 1 \in Pid /\ g # 1 /\ init \in Proc /\ none \notin Session
  BY TypesAre, Constants DEF GroupInv, Sessions, MayEnter
<1>2. sessions[1] \in Session /\ sessions[1] = pgrp[1].session
  BY <1>1, Facts DEF Numbers, SessionOf
<1>3. ASSUME NEW x \in Session, session[x] = NoSession PROVE \A h \in Pid : sessions[h] # x
  <2> SUFFICES ASSUME NEW h \in Pid, sessions[h] = x PROVE FALSE
    OBVIOUS
  <2>1. h \in GroupsOf(sessions, x)
    BY DEF GroupsOf
  <2>2. Cardinality(GroupsOf(sessions, x)) = 0
    BY <1>1, <1>3 DEF Counts, GroupsOf, NoSession
  <2> QED
    BY <2>1, <2>2, GroupsAreFinite, FS_EmptySet
<1>4. s \in Session /\ s # sessions[1]
  <2>1. CASE mksess
    <3>1. s \in Session /\ session[s] = NoSession
      BY <1>0, <2>1, FreeSession
    <3> QED
      BY <1>1, <1>3, <3>1
  <2>2. CASE ~mksess
    <3>1. s = SessionOf(p) /\ s \in Session
      BY <1>0, <2>2, Facts DEF MayEnter
    <3>2. PICK a : a = proc[p].pgid
      OBVIOUS
    <3>3. a \in Pid /\ a # 1 /\ s = sessions[a]
      BY <1>1, <3>1, <3>2, Facts, Constants DEF MayEnter, Numbers, SessionOf
    <3> QED
      BY <1>1, <3>1, <3>3 DEF InitAlone
  <2> QED
    BY <2>1, <2>2
<1>5. CASE Exists(g)
  <2>1. ss = session /\ ~mksess
    BY <1>0, <1>5 DEF MayEnter
  <2>2. \A h \in Pid : S[h] = sessions[h]
    BY <1>0, <1>5
  <2>3. Counts(ss, S)
    <3>1. \A x \in Session : GroupsOf(S, x) = GroupsOf(sessions, x)
      BY <2>2 DEF GroupsOf
    <3> QED
      BY <1>1, <2>1, <3>1 DEF Counts, GroupsOf
  <2> QED
    BY <1>0, <1>1, <1>4, <2>1, <2>3 DEF Joins
<1>6. CASE ~Exists(g)
  <2>1. Differs(sessions, S, g, s) /\ sessions[g] = none
    BY <1>0, <1>1, <1>6, Facts DEF Differs, Exists
  <2>2. session[s].count \in Nat /\ p \in Proc \cup {none}
    BY <1>1, <1>4 DEF Sessions
  <2>3. ss \in Sessions /\ ss[s].count = session[s].count + 1 /\ \A x \in Session \ {s} : ss[x] = session[x]
    <3>1. CASE mksess
      <4>1. session[s] = NoSession
        BY <1>0, <3>1, FreeSession
      <4>2. ss = [session EXCEPT ![s] = [leader |-> p, count |-> 1]]
        BY <1>0, <3>1
      <4> QED
        BY <1>1, <1>4, <2>2, <4>1, <4>2 DEF Sessions, NoSession
    <3>2. CASE ~mksess
      <4>1. PICK n : n = session[s].count + 1
        OBVIOUS
      <4>3. n \in Nat
        BY <2>2, <4>1
      <4>2. ss = [session EXCEPT ![s].count = n]
        BY <1>0, <1>6, <3>2, <4>1
      <4> QED
        BY <1>1, <1>4, <4>1, <4>2, <4>3 DEF Sessions
    <3> QED
      BY <3>1, <3>2
  <2>4. Counts(ss, S)
    <3>1. PICK gs : gs = sessions
      OBVIOUS
    <3>2. Counts(session, gs) /\ Differs(gs, S, g, s) /\ gs[g] = none
      BY <1>1, <2>1, <3>1
    <3>3. Grows(session, ss, s)
      BY <1>4, <2>3 DEF Grows
    <3> QED
      BY <3>2, <3>3, CountsAdded
  <2> QED
    BY <1>0, <1>4, <2>3, <2>4 DEF Joins
<1> QED
  BY <1>5, <1>6

LEMMA ShareType ==
  ASSUME NEW ps, NEW gs, NEW p, NEW g, NEW h
  PROVE  Share(ps, gs, p, g, h) \in Nat
<1>1. KidsIn(ps, p, h) \in SUBSET Proc
  BY DEF KidsIn
<1>2. IsFiniteSet(KidsIn(ps, p, h))
  BY <1>1, Constants, FS_Subset
<1>3. Cardinality(KidsIn(ps, p, h)) \in Nat
  BY <1>2, FS_CardinalityType
<1> QED
  BY <1>3 DEF Share

\* What enterpgrp() makes of the groups and the entries: S and J are the sessions and
\* the counts of the groups before p's old group a goes, if it does.
Enters(p, g, a, S, J) ==
  /\ pgrp' = [h \in Pid |->
       IF h = g THEN [session |-> S[h], jobc |-> J[h], mem |-> p]
       ELSE IF h # a THEN [session |-> S[h], jobc |-> J[h], mem |-> pgrp[h].mem]
       ELSE IF Of(a) = {p} THEN NoGroup
       ELSE [session |-> S[h], jobc |-> J[h], mem |-> IF pgrp[a].mem = p THEN nxt[p] ELSE pgrp[a].mem]]
  /\ proc' = [q \in Proc |-> IF q = p THEN [proc[p] EXCEPT !.pgid = g, !.pgrpnxt = pgrp[g].mem]
                             ELSE Unlinked(p)[q]]
Recounted(p, g, a, S, J) ==
  \A h \in Pid : J[h] = jobcs[h] + Share(proc, S, p, g, h) - Share(proc, S, p, a, h)

GroupRec == [session : Session \cup {none}, jobc : Int, mem : Proc \cup {none}]

LEMMA EnterIs ==
  ASSUME GroupInv, NEW p \in Proc, NEW g, NEW mksess, MayEnter(p, g, mksess),
         enterpgrp(p, g, mksess), NEW a, a = proc[p].pgid
  PROVE  \E s, S, ss, J : /\ Joins(p, g, s, S, ss) /\ Recounted(p, g, a, S, J) /\ Enters(p, g, a, S, J)
                          /\ session' = IF Of(a) = {p} THEN Dropped(ss, sessions[a]) ELSE ss
<1> DEFINE new == ~Exists(g)
           s == IF mksess THEN CHOOSE x \in Session : session[x] = NoSession ELSE SessionOf(p)
           made == IF new THEN [pgrp EXCEPT ![g] = [NoGroup EXCEPT !.session = s]] ELSE pgrp
           S == [h \in Pid |-> made[h].session]
           J == fixjobc(fixjobc(jobcs, S, p, g, 1), S, p, proc[p].pgid, -1)
           counted == [h \in Pid |-> [made[h] EXCEPT !.jobc = J[h]]]
           left == Without(counted, p)
           ss == IF mksess THEN [session EXCEPT ![s] = [leader |-> p, count |-> 1]]
                 ELSE IF new THEN [session EXCEPT ![s].count = @ + 1] ELSE session
<1>1. /\ a \in Pid /\ g \in Pid /\ g # a /\ p \in Of(a) /\ proc[p].stat # "free"
      /\ pgrp \in [Pid -> GroupRec] /\ proc \in [Proc -> Entry]
      /\ p \in Proc \cup {none} /\ none \notin Proc
  BY Facts, Constants, TypesAre DEF MayEnter, GroupInv, GroupRec
<1>2. s = IF mksess THEN CHOOSE x \in Session : session[x] = NoSession ELSE SessionOf(p)
  OBVIOUS
<1>3. made = IF new THEN [pgrp EXCEPT ![g] = [NoGroup EXCEPT !.session = s]] ELSE pgrp
  OBVIOUS
<1>4. S = [h \in Pid |-> made[h].session]
  OBVIOUS
<1>5. J = fixjobc(fixjobc(jobcs, S, p, g, 1), S, p, a, -1)
  OBVIOUS
<1>6. counted = [h \in Pid |-> [made[h] EXCEPT !.jobc = J[h]]]
  OBVIOUS
<1>7. left = Without(counted, p)
  OBVIOUS
<1>8. ss = IF mksess THEN [session EXCEPT ![s] = [leader |-> p, count |-> 1]]
           ELSE IF new THEN [session EXCEPT ![s].count = @ + 1] ELSE session
  OBVIOUS
<1>9. /\ proc' = [Unlinked(p) EXCEPT ![p].pgid = g, ![p].pgrpnxt = left[g].mem]
      /\ pgrp' = [left EXCEPT ![g].mem = p]
      /\ session' = IF Emptied(p) THEN Dropped(ss, SessionOf(p)) ELSE ss
  BY Zenon DEF enterpgrp
<1> HIDE DEF s, made, S, J, counted, left, ss
<1>10. /\ made \in [Pid -> [session : Session \cup {none, s}, jobc : Int, mem : Proc \cup {none}]]
       /\ \A h \in Pid : /\ made[h].session = IF h = g /\ new THEN s ELSE sessions[h]
                         /\ made[h].mem = pgrp[h].mem
  <2>1. new => pgrp[g] = NoGroup
    BY <1>1 DEF GroupInv, Lists
  <2>2. \A h \in Pid : sessions[h] = pgrp[h].session
    BY DEF sessions
  <2>3. CASE new
    <3>1. PICK r : r = [NoGroup EXCEPT !.session = s]
      OBVIOUS
    <3>2. r = [session |-> s, jobc |-> 0, mem |-> none]
      BY <3>1 DEF NoGroup
    <3>3. made = [pgrp EXCEPT ![g] = r]
      BY <1>3, <2>3, <3>1
    <3> QED
      BY <1>1, <2>1, <2>2, <2>3, <3>2, <3>3 DEF NoGroup, GroupRec
  <2>4. CASE ~new
    BY <1>1, <1>3, <2>2, <2>4 DEF GroupRec
  <2> QED
    BY <2>3, <2>4
<1>11. S = [h \in Pid |-> IF h = g /\ ~Exists(g) THEN s ELSE sessions[h]]
  BY <1>4, <1>10
<1>12. Joins(p, g, s, S, ss)
  <2>1. Picks(p, g, mksess, s, S, ss)
    BY <1>2, <1>8, <1>11 DEF Picks
  <2> QED
    BY <2>1, EnterSessions
<1>13. \A h \in Pid : jobcs[h] \in Int
  BY <1>1 DEF jobcs, GroupRec
<1>14. Recounted(p, g, a, S, J)
  <2> SUFFICES ASSUME NEW h \in Pid
               PROVE  J[h] = jobcs[h] + Share(proc, S, p, g, h) - Share(proc, S, p, a, h)
    BY DEF Recounted
  <2>1. PICK j : j = fixjobc(jobcs, S, p, g, 1)
    OBVIOUS
  <2>2. j[h] = jobcs[h] + 1 * Share(proc, S, p, g, h)
    BY <2>1, fixjobcIs
  <2>3. PICK n : n = -1
    OBVIOUS
  <2>4. J = fixjobc(j, S, p, a, n)
    BY <1>5, <2>1, <2>3
  <2>5. J[h] = j[h] + n * Share(proc, S, p, a, h)
    BY <2>4, fixjobcIs
  <2> QED
    BY <1>13, <2>2, <2>3, <2>5, ShareType
<1>15. \A h \in Pid : counted[h] = [session |-> S[h], jobc |-> J[h], mem |-> pgrp[h].mem]
  <2> TAKE h \in Pid
  <2>1. counted[h] = [made[h] EXCEPT !.jobc = J[h]]
    BY <1>6
  <2> QED
    BY <1>4, <1>10, <2>1
<1>16. /\ Emptied(p) <=> Of(a) = {p}
       /\ Unlinked(p) \in [Proc -> Entry]
  BY <1>1, Leaves
<1>17. /\ left = [h \in Pid |-> left[h]]
       /\ \A h \in Pid : left[h] =
            IF h # a THEN [session |-> S[h], jobc |-> J[h], mem |-> pgrp[h].mem]
            ELSE IF Of(a) = {p} THEN NoGroup
            ELSE [session |-> S[h], jobc |-> J[h], mem |-> IF pgrp[a].mem = p THEN nxt[p] ELSE pgrp[a].mem]
  <2>1. nxt[p] = proc[p].pgrpnxt /\ counted = [h \in Pid |-> counted[h]]
    BY <1>6 DEF nxt
  <2>5. counted[a] = [session |-> S[a], jobc |-> J[a], mem |-> pgrp[a].mem]
    BY <1>1, <1>15
  <2>2. CASE Of(a) = {p}
    <3>1. left = [counted EXCEPT ![a] = NoGroup]
      BY <1>7, <1>16, <2>2 DEF Without
    <3> QED
      BY <1>1, <1>15, <2>1, <2>2, <3>1
  <2>3. CASE Of(a) # {p} /\ pgrp[a].mem = p
    <3>1. counted[a].mem = p
      BY <2>3, <2>5
    <3>2. PICK m : m = nxt[p]
      OBVIOUS
    <3>3. left = [counted EXCEPT ![a].mem = m]
      BY <1>7, <1>16, <2>1, <2>3, <3>1, <3>2 DEF Without
    <3>5. left[a] = [session |-> S[a], jobc |-> J[a], mem |-> m]
      BY <1>1, <2>1, <2>5, <3>3
    <3> QED
      BY <1>1, <1>15, <2>1, <2>3, <3>2, <3>3, <3>5
  <2>4. CASE Of(a) # {p} /\ pgrp[a].mem # p
    <3>1. counted[a].mem # p
      BY <2>4, <2>5
    <3>2. left = counted
      BY <1>7, <1>16, <2>4, <3>1 DEF Without
    <3> QED
      BY <1>15, <2>1, <2>4, <3>2
  <2> QED
    BY <2>2, <2>3, <2>4
<1>18. left[g] = [session |-> S[g], jobc |-> J[g], mem |-> pgrp[g].mem]
  BY <1>1, <1>17
<1>19. Enters(p, g, a, S, J)
  <2>1. pgrp' = [h \in Pid |-> pgrp'[h]] /\ \A h \in Pid \ {g} : pgrp'[h] = left[h]
    BY <1>9, <1>17
  <2>2. pgrp'[g] = [session |-> S[g], jobc |-> J[g], mem |-> p]
    BY <1>1, <1>9, <1>17, <1>18
  <2>3. PICK m : m = pgrp[g].mem
    OBVIOUS
  <2>4. proc' = [Unlinked(p) EXCEPT ![p].pgid = g, ![p].pgrpnxt = m]
    BY <1>9, <1>18, <2>3
  <2>5. PICK u : u = Unlinked(p)
    OBVIOUS
  <2>6. u \in [Proc -> Entry] /\ u[p] \in Entry /\ proc[p] \in Entry
    BY <1>1, <1>16, <2>5
  <2>7. u[p] = proc[p] \/ u[p] = [proc[p] EXCEPT !.pgrpnxt = nxt[p]]
    <3>1. Off(u, p, a)
      BY <1>1, <2>5, Leaves
    <3> QED
      BY <1>1, <3>1 DEF Off
  <2>8. [u[p] EXCEPT !.pgid = g, !.pgrpnxt = m] = [proc[p] EXCEPT !.pgid = g, !.pgrpnxt = m]
    BY <2>6, <2>7 DEF Entry
  <2>9. proc' = [u EXCEPT ![p] = [proc[p] EXCEPT !.pgid = g, !.pgrpnxt = m]]
    BY <2>4, <2>5, <2>6, <2>8
  <2>10. proc' = [q \in Proc |-> IF q = p THEN [proc[p] EXCEPT !.pgid = g, !.pgrpnxt = pgrp[g].mem]
                                 ELSE Unlinked(p)[q]]
    BY <2>3, <2>5, <2>6, <2>9
  <2>11. pgrp' = [h \in Pid |->
       IF h = g THEN [session |-> S[h], jobc |-> J[h], mem |-> p]
       ELSE IF h # a THEN [session |-> S[h], jobc |-> J[h], mem |-> pgrp[h].mem]
       ELSE IF Of(a) = {p} THEN NoGroup
       ELSE [session |-> S[h], jobc |-> J[h], mem |-> IF pgrp[a].mem = p THEN nxt[p] ELSE pgrp[a].mem]]
    BY <1>17, <2>1, <2>2
  <2> QED
    BY <2>10, <2>11 DEF Enters
<1>20. SessionOf(p) = sessions[a]
  BY <1>1 DEF SessionOf, sessions
<1> QED
  BY <1>9, <1>12, <1>14, <1>16, <1>19, <1>20
-----------------------------------------------------------------------------
(* enterpgrp() keeps the invariant.                                        *)

Entering(p, g, a, s, S, ss, J) ==
  /\ p \in Proc /\ a = proc[p].pgid
  /\ p # init /\ Works(proc, p) /\ proc[p].stat # "free"
  /\ g \in FirstPid .. PID_MAX - 1 /\ g # a
  /\ g = proc[p].pid \/ Exists(g)
  /\ Joins(p, g, s, S, ss) /\ Recounted(p, g, a, S, J) /\ Enters(p, g, a, S, J)
  /\ session' = IF Of(a) = {p} THEN Dropped(ss, sessions[a]) ELSE ss

\* Where a process is after the step.
MovedTo(q, p, g, a) ==
  /\ proc'[q] \in Entry
  /\ proc'[q].stat = proc[q].stat /\ proc'[q].pid = proc[q].pid /\ proc'[q].pptr = proc[q].pptr
  /\ proc'[q].pgid = IF q = p THEN g ELSE proc[q].pgid
  /\ nxt'[q] = IF q = p THEN pgrp[g].mem ELSE IF q \in Of(a) /\ nxt[q] = p THEN nxt[p] ELSE nxt[q]

LEMMA Moved ==
  ASSUME GroupInv, NEW p, NEW g, NEW a, NEW s, NEW S, NEW ss, NEW J, Entering(p, g, a, s, S, ss, J)
  PROVE  /\ proc' \in [Proc -> Entry] /\ \A q \in Proc : MovedTo(q, p, g, a)
         /\ p \in Proc /\ a \in Pid /\ g \in Pid /\ a # g /\ p \in Of(a) /\ p \notin Of(g)
         /\ a # 1 /\ g # 1
<1>1. /\ p \in Proc /\ p # init /\ proc[p].stat # "free" /\ a = proc[p].pgid
      /\ g \in FirstPid .. PID_MAX - 1 /\ g # a
      /\ proc' = [q \in Proc |-> IF q = p THEN [proc[p] EXCEPT !.pgid = g, !.pgrpnxt = pgrp[g].mem]
                                 ELSE Unlinked(p)[q]]
  BY DEF Entering, Enters
<1>2. a \in Pid /\ g \in Pid /\ p \in Of(a) /\ a # 1 /\ g # 1
  BY <1>1, Facts, Constants DEF GroupInv, Numbers
<1>3. p \notin Of(g)
  BY <1>1 DEF Of
<1>4. /\ proc \in [Proc -> Entry] /\ pgrp[g].mem \in Proc \cup {none}
      /\ Unlinked(p) \in [Proc -> Entry]
  BY <1>1, <1>2, TypesAre, Leaves DEF GroupInv
<1>5. nxt'[p] = proc'[p].pgrpnxt /\ \A q \in Proc : nxt'[q] = proc'[q].pgrpnxt /\ nxt[q] = proc[q].pgrpnxt
  BY <1>1 DEF nxt
<1>6. ASSUME NEW q \in Proc PROVE MovedTo(q, p, g, a)
  <2>1. CASE q = p
    <3>1. PICK m : m = pgrp[g].mem
      OBVIOUS
    <3>2. proc'[q] = [proc[q] EXCEPT !.pgid = g, !.pgrpnxt = m]
      BY <1>1, <2>1, <3>1
    <3>3. proc[q] \in Entry /\ m \in Proc \cup {none} /\ g \in Pid \cup {0}
      BY <1>2, <1>4, <3>1
    <3>4. /\ proc'[q] \in Entry /\ proc'[q].pgid = g /\ proc'[q].pgrpnxt = m
          /\ proc'[q].stat = proc[q].stat /\ proc'[q].pid = proc[q].pid /\ proc'[q].pptr = proc[q].pptr
      BY <3>2, <3>3 DEF Entry
    <3> QED
      BY <1>5, <2>1, <3>1, <3>4 DEF MovedTo
  <2>2. CASE q # p
    <3>1. proc'[q] = Unlinked(p)[q] /\ proc'[q] \in Entry
      BY <1>1, <1>4, <2>2
    <3>2. proc'[q] = IF q \in Of(a) /\ nxt[q] = p THEN [proc[q] EXCEPT !.pgrpnxt = nxt[p]] ELSE proc[q]
      <4>1. Unlinked(p)[q] = IF q \in Of(a) /\ nxt[q] = p THEN [proc[q] EXCEPT !.pgrpnxt = nxt[p]] ELSE proc[q]
        <5>1. Off(Unlinked(p), p, a)
          BY <1>1, Leaves
        <5> QED
          BY <5>1 DEF Off
      <4> QED
        BY ONLY <3>1, <4>1
    <3>3. proc[q] \in Entry
      BY <1>4
    <3>4. CASE q \in Of(a) /\ nxt[q] = p
      <4>1. PICK m : m = nxt[p]
        OBVIOUS
      <4>2. proc'[q] = [proc[q] EXCEPT !.pgrpnxt = m]
        BY <3>2, <3>4, <4>1
      <4>3. /\ proc'[q].pgid = proc[q].pgid /\ proc'[q].pgrpnxt = m
            /\ proc'[q].stat = proc[q].stat /\ proc'[q].pid = proc[q].pid /\ proc'[q].pptr = proc[q].pptr
        BY <3>3, <4>2 DEF Entry
      <4> QED
        BY <1>5, <2>2, <3>1, <3>4, <4>1, <4>3 DEF MovedTo
    <3>5. CASE ~(q \in Of(a) /\ nxt[q] = p)
      <4>1. proc'[q] = proc[q]
        BY <3>2, <3>5
      <4>2. nxt'[q] = nxt[q]
        BY <1>5, <4>1
      <4> QED
        BY <2>2, <3>1, <3>5, <4>1, <4>2 DEF MovedTo
    <3> QED
      BY <3>4, <3>5
  <2> QED
    BY <2>1, <2>2
<1>7. proc' \in [Proc -> Entry]
  <2>1. \A q \in Proc : proc'[q] \in Entry
    BY <1>6 DEF MovedTo
  <2>2. proc' = [q \in Proc |-> proc'[q]]
    BY <1>1
  <2> QED
    BY <2>1, <2>2
<1> QED
  BY <1>1, <1>2, <1>3, <1>6, <1>7

LEMMA MovedLists ==
  ASSUME GroupInv, NEW p, NEW g, NEW a, NEW s, NEW S, NEW ss, NEW J, Entering(p, g, a, s, S, ss, J)
  PROVE  /\ Lists'
         /\ Of(g)' = Of(g) \cup {p} /\ Of(a)' = Of(a) \ {p}
         /\ \A h \in Pid \ {a, g} : Of(h)' = Of(h)
<1>1. /\ \A q \in Proc : MovedTo(q, p, g, a)
      /\ p \in Proc /\ a \in Pid /\ g \in Pid /\ a # g /\ p \in Of(a) /\ p \notin Of(g)
      /\ a # 1 /\ g # 1
  BY Moved
<1>2. Lists /\ proc[p].stat # "free" /\ a = proc[p].pgid
  BY DEF GroupInv, Entering
<1>3. ASSUME NEW h \in Pid
      PROVE  \A q \in Proc : q \in Of(h)' <=> IF q = p THEN h = g ELSE q \in Of(h)
  BY <1>1, <1>2 DEF Of, MovedTo
<1>4. \A h \in Pid : Of(h) \in SUBSET Proc /\ Of(h)' \in SUBSET Proc
  BY DEF Of
<1>5. Of(g)' = Of(g) \cup {p}
  BY <1>1, <1>3, <1>4
<1>6. Of(a)' = Of(a) \ {p}
  BY <1>1, <1>3, <1>4
<1>7. \A h \in Pid \ {a, g} : Of(h)' = Of(h)
  <2> SUFFICES ASSUME NEW h \in Pid \ {a, g} PROVE Of(h)' = Of(h)
    OBVIOUS
  <2>1. p \notin Of(h)
    BY <1>2 DEF Of
  <2> QED
    BY <1>3, <1>4, <2>1
<1>8. /\ pgrp'[g].mem = p /\ pgrp'[g].session = S[g]
      /\ Of(a) = {p} => pgrp'[a] = NoGroup
      /\ Of(a) # {p} => /\ pgrp'[a].mem = IF pgrp[a].mem = p THEN nxt[p] ELSE pgrp[a].mem
                        /\ pgrp'[a].session = S[a]
      /\ \A h \in Pid \ {a, g} : pgrp'[h] = [session |-> S[h], jobc |-> J[h], mem |-> pgrp[h].mem]
  BY <1>1 DEF Entering, Enters
<1>9. /\ s \in Session /\ none \notin Session
      /\ \A h \in Pid : S[h] = IF h = g /\ ~Exists(g) THEN s ELSE pgrp[h].session
  <2>1. \A h \in Pid : sessions[h] = pgrp[h].session
    BY DEF sessions
  <2> QED
    BY <2>1, Constants DEF Entering, Joins
<1>10. PICK nx : nx = nxt
  OBVIOUS
<1>11. PICK m : m = nxt'
  OBVIOUS
<1>12. \A q \in Proc : m[q] = IF q = p THEN pgrp[g].mem ELSE IF q \in Of(a) /\ nx[q] = p THEN nx[p] ELSE nx[q]
  BY <1>1, <1>10, <1>11 DEF MovedTo
<1>13. \A h \in Pid : ListOf(nx, pgrp[h].mem, Of(h))
  BY <1>2, <1>10 DEF Lists
<1>14. \A h \in Pid \ {a} : Of(h) \cap Of(a) = {}
  BY <1>2 DEF Of
<1>15. ListOf(m, pgrp'[g].mem, Of(g)')
  <2>1. PICK x : x = pgrp[g].mem
    OBVIOUS
  <2>2. PICK T : T = Of(g)
    OBVIOUS
  <2>3. ListOf(nx, x, T) /\ p \in Proc \ T
    BY <1>1, <1>13, <2>1, <2>2
  <2>4. m[p] = x
    BY <1>1, <1>12, <2>1
  <2>5. \A q \in T : m[q] = nx[q]
    BY <1>1, <1>4, <1>12, <1>14, <2>2
  <2>6. ListOf(m, p, T \cup {p})
    BY <2>3, <2>4, <2>5, ListPushed
  <2> QED
    BY <1>5, <1>8, <2>2, <2>6
<1>16. Of(a) # {p} => ListOf(m, pgrp'[a].mem, Of(a)')
  <2> SUFFICES ASSUME Of(a) # {p} PROVE ListOf(m, pgrp'[a].mem, Of(a)')
    OBVIOUS
  <2>1. PICK x : x = pgrp[a].mem
    OBVIOUS
  <2>2. PICK T : T = Of(a)
    OBVIOUS
  <2>3. ListOf(nx, x, T) /\ p \in T
    BY <1>1, <1>13, <2>1, <2>2
  <2>4. \A q \in T \ {p} : m[q] = IF nx[q] = p THEN nx[p] ELSE nx[q]
    BY <1>1, <1>4, <1>12, <2>2
  <2>5. Skips(nx, m, p, T)
    BY <2>4 DEF Skips
  <2>6. PICK y : y = IF x = p THEN nx[p] ELSE x
    OBVIOUS
  <2>7. ListOf(m, y, T \ {p})
    BY <2>3, <2>5, <2>6, ListSkipped
  <2> QED
    BY <1>6, <1>8, <1>10, <2>1, <2>2, <2>6, <2>7
<1>17. Of(a) = {p} => ListOf(m, pgrp'[a].mem, Of(a)') /\ Of(a)' = {} /\ ~Exists(a)'
  <2> SUFFICES ASSUME Of(a) = {p} PROVE ListOf(m, pgrp'[a].mem, Of(a)') /\ Of(a)' = {} /\ ~Exists(a)'
    OBVIOUS
  <2>1. Of(a)' = {} /\ pgrp'[a].mem = none /\ pgrp'[a].session = none
    BY <1>6, <1>8 DEF NoGroup
  <2>2. ListOf(m, none, {})
    <3>1. <<>> \in Seq(Proc) /\ Len(<<>>) = 0
      BY EmptySeq
    <3>2. IsList(m, none, <<>>) /\ Once(<<>>)
      <4>1. \A i \in 1 .. 0 : FALSE
        OBVIOUS
      <4> QED
        BY <3>1, <4>1 DEF IsList, Once
    <3>3. Range(<<>>) = {}
      BY <3>1, OnList
    <3> QED
      BY <3>2, <3>3 DEF ListOf
  <2> QED
    BY <2>1, <2>2 DEF Exists
<1>18. \A h \in Pid \ {a, g} : ListOf(m, pgrp'[h].mem, Of(h)')
  <2> SUFFICES ASSUME NEW h \in Pid \ {a, g} PROVE ListOf(m, pgrp'[h].mem, Of(h)')
    OBVIOUS
  <2>1. PICK x : x = pgrp[h].mem
    OBVIOUS
  <2>2. PICK T : T = Of(h)
    OBVIOUS
  <2>3. ListOf(nx, x, T)
    BY <1>13, <2>1, <2>2
  <2>4. p \notin T
    BY <1>2, <2>2 DEF Of
  <2>5. \A q \in T : m[q] = nx[q]
    BY <1>4, <1>12, <1>14, <2>2, <2>4
  <2>6. ListOf(m, x, T)
    BY <2>3, <2>5, ListKept
  <2>7. Of(h)' = T /\ pgrp'[h] = [session |-> S[h], jobc |-> J[h], mem |-> x]
    BY <1>7, <1>8, <2>1, <2>2
  <2> QED
    BY <2>6, <2>7
<1>19. ASSUME NEW h \in Pid
       PROVE  ListOf(m, pgrp'[h].mem, Of(h)') /\ (Exists(h)' <=> Of(h)' # {})
              /\ (~Exists(h)' => pgrp'[h] = NoGroup)
  <2>1. Exists(h) <=> Of(h) # {}
    BY <1>2 DEF Lists
  <2>2. Exists(h) <=> pgrp[h].session # none
    BY DEF Exists
  <2>3. Exists(h)' <=> pgrp'[h].session # none
    BY DEF Exists
  <2>4. CASE h = g
    <3>1. Exists(h)'
      BY <1>8, <1>9, <2>2, <2>3, <2>4
    <3> QED
      BY <1>5, <1>15, <2>4, <3>1
  <2>5. CASE h = a /\ Of(a) = {p}
    BY <1>8, <1>17, <2>5
  <2>6. CASE h = a /\ Of(a) # {p}
    <3>1. Exists(h)' /\ Of(h)' # {}
      BY <1>1, <1>6, <1>8, <1>9, <2>1, <2>2, <2>3, <2>6
    <3> QED
      BY <1>16, <2>6, <3>1
  <2>7. CASE h \in Pid \ {a, g}
    <3>4. pgrp'[h] = [session |-> S[h], jobc |-> J[h], mem |-> pgrp[h].mem]
      BY <1>8, <2>7
    <3>5. S[h] = pgrp[h].session
      BY <1>9, <2>7
    <3>1. pgrp'[h].session = pgrp[h].session
      BY <3>4, <3>5
    <3>2. Exists(h)' <=> Of(h)' # {}
      BY <1>7, <2>1, <2>2, <2>3, <2>7, <3>1
    <3>3. ~Exists(h)' => pgrp'[h] = NoGroup
      <4> SUFFICES ASSUME ~Exists(h)' PROVE pgrp'[h] = NoGroup
        OBVIOUS
      <4>1. pgrp[h] = NoGroup
        BY <1>2, <2>2, <2>3, <3>1 DEF Lists
      <4>2. pgrp[a].session # none /\ (Exists(g) => pgrp[g].session # none)
        BY <1>1, <1>2 DEF Lists, Exists
      <4>3. S[h] = none /\ S[a] # none /\ S[g] # none
        BY <1>1, <1>9, <2>7, <3>5, <4>1, <4>2 DEF NoGroup
      <4>4. Share(proc, S, p, g, h) = 0 /\ Share(proc, S, p, a, h) = 0
        BY <2>7, <4>3 DEF Share
      <4>5. J[h] = jobcs[h] + Share(proc, S, p, g, h) - Share(proc, S, p, a, h)
        BY DEF Entering, Recounted
      <4>6. jobcs[h] = 0
        BY <4>1 DEF jobcs, NoGroup
      <4> QED
        BY <3>4, <3>5, <4>1, <4>4, <4>5, <4>6 DEF NoGroup
    <3> QED
      BY <1>18, <2>7, <3>2, <3>3
  <2> QED
    BY <2>4, <2>5, <2>6, <2>7
<1>20. \A q \in Proc : proc'[q].stat = "free" => proc'[q].pgrpnxt = none
  <2> SUFFICES ASSUME NEW q \in Proc, proc'[q].stat = "free" PROVE proc'[q].pgrpnxt = none
    OBVIOUS
  <2>1. q # p /\ q \notin Of(a) /\ proc[q].stat = "free"
    BY <1>1, <1>2 DEF MovedTo, Of
  <2>2. proc[q].pgrpnxt = none
    BY <1>2, <2>1 DEF Lists
  <2>3. nx[q] = none /\ m[q] = proc'[q].pgrpnxt
    BY <1>10, <1>11, <2>2 DEF nxt
  <2> QED
    BY <1>12, <2>1, <2>3
<1>21. Lists'
  BY <1>11, <1>19, <1>20 DEF Lists
<1> QED
  BY <1>5, <1>6, <1>7, <1>21

LEMMA MovedCounts ==
  ASSUME GroupInv, NEW p, NEW g, NEW a, NEW s, NEW S, NEW ss, NEW J, Entering(p, g, a, s, S, ss, J)
  PROVE  /\ Counts(session, sessions)' /\ InitAlone' /\ session' \in Sessions
         /\ pgrp' \in [Pid -> GroupRec]
         /\ \A h \in Pid : Exists(h)' => sessions'[h] = S[h] /\ pgrp'[h].jobc = J[h]
         /\ \A q \in Proc : proc'[q].stat # "free" => Exists(proc[q].pgid)'
<1>1. /\ \A q \in Proc : MovedTo(q, p, g, a)
      /\ p \in Proc /\ a \in Pid /\ g \in Pid /\ a # g /\ p \in Of(a) /\ p \notin Of(g)
      /\ a # 1 /\ g # 1
  BY Moved
<1>2. /\ s \in Session /\ s # sessions[1] /\ none \notin Session /\ ss \in Sessions /\ Counts(ss, S)
      /\ \A h \in Pid : S[h] = IF h = g /\ ~Exists(g) THEN s ELSE sessions[h]
  BY Constants DEF Entering, Joins
<1>3. pgrp \in [Pid -> GroupRec] /\ InitAlone /\ p \in Proc \cup {none}
  BY <1>1, TypesAre DEF GroupInv, GroupRec
<1>4. \A h \in Pid : sessions[h] = pgrp[h].session /\ sessions'[h] = pgrp'[h].session
  BY DEF sessions
<1>5. \A h \in Pid : S[h] \in Session \cup {none} /\ J[h] \in Int
  <2> TAKE h \in Pid
  <2>1. S[h] \in Session \cup {none}
    BY <1>2, <1>3, <1>4 DEF GroupRec
  <2>2. J[h] = jobcs[h] + Share(proc, S, p, g, h) - Share(proc, S, p, a, h)
    BY DEF Entering, Recounted
  <2>3. jobcs[h] \in Int
    BY <1>3 DEF jobcs, GroupRec
  <2> QED
    BY <2>1, <2>2, <2>3, ShareType
<1>6. nxt[p] \in Proc \cup {none}
  BY <1>1, EntryIs DEF nxt, Entry
<1>7. pgrp' = [h \in Pid |->
       IF h = g THEN [session |-> S[h], jobc |-> J[h], mem |-> p]
       ELSE IF h # a THEN [session |-> S[h], jobc |-> J[h], mem |-> pgrp[h].mem]
       ELSE IF Of(a) = {p} THEN NoGroup
       ELSE [session |-> S[h], jobc |-> J[h], mem |-> IF pgrp[a].mem = p THEN nxt[p] ELSE pgrp[a].mem]]
  BY DEF Entering, Enters
<1>8. ASSUME NEW h \in Pid
      PROVE  /\ pgrp'[h] \in GroupRec
             /\ h = a /\ Of(a) = {p} => pgrp'[h] = NoGroup
             /\ ~(h = a /\ Of(a) = {p}) => pgrp'[h].session = S[h] /\ pgrp'[h].jobc = J[h]
  <2>1. PICK m : m = IF h = g THEN p ELSE IF h # a THEN pgrp[h].mem
                     ELSE IF pgrp[a].mem = p THEN nxt[p] ELSE pgrp[a].mem
    OBVIOUS
  <2>2. m \in Proc \cup {none}
    BY <1>1, <1>3, <1>6, <2>1 DEF GroupRec
  <2>3. CASE h = a /\ Of(a) = {p}
    <3>1. pgrp'[h] = NoGroup
      BY <1>1, <1>7, <2>3
    <3> QED
      BY <2>3, <3>1 DEF NoGroup, GroupRec
  <2>4. CASE ~(h = a /\ Of(a) = {p})
    <3>1. pgrp'[h] = [session |-> S[h], jobc |-> J[h], mem |-> m]
      BY <1>1, <1>7, <2>1, <2>4
    <3> QED
      BY <1>5, <2>2, <2>4, <3>1 DEF GroupRec
  <2> QED
    BY <2>3, <2>4
<1>9. pgrp' \in [Pid -> GroupRec]
  BY <1>7, <1>8
<1>10. \A h \in Pid : sessions'[h] = IF h = a /\ Of(a) = {p} THEN none ELSE S[h]
  BY <1>4, <1>8 DEF NoGroup
<1>11. sessions[a] \in Session /\ S[a] = sessions[a]
  <2>1. SessionOf(p) \in Session /\ SessionOf(p) = pgrp[a].session
    BY <1>1, Facts DEF Entering, SessionOf
  <2> QED
    BY <1>1, <1>2, <1>4, <2>1
<1>12. PICK hs : hs = sessions'
  OBVIOUS
<1>13. Counts(session', hs) /\ session' \in Sessions
  <2>1. CASE Of(a) = {p}
    <3>1. Differs(S, hs, a, none)
      BY <1>1, <1>10, <1>12, <2>1 DEF Differs
    <3>2. Counts(Dropped(ss, S[a]), hs) /\ Dropped(ss, S[a]) \in Sessions
      BY <1>2, <1>11, <3>1, CountsDropped
    <3>3. session' = Dropped(ss, S[a])
      BY <1>11, <2>1 DEF Entering
    <3> QED
      BY <3>2, <3>3
  <2>2. CASE Of(a) # {p}
    <3>1. session' = ss
      BY <2>2 DEF Entering
    <3>2. \A x \in Session : GroupsOf(hs, x) = GroupsOf(S, x)
      BY <1>10, <1>12, <2>2 DEF GroupsOf
    <3>3. Counts(ss, hs)
      BY <1>2, <3>2 DEF Counts, GroupsOf
    <3> QED
      BY <1>2, <3>1, <3>3
  <2> QED
    BY <2>1, <2>2
<1>14. InitAlone'
  <2>1. sessions'[1] = sessions[1] /\ sessions[1] # none /\ 1 \in Pid
    <3>1. Exists(1)
      BY Facts, Constants DEF GroupInv, Numbers
    <3> QED
      BY <1>1, <1>2, <1>4, <1>10, <3>1, Constants DEF Exists
  <2> SUFFICES ASSUME NEW h \in Pid, sessions'[h] = sessions'[1] PROVE h = 1
    BY DEF InitAlone
  <2>2. sessions[h] = sessions[1]
    BY <1>2, <1>10, <2>1
  <2> QED
    BY <1>3, <2>2 DEF InitAlone
<1>15. \A h \in Pid : Exists(h)' => sessions'[h] = S[h] /\ pgrp'[h].jobc = J[h]
  <2>1. \A h \in Pid : Exists(h)' <=> pgrp'[h].session # none
    BY DEF Exists
  <2> QED
    BY <1>8, <1>10, <2>1 DEF NoGroup
<1>16. \A q \in Proc : proc'[q].stat # "free" => Exists(proc[q].pgid)'
  <2> SUFFICES ASSUME NEW q \in Proc, proc'[q].stat # "free" PROVE Exists(proc[q].pgid)'
    OBVIOUS
  <2>1. PICK h : h = proc'[q].pgid
    OBVIOUS
  <2>2. h = IF q = p THEN g ELSE proc[q].pgid
    BY <1>1, <2>1 DEF MovedTo
  <2>3. proc[q].stat # "free"
    BY <1>1 DEF MovedTo
  <2>4. h \in Pid /\ q \in Of(h)'
    BY <1>1, <2>1, <2>2, <2>3, Facts DEF Of
  <2>5. Lists'
    BY MovedLists
  <2> QED
    BY <2>1, <2>4, <2>5 DEF Lists
<1> QED
  BY <1>9, <1>12, <1>13, <1>14, <1>15, <1>16

\* Who counts: as before, but for the share of p.
LEMMA MovedJobc ==
  ASSUME GroupInv, WaitInv, Family', NEW p, NEW g, NEW a, NEW s, NEW S, NEW ss, NEW J,
         Entering(p, g, a, s, S, ss, J)
  PROVE  JobcInv'
<1>1. /\ \A q \in Proc : MovedTo(q, p, g, a)
      /\ p \in Proc /\ a \in Pid /\ g \in Pid /\ a # g /\ p \in Of(a) /\ p \notin Of(g)
      /\ a # 1 /\ g # 1
  BY Moved
<1>2. /\ p # init /\ Works(proc, p) /\ a = proc[p].pgid /\ Recounted(p, g, a, S, J)
      /\ \A h \in Pid : S[h] = IF h = g /\ ~Exists(g) THEN s ELSE sessions[h]
  BY DEF Entering, Joins
<1>3. Family /\ JobcInv /\ Lists /\ none \notin Proc
  BY Constants DEF GroupInv, WaitInv
<1>4. proc[p].pptr \in Proc \ {p} /\ proc'[p].pptr = proc[p].pptr /\ Works(proc', p) /\ proc'[p].pgid = g
  BY <1>1, <1>2, <1>3 DEF Family, Works, MovedTo
<1>5. \A q \in Proc : /\ proc'[q].stat = proc[q].stat /\ proc'[q].pptr = proc[q].pptr
                      /\ proc'[q].pgid = IF q = p THEN g ELSE proc[q].pgid
  BY <1>1 DEF MovedTo
<1>6. \A q \in Proc : proc[q].stat # "free" /\ proc[q].pptr # none =>
        proc[q].pptr \in Proc /\ proc[proc[q].pptr].stat # "free"
  BY <1>3, Constants DEF Family
<1>7. \A q \in Proc : proc'[q].stat # "free" => proc'[q].pgid \in Pid
  BY <1>1, <1>5, Facts
<1> SUFFICES ASSUME NEW h \in Pid, Exists(h)' PROVE pgrp'[h].jobc = Cardinality(Quals(h)')
  BY DEF JobcInv
<1>8. sessions'[h] = S[h] /\ pgrp'[h].jobc = J[h]
  BY MovedCounts
<1>9. Quals(h)' = QualsIn(proc', sessions', h)
  BY <1>3, <1>7, QualsAfter
<1>10. QualsIn(proc', sessions', h) = QualsIn(proc', S, h)
  <2>1. ASSUME NEW q \in Proc, Works(proc', q), proc'[q].pptr # none
        PROVE  sessions'[proc'[proc'[q].pptr].pgid] = S[proc'[proc'[q].pptr].pgid]
    <3>1. PICK r : r = proc'[q].pptr
      OBVIOUS
    <3>2. r \in Proc /\ proc'[r].stat # "free"
      BY <1>5, <1>6, <2>1, <3>1 DEF Works
    <3>3. Exists(proc[r].pgid)' /\ proc'[r].pgid \in Pid
      BY <1>7, <3>2, MovedCounts
    <3>4. sessions'[proc'[r].pgid] = S[proc'[r].pgid]
      BY <3>3, MovedCounts
    <3> QED
      BY <3>1, <3>4
  <2> QED
    BY <1>8, <2>1 DEF QualsIn
<1>11. RestIn(proc', S, p, h) = RestIn(proc, S, p, h)
  <2>1. \A q \in Proc : q \in RestIn(proc', S, p, h) <=> q \in RestIn(proc, S, p, h)
    BY <1>5, <1>6 DEF RestIn, QualsIn, Works
  <2>2. RestIn(proc', S, p, h) \in SUBSET Proc /\ RestIn(proc, S, p, h) \in SUBSET Proc
    BY DEF RestIn, QualsIn
  <2> QED
    BY <2>1, <2>2
<1>12. Share(proc', S, p, g, h) = Share(proc, S, p, g, h)
  <2>1. KidsIn(proc', p, h) = KidsIn(proc, p, h)
    <3>1. \A q \in Proc : Works(proc, q) /\ proc[q].pptr = p => q # p
      BY <1>4
    <3> QED
      BY <1>5, <3>1 DEF KidsIn, Works
  <2>2. OwnIn(proc', S, p, g) <=> OwnIn(proc, S, p, g)
    BY <1>4, <1>5 DEF OwnIn
  <2> QED
    BY <2>1, <2>2 DEF Share
<1>13. Cardinality(QualsIn(proc', S, h)) = Cardinality(RestIn(proc, S, p, h)) + Share(proc, S, p, g, h)
  <2>1. PICK ps : ps = proc'
    OBVIOUS
  <2>2. Works(ps, p) /\ ps[p].pptr \in Proc \ {p} /\ ps[p].pgid = g
    BY <1>4, <2>1
  <2>3. Cardinality(QualsIn(ps, S, h)) = Cardinality(RestIn(ps, S, p, h)) + Share(ps, S, p, g, h)
    BY <1>1, <2>2, Parts
  <2> QED
    BY <1>11, <1>12, <2>1, <2>3
<1>14. /\ Cardinality(QualsIn(proc, S, h)) = Cardinality(RestIn(proc, S, p, h)) + Share(proc, S, p, a, h)
       /\ Cardinality(RestIn(proc, S, p, h)) \in Nat
  BY <1>1, <1>2, <1>4, Parts
<1>15. jobcs[h] = Cardinality(QualsIn(proc, S, h))
  <2>1. ASSUME NEW q \in Proc, proc[q].stat # "free"
        PROVE  Exists(proc[q].pgid) /\ proc[q].pgid \in Pid /\ S[proc[q].pgid] = sessions[proc[q].pgid]
    BY <1>2, <2>1, Facts
  <2>2. jobcs[h] = pgrp[h].jobc
    BY DEF jobcs
  <2>3. CASE Exists(h)
    <3>1. S[h] = sessions[h]
      BY <1>2, <2>3
    <3>2. ASSUME NEW q \in Proc, Works(proc, q), proc[q].pptr # none
          PROVE  S[proc[proc[q].pptr].pgid] = sessions[proc[proc[q].pptr].pgid]
      BY <1>6, <2>1, <3>2 DEF Works
    <3>3. QualsIn(proc, S, h) = QualsIn(proc, sessions, h)
      BY <3>1, <3>2 DEF QualsIn
    <3>4. \A q \in Proc : proc[q].stat # "free" => proc[q].pgid \in Pid
      BY <2>1
    <3>5. Quals(h) = QualsIn(proc, sessions, h)
      BY <1>3, <3>4, QualsAre
    <3> QED
      BY <1>3, <2>2, <2>3, <3>3, <3>5 DEF JobcInv
  <2>4. CASE ~Exists(h)
    <3>1. pgrp[h] = NoGroup
      BY <1>3, <2>4 DEF Lists
    <3>2. QualsIn(proc, S, h) = {}
      BY <2>1, <2>4 DEF QualsIn, Works
    <3> QED
      BY <2>2, <3>1, <3>2, FS_EmptySet DEF NoGroup
  <2> QED
    BY <2>3, <2>4
<1>16. J[h] = jobcs[h] + Share(proc, S, p, g, h) - Share(proc, S, p, a, h)
  BY <1>2 DEF Recounted
<1>17. J[h] = Cardinality(QualsIn(proc', S, h))
  BY <1>13, <1>14, <1>15, <1>16, ShareType
<1> QED
  BY <1>8, <1>9, <1>10, <1>17

LEMMA enterpgrpGroups ==
  ASSUME GroupInv, WaitInv, Family', UNCHANGED <<nextpid, pidchecked, nprocs>>,
         NEW p \in Proc, NEW g, NEW mksess, MayEnter(p, g, mksess), enterpgrp(p, g, mksess)
  PROVE  GroupInv'
<1>1. PICK a : a = proc[p].pgid
  OBVIOUS
<1>2. PICK s, S, ss, J : Entering(p, g, a, s, S, ss, J)
  <2>1. \E s, S, ss, J : /\ Joins(p, g, s, S, ss) /\ Recounted(p, g, a, S, J) /\ Enters(p, g, a, S, J)
                         /\ session' = IF Of(a) = {p} THEN Dropped(ss, sessions[a]) ELSE ss
    BY <1>1, EnterIs
  <2> QED
    BY <1>1, <2>1 DEF MayEnter, Entering
<1>3. Lists'
  BY <1>2, MovedLists
<1>4. /\ Counts(session, sessions)' /\ InitAlone' /\ session' \in Sessions
      /\ pgrp' \in [Pid -> GroupRec]
  BY <1>2, MovedCounts
<1>5. JobcInv'
  BY <1>2, MovedJobc
<1>6. proc' \in [Proc -> Entry] /\ \A q \in Proc : MovedTo(q, p, g, a)
  BY <1>2, Moved
<1>7. TypeOK /\ Numbers
  BY DEF GroupInv
<1>8. Alive' = Alive
  BY <1>6 DEF Alive, MovedTo
<1>9. TypeOK'
  BY <1>4, <1>6, <1>7, <1>8, TypesAre, TypesAfter DEF GroupRec, Sessions
<1>10. Numbers'
  <2>1. p # init /\ g \in FirstPid .. PID_MAX - 1
    BY DEF MayEnter
  <2>2. ASSUME NEW q \in Proc
        PROVE  /\ proc'[q].stat = proc[q].stat /\ proc'[q].pid = proc[q].pid
               /\ proc'[q].pgid = IF q = p THEN g ELSE proc[q].pgid
    BY <1>6 DEF MovedTo
  <2> QED
    BY <1>7, <2>1, <2>2, Constants DEF Numbers
<1>11. RunUnused'
  <2>1. \E r \in Proc : proc[r].stat # "free" /\ g \in {proc[r].pid, proc[r].pgid}
    <3>1. CASE g = proc[p].pid
      BY <3>1 DEF MayEnter
    <3>2. CASE Exists(g)
      <4>1. Of(g) # {}
        BY <3>2, Constants DEF GroupInv, Lists, MayEnter
      <4> QED
        BY <4>1 DEF Of
    <3> QED
      BY <3>1, <3>2 DEF MayEnter
  <2>2. ASSUME NEW q \in Proc, proc'[q].stat # "free", NEW x \in {proc'[q].pid, proc'[q].pgid}
        PROVE  \E r \in Proc : proc[r].stat # "free" /\ x \in {proc[r].pid, proc[r].pgid}
    <3>1. /\ proc'[q].stat = proc[q].stat /\ proc'[q].pid = proc[q].pid
          /\ proc'[q].pgid = IF q = p THEN g ELSE proc[q].pgid
      BY <1>6 DEF MovedTo
    <3> QED
      BY <2>1, <2>2, <3>1
  <2> QED
    BY <2>2, RunKept
<1> QED
  BY <1>3, <1>4, <1>5, <1>9, <1>10, <1>11 DEF GroupInv

LEMMA setsidGroups ==
  ASSUME GroupInv, WaitInv, Family', NEW p \in Proc, setsid(p) PROVE GroupInv'
<1>1. /\ proc[p].stat = "SRUN" /\ p # init /\ proc[p].pgid # proc[p].pid /\ ~Exists(proc[p].pid)
      /\ enterpgrp(p, proc[p].pid, TRUE) /\ UNCHANGED <<nextpid, pidchecked, nprocs>>
  BY DEF setsid, Running
<1>2. PICK g : g = proc[p].pid
  OBVIOUS
<1>3. MayEnter(p, g, TRUE)
  BY <1>1, <1>2 DEF MayEnter, Works, GroupInv, Numbers
<1> QED
  BY <1>1, <1>2, <1>3, enterpgrpGroups

LEMMA setpgidGroups ==
  ASSUME GroupInv, WaitInv, Family', NEW p \in Proc, setpgid(p) PROVE GroupInv'
<1>0. PICK t \in Targets(p) :
        \E g \in {proc[t].pid} \cup {h \in Pid : pgrp[h].session = SessionOf(p)} : enterpgrp(t, g, FALSE)
  BY DEF setpgid
<1>1. PICK g \in {proc[t].pid} \cup {h \in Pid : pgrp[h].session = SessionOf(p)} : enterpgrp(t, g, FALSE)
  BY <1>0
<1>2. /\ proc[p].stat = "SRUN" /\ p # init /\ UNCHANGED <<nextpid, pidchecked, nprocs>>
      /\ t \in Proc /\ (t = p \/ (proc[t].stat = "SRUN" /\ SessionOf(t) = SessionOf(p)))
  BY DEF setpgid, Running, Targets
<1>3. InitAlone /\ Numbers /\ Lists /\ none \notin Session /\ 1 \in Pid
  BY Constants DEF GroupInv
<1>4. PICK a : a = proc[p].pgid
  OBVIOUS
<1>5. a \in Pid /\ a # 1 /\ SessionOf(p) = sessions[a] /\ sessions[a] \in Session
  BY <1>2, <1>3, <1>4, Facts, Constants DEF Numbers, SessionOf
<1>6. sessions[a] # sessions[1]
  BY <1>3, <1>5 DEF InitAlone
<1>7. t # init
  <2> SUFFICES ASSUME t = init PROVE FALSE
    OBVIOUS
  <2>1. SessionOf(init) = pgrp[1].session /\ SessionOf(init) = SessionOf(p)
    BY <1>2, <1>3 DEF Numbers, SessionOf
  <2> QED
    BY <1>3, <1>5, <1>6, <2>1, Facts
<1>8. g # proc[t].pgid
  BY <1>1 DEF enterpgrp
<1>9. g \in FirstPid .. PID_MAX - 1 /\ (g = proc[t].pid \/ Exists(g))
  <2>1. CASE g = proc[t].pid
    BY <1>2, <1>3, <1>7, <2>1 DEF Numbers
  <2>2. CASE g \in Pid /\ pgrp[g].session = SessionOf(p)
    <3>1. Exists(g) /\ g # 1
      BY <1>3, <1>5, <1>6, <2>2, Facts DEF Exists
    <3>2. PICK q : q \in Of(g)
      BY <1>3, <2>2, <3>1 DEF Lists
    <3>3. q \in Proc \ {init} /\ proc[q].stat # "free" /\ proc[q].pgid = g
      BY <1>3, <3>1, <3>2 DEF Of, Numbers
    <3> QED
      BY <1>3, <3>1, <3>3 DEF Numbers
  <2> QED
    BY <1>1, <2>1, <2>2
<1>10. MayEnter(t, g, FALSE)
  BY <1>2, <1>7, <1>8, <1>9 DEF MayEnter, Works
<1> QED
  BY <1>1, <1>2, <1>10, enterpgrpGroups

-----------------------------------------------------------------------------
(* exit()                                                                  *)

LEMMA exitGroups ==
  ASSUME GroupInv, WaitInv, Family', NEW p \in Proc, exit(p) PROVE GroupInv'
<1>1. /\ TypeOK /\ Numbers /\ Lists /\ Counts(session, sessions) /\ InitAlone /\ JobcInv /\ Family
      /\ proc[p].stat = "SRUN" /\ p # init
      /\ init \in Proc /\ none \notin Proc /\ none \notin Session
      /\ UNCHANGED <<nextpid, pidchecked, nprocs>>
  BY Constants DEF GroupInv, WaitInv, exit, Running
<1>2. PICK pp : pp = proc[p].pptr
  OBVIOUS
<1>3. /\ pp \in Proc \ {p} /\ pp \notin Children(p) /\ p \notin Children(p) /\ init \notin Children(p)
      /\ Children(p) \subseteq Proc
  BY <1>1, <1>2 DEF Family, Children
<1>4. proc \in [Proc -> Entry] /\ proc[p] \in Entry
  BY EntryIs
<1>5. PICK dead : dead = [proc[p] EXCEPT !.stat = "SZOMB", !.flag = {}]
  OBVIOUS
<1>6. PICK told : told = [Resumed(proc[pp]) EXCEPT !.flag = @ \cup {"SZCHILD"}]
  OBVIOUS
<1> DEFINE inherited(q) == [proc[q] EXCEPT !.pptr = init]
<1>7. /\ proc' = [q \in Proc |-> proc'[q]]
      /\ proc'[p] = dead
      /\ \A q \in Children(p) : proc'[q] = inherited(q)
      /\ proc'[pp] = told
      /\ \A q \in Proc \ (Children(p) \cup {p, pp}) :
           proc'[q] = proc[q] \/ proc'[q] = Resumed(proc[q])
  <2>1. proc' = [q \in Proc |->
                   CASE q = p -> dead
                     [] q \in Children(p) -> inherited(q)
                     [] q = pp -> [Resumed(proc[q]) EXCEPT !.flag = @ \cup {"SZCHILD"}]
                     [] q = init /\ q # pp /\ InitWoken(p) -> Resumed(proc[q])
                     [] OTHER -> proc[q]]
    BY <1>2, <1>5 DEF exit
  <2> HIDE DEF inherited
  <2>2. proc'[p] = dead
    BY <1>1, <1>3, <2>1
  <2>3. ASSUME NEW q \in Children(p) PROVE proc'[q] = inherited(q)
    BY <1>3, <2>1
  <2>4. proc'[pp] = told
    BY <1>3, <1>6, <2>1
  <2>5. ASSUME NEW q \in Proc \ (Children(p) \cup {p, pp})
        PROVE  proc'[q] = proc[q] \/ proc'[q] = Resumed(proc[q])
    BY <2>1
  <2> QED
    BY <2>1, <2>2, <2>3, <2>4, <2>5
<1>8. ASSUME NEW q \in Proc
      PROVE  /\ proc'[q] \in Entry /\ proc'[q].pid = proc[q].pid /\ proc'[q].pgid = proc[q].pgid
             /\ proc'[q].pgrpnxt = proc[q].pgrpnxt
             /\ proc'[q].stat = IF q = p THEN "SZOMB" ELSE proc[q].stat
             /\ proc'[q].pptr = IF q \in Children(p) THEN init ELSE proc[q].pptr
  <2>1. CASE q = p
    <3>1. proc'[q] = [proc[q] EXCEPT !.stat = "SZOMB", !.flag = {}]
      BY <1>5, <1>7, <2>1
    <3> QED
      BY <1>3, <1>4, <2>1, <3>1 DEF Entry
  <2>2. CASE q \in Children(p)
    <3>1. proc'[q] = inherited(q) /\ q # p
      BY <1>3, <1>7, <2>2
    <3> QED
      BY <1>1, <1>4, <2>2, <3>1 DEF Entry
  <2>3. CASE q = pp
    <3>1. PICK r : r = Resumed(proc[q])
      OBVIOUS
    <3>2. PICK fl : fl = r.flag \cup {"SZCHILD"}
      OBVIOUS
    <3>3. /\ r \in Entry /\ r.stat = proc[q].stat /\ r.pid = proc[q].pid
          /\ r.pptr = proc[q].pptr /\ r.pgid = proc[q].pgid /\ r.pgrpnxt = proc[q].pgrpnxt
      BY <1>4, <3>1, ResumedEntry
    <3>4. r.flag \in SUBSET {"SPPWAIT", "SZCHILD", "SEXEC"}
      BY <3>3 DEF Entry
    <3>5. proc'[q] = [r EXCEPT !.flag = fl]
      BY <1>6, <1>7, <2>3, <3>1, <3>2
    <3>6. fl \in SUBSET {"SPPWAIT", "SZCHILD", "SEXEC"}
      BY <3>2, <3>4
    <3>7. /\ proc'[q] \in Entry /\ proc'[q].stat = r.stat /\ proc'[q].pid = r.pid
          /\ proc'[q].pptr = r.pptr /\ proc'[q].pgid = r.pgid /\ proc'[q].pgrpnxt = r.pgrpnxt
      BY <3>3, <3>5, <3>6 DEF Entry
    <3> QED
      BY <1>3, <2>3, <3>3, <3>7
  <2>4. CASE q \in Proc \ (Children(p) \cup {p, pp})
    <3>1. proc'[q] = proc[q] \/ proc'[q] = Resumed(proc[q])
      BY <1>7, <2>4
    <3> QED
      BY <1>4, <2>4, <3>1, ResumedEntry
  <2> QED
    BY <2>1, <2>2, <2>3, <2>4
<1>9. proc' \in [Proc -> Entry]
  BY <1>7, <1>8
<1>10. Alive' = Alive
  BY <1>1, <1>8 DEF Alive
<1>11. PICK j : j = fixjobc(jobcs, sessions, p, proc[p].pgid, -1)
  OBVIOUS
<1>12. PICK a : a = proc[p].pgid
  OBVIOUS
<1>13. a \in Pid
  BY <1>1, <1>12, Facts
<1>14. \A h \in Pid : j[h] = jobcs[h] - Share(proc, sessions, p, a, h)
  <2> SUFFICES ASSUME NEW h \in Pid PROVE j[h] = jobcs[h] - Share(proc, sessions, p, a, h)
    OBVIOUS
  <2>1. PICK n : n = -1
    OBVIOUS
  <2>2. j = fixjobc(jobcs, sessions, p, a, n)
    BY <1>11, <1>12, <2>1
  <2>3. j[h] = jobcs[h] + n * Share(proc, sessions, p, a, h)
    BY <2>2, fixjobcIs
  <2>4. jobcs[h] \in Int
    BY <1>1, TypesAre DEF jobcs
  <2> QED
    BY <2>1, <2>3, <2>4, ShareType
<1>15. pgrp \in [Pid -> GroupRec]
  BY <1>1, TypesAre DEF GroupRec
<1>16. /\ pgrp' = [h \in Pid |-> pgrp'[h]]
       /\ \A h \in Pid : /\ pgrp'[h] \in GroupRec
                         /\ pgrp'[h].session = pgrp[h].session /\ pgrp'[h].mem = pgrp[h].mem
                         /\ pgrp'[h].jobc = j[h]
  <2>1. pgrp' = [h \in Pid |-> [pgrp[h] EXCEPT !.jobc = j[h]]]
    BY <1>11 DEF exit
  <2>2. \A h \in Pid : j[h] \in Int
    <3> TAKE h \in Pid
    <3>1. jobcs[h] \in Int
      BY <1>15 DEF jobcs, GroupRec
    <3> QED
      BY <1>14, <3>1, ShareType
  <2> QED
    BY <1>15, <2>1, <2>2 DEF GroupRec
<1>17. sessions' = sessions
  BY <1>16 DEF sessions
<1>18. PICK s : s = SessionOf(p)
  OBVIOUS
<1>19. s \in Session /\ session \in Sessions /\ s = sessions[a]
  BY <1>1, <1>12, <1>13, <1>18, Facts, TypesAre DEF Sessions, SessionOf
<1>20. /\ session' \in Sessions
       /\ \A x \in Session : session'[x].count = session[x].count
       /\ \A x \in Session \ {s} : session'[x] = session[x]
  <2>1. session' = session \/ session' = [session EXCEPT ![s].leader = none]
    BY <1>18 DEF exit
  <2> QED
    BY <1>19, <2>1 DEF Sessions
<1>21. session[s].count # 0
  <2>1. a \in GroupsOf(sessions, s)
    BY <1>13, <1>19 DEF GroupsOf
  <2>2. Cardinality(GroupsOf(sessions, s)) # 0
    BY <2>1, GroupsAreFinite, FS_EmptySet
  <2> QED
    BY <1>1, <1>19, <2>2 DEF Counts, GroupsOf
<1>22. Counts(session, sessions)'
  <2>1. \A x \in Session : session'[x].count = 0 => session'[x] = NoSession
    BY <1>1, <1>20, <1>21 DEF Counts
  <2>2. \A x \in Session : session'[x].count = Cardinality(GroupsOf(sessions, x))
    BY <1>1, <1>20 DEF Counts, GroupsOf
  <2> QED
    BY <1>17, <2>1, <2>2 DEF Counts, GroupsOf
<1>23. InitAlone'
  BY <1>1, <1>17 DEF InitAlone
<1>24. TypeOK'
  BY <1>1, <1>9, <1>10, <1>16, <1>20, TypesAre, TypesAfter DEF GroupRec, Sessions
<1>25. Numbers'
  BY <1>1, <1>8 DEF Numbers
<1>26. \A h \in Pid : Of(h)' = Of(h)
  BY <1>1, <1>8 DEF Of
<1>27. nxt' = nxt
  BY <1>8 DEF nxt
<1>28. Lists'
  <2>1. \A h \in Pid : Exists(h)' <=> Exists(h)
    BY <1>16 DEF Exists
  <2>2. \A h \in Pid : ListOf(nxt', pgrp'[h].mem, Of(h)')
    BY <1>1, <1>16, <1>26, <1>27 DEF Lists
  <2>3. ASSUME NEW h \in Pid, ~Exists(h) PROVE pgrp'[h] = NoGroup
    <3>1. pgrp[h] = NoGroup /\ Exists(a)
      BY <1>1, <1>12, <2>3, Facts DEF Lists
    <3>2. sessions[h] = none /\ h # a /\ jobcs[h] = 0
      BY <2>3, <3>1 DEF sessions, jobcs, NoGroup
    <3>3. sessions[h] # sessions[a]
      BY <1>1, <1>19, <3>2
    <3>4. Share(proc, sessions, p, a, h) = 0
      BY <3>2, <3>3 DEF Share
    <3>5. j[h] = 0
      BY <1>14, <3>2, <3>4
    <3> QED
      BY <1>16, <3>1, <3>5 DEF NoGroup, GroupRec
  <2>4. \A q \in Proc : proc'[q].stat = "free" => proc'[q].pgrpnxt = none
    BY <1>1, <1>8 DEF Lists
  <2> QED
    BY <1>1, <1>26, <2>1, <2>2, <2>3, <2>4 DEF Lists
<1>29. RunUnused'
  <2>1. \A q \in Proc : proc'[q].stat # "free" => proc[q].stat # "free"
    BY <1>1, <1>8
  <2> QED
    BY <1>1, <1>8, <2>1, RunKept
<1>30. JobcInv'
  <2> SUFFICES ASSUME NEW h \in Pid, Exists(h)' PROVE pgrp'[h].jobc = Cardinality(Quals(h)')
    BY DEF JobcInv
  <2>1. Exists(h)
    BY <1>16 DEF Exists
  <2>2. \A q \in Proc : proc[q].stat # "free" => proc[q].pgid \in Pid
    BY Facts
  <2>3. jobcs[h] = Cardinality(QualsIn(proc, sessions, h))
    <3>1. Quals(h) = QualsIn(proc, sessions, h)
      BY <1>1, <2>2, QualsAre
    <3> QED
      BY <1>1, <2>1, <3>1 DEF JobcInv, jobcs
  <2>4. Quals(h)' = QualsIn(proc', sessions, h)
    <3>1. \A q \in Proc : proc'[q].stat # "free" => proc'[q].pgid \in Pid
      BY <1>1, <1>8, <2>2
    <3> QED
      BY <1>17, <3>1, QualsAfter
  <2>5. Works(proc, p) /\ proc[p].pptr \in Proc \ {p}
    BY <1>1, <1>2, <1>3 DEF Works
  <2>6. PICK gs : gs = sessions
    OBVIOUS
  <2>7. /\ Cardinality(QualsIn(proc, gs, h)) = Cardinality(RestIn(proc, gs, p, h)) + Share(proc, gs, p, a, h)
        /\ Cardinality(RestIn(proc, gs, p, h)) \in Nat
    BY <1>12, <2>5, Parts
  <2>8. QualsIn(proc', gs, h) = RestIn(proc, gs, p, h)
    <3>1. ASSUME NEW q \in Proc PROVE q \in QualsIn(proc', gs, h) <=> q \in RestIn(proc, gs, p, h)
      <4>1. CASE q = p \/ proc[q].stat \in {"free", "SZOMB"}
        BY <1>8, <4>1 DEF QualsIn, RestIn, Works
      <4>2. CASE q # p /\ q \in Children(p)
        <5>1. proc'[q].pptr = init /\ proc'[init].pgid = 1 /\ proc[q].pptr = p
          BY <1>1, <1>8, <4>2 DEF Numbers, Children
        <5>2. q \notin QualsIn(proc', gs, h)
          BY <1>1, <2>6, <5>1 DEF QualsIn, InitAlone
        <5> QED
          BY <5>1, <5>2 DEF RestIn
      <4>3. CASE q # p /\ proc[q].stat \notin {"free", "SZOMB"} /\ q \notin Children(p)
        <5>1. /\ proc'[q].stat = proc[q].stat /\ proc'[q].pptr = proc[q].pptr
              /\ proc'[q].pgid = proc[q].pgid /\ proc[q].pptr # p
          BY <1>8, <4>3 DEF Children
        <5>2. proc[q].pptr # none => proc[q].pptr \in Proc
          BY <1>1, <4>3 DEF Family
        <5>3. proc[q].pptr # none => proc'[proc[q].pptr].pgid = proc[proc[q].pptr].pgid
          BY <1>8, <5>2
        <5> QED
          BY <4>3, <5>1, <5>3 DEF QualsIn, RestIn, Works
      <4> QED
        BY <4>1, <4>2, <4>3
    <3>2. QualsIn(proc', gs, h) \in SUBSET Proc /\ RestIn(proc, gs, p, h) \in SUBSET Proc
      BY DEF QualsIn, RestIn
    <3> QED
      BY <3>1, <3>2
  <2>9. j[h] = jobcs[h] - Share(proc, gs, p, a, h)
    BY <1>14, <2>6
  <2>10. j[h] = Cardinality(RestIn(proc, gs, p, h))
    BY <2>3, <2>6, <2>7, <2>9, ShareType
  <2> QED
    BY <1>16, <2>4, <2>6, <2>8, <2>10
<1> QED
  BY <1>22, <1>23, <1>24, <1>25, <1>28, <1>29, <1>30 DEF GroupInv
-----------------------------------------------------------------------------
(* fork1(): the new process                                                *)

\* init does not fork.
InitHere == proc[init].at \notin {"redo", "malloc"}

\* What the step makes of p and of its child c.
Born(p, c) ==
  /\ p \in Proc \ {init} /\ c \in Proc \ {p} /\ proc[p].stat = "SRUN" /\ proc[c].stat = "free"
  /\ proc' = [q \in Proc |-> proc'[q]]
  /\ \A q \in Proc \ {p, c} : proc'[q] = proc[q]
  /\ proc'[p] \in Entry /\ proc'[c] \in Entry
  /\ proc'[p].stat = proc[p].stat /\ proc'[p].pid = proc[p].pid /\ proc'[p].pgid = proc[p].pgid
  /\ proc'[p].pptr = proc[p].pptr /\ proc'[p].pgrpnxt = c
  /\ proc'[c].stat = "SIDL" /\ proc'[c].pid = nextpid /\ proc'[c].pgid = proc[p].pgid
  /\ proc'[c].pptr = p /\ proc'[c].pgrpnxt = proc[p].pgrpnxt

LEMMA fork_createBorn ==
  ASSUME GroupInv, WaitInv, InitHere, NEW p \in Proc, fork_create(p), proc[p].arg = nextpid
  PROVE  \E c : Born(p, c)
<1>1. /\ proc[p].at = "malloc" /\ proc[p].stat = "SRUN" /\ p # init
      /\ proc \in [Proc -> Entry] /\ proc[p] \in Entry
  BY EntryIs DEF fork_create, WaitInv, CallsFit, InitHere
<1>2. PICK c : c = CHOOSE x \in Proc : proc[x].stat = "free"
  OBVIOUS
<1>3. \E x \in Proc : proc[x].stat = "free"
  BY Zenon DEF fork_create
<1>4. c \in Proc /\ proc[c].stat = "free" /\ c # p
  BY <1>1, <1>2, <1>3
<1>5. PICK new : new = [Free EXCEPT !.stat = "SIDL", !.pid = nextpid, !.pgid = proc[p].pgid,
                                    !.pgrpnxt = proc[p].pgrpnxt]
  OBVIOUS
<1>6. PICK made : made = [proc EXCEPT ![c] = new, ![p].arg = 0]
  OBVIOUS
<1>7. proc' = [made EXCEPT ![p].pgrpnxt = c, ![p].at = "copy", ![p].child = c, ![c].pptr = p]
  BY <1>2, <1>5, <1>6 DEF fork_create, Linked
<1>8. made = [q \in Proc |-> IF q = p THEN [proc[p] EXCEPT !.arg = 0] ELSE IF q = c THEN new ELSE proc[q]]
  BY <1>1, <1>4, <1>6
<1>9. /\ made[c] = new /\ made[p] = [proc[p] EXCEPT !.arg = 0]
      /\ \A q \in Proc \ {p, c} : made[q] = proc[q]
  BY <1>4, <1>8
<1>10. proc' = [q \in Proc |-> IF q = p THEN [made[p] EXCEPT !.pgrpnxt = c, !.at = "copy", !.child = c]
                               ELSE IF q = c THEN [made[c] EXCEPT !.pptr = p] ELSE made[q]]
  <2>1. PICK a : a = [made EXCEPT ![p].pgrpnxt = c, ![p].at = "copy"]
    OBVIOUS
  <2>2. a = [q \in Proc |-> IF q = p THEN [made[p] EXCEPT !.pgrpnxt = c, !.at = "copy"] ELSE made[q]]
    BY <1>8, <2>1
  <2>3. PICK b : b = [a EXCEPT ![p].child = c]
    OBVIOUS
  <2>4. b = [q \in Proc |-> IF q = p THEN [a[p] EXCEPT !.child = c] ELSE a[q]]
    BY <2>2, <2>3
  <2>5. a[p] = [made[p] EXCEPT !.pgrpnxt = c, !.at = "copy"] /\ \A q \in Proc \ {p} : a[q] = made[q]
    BY <2>2
  <2>6. /\ b[p] = [made[p] EXCEPT !.pgrpnxt = c, !.at = "copy", !.child = c]
        /\ \A q \in Proc \ {p} : b[q] = made[q]
    BY <2>4, <2>5
  <2>7. proc' = [b EXCEPT ![c].pptr = p]
    BY <1>7, <2>1, <2>3
  <2>8. proc' = [q \in Proc |-> IF q = c THEN [b[c] EXCEPT !.pptr = p] ELSE b[q]]
    BY <2>4, <2>7
  <2> QED
    BY <1>4, <2>6, <2>8
<1>11. proc' = [q \in Proc |-> proc'[q]] /\ \A q \in Proc \ {p, c} : proc'[q] = proc[q]
  BY <1>9, <1>10
<1>12. /\ proc'[p] \in Entry
       /\ proc'[p].stat = proc[p].stat /\ proc'[p].pid = proc[p].pid /\ proc'[p].pgid = proc[p].pgid
       /\ proc'[p].pptr = proc[p].pptr /\ proc'[p].pgrpnxt = c
  <2>1. 0 \in -PID_MAX .. PID_MAX
    BY EntryIs
  <2>2. /\ made[p] \in Entry /\ made[p].stat = proc[p].stat /\ made[p].pid = proc[p].pid
        /\ made[p].pgid = proc[p].pgid /\ made[p].pptr = proc[p].pptr
    BY <1>1, <1>9, <2>1 DEF Entry
  <2>3. proc'[p] = [made[p] EXCEPT !.pgrpnxt = c, !.at = "copy", !.child = c]
    BY <1>10
  <2> QED
    BY <1>4, <2>2, <2>3 DEF Entry
<1>13. /\ proc'[c] \in Entry
       /\ proc'[c].stat = "SIDL" /\ proc'[c].pid = nextpid /\ proc'[c].pgid = proc[p].pgid
       /\ proc'[c].pptr = p /\ proc'[c].pgrpnxt = proc[p].pgrpnxt
  <2>1. proc'[c] = [new EXCEPT !.pptr = p]
    BY <1>4, <1>9, <1>10
  <2>2. /\ nextpid \in Pid /\ proc[p].pgid \in Pid \cup {0} /\ proc[p].pgrpnxt \in Proc \cup {none}
        /\ 0 \in -PID_MAX .. PID_MAX
    BY <1>1, TypesAre, EntryIs DEF Entry, GroupInv
  <2>3. PICK x, y, z : x = nextpid /\ y = proc[p].pgid /\ z = proc[p].pgrpnxt
    OBVIOUS
  <2>4. proc'[c] = [stat |-> "SIDL", pid |-> x, pptr |-> p, pgid |-> y, pgrpnxt |-> z,
                    flag |-> {}, at |-> "user", arg |-> 0, child |-> none]
    BY <1>5, <2>1, <2>3 DEF Free
  <2> QED
    BY <2>2, <2>3, <2>4 DEF Entry
<1> QED
  BY <1>1, <1>4, <1>11, <1>12, <1>13 DEF Born

LEMMA fork_createGroups ==
  ASSUME GroupInv, WaitInv, InitHere, NEW p \in Proc, fork_create(p) PROVE GroupInv'
<1>1. CASE proc[p].arg # nextpid
  <2>1. /\ proc' = [proc EXCEPT ![p].at = "redo", ![p].arg = 0]
        /\ UNCHANGED <<pgrp, session, nextpid, pidchecked, nprocs>>
    BY <1>1 DEF fork_create
  <2>2. 0 \in -PID_MAX .. PID_MAX
    BY EntryIs
  <2> QED
    BY <2>1, <2>2, GoesOn
<1>2. CASE proc[p].arg = nextpid
  <2>1. PICK c : Born(p, c)
    BY <1>2, fork_createBorn
  <2>2. UNCHANGED <<pgrp, session, nextpid, pidchecked>> /\ nprocs' = nprocs + 1
    BY <1>2 DEF fork_create
  <2>3. /\ TypeOK /\ Numbers /\ Lists /\ Counts(session, sessions) /\ InitAlone /\ JobcInv /\ Family
        /\ init \in Proc /\ none \notin Proc
    BY Constants DEF GroupInv, WaitInv
  <2>4. /\ p # init /\ c \in Proc \ {p} /\ proc[p].stat = "SRUN" /\ proc[c].stat = "free"
        /\ c # init
    BY <2>1, <2>3 DEF Born, Numbers
  <2>5. PICK a : a = proc[p].pgid
    OBVIOUS
  <2>6. a \in Pid /\ p \in Of(a) /\ a \in FirstPid .. PID_MAX - 1 /\ nextpid \in FirstPid .. PID_MAX - 1
    BY <2>3, <2>4, <2>5, Facts DEF Numbers
  <2>7. ASSUME NEW q \in Proc \ {c}
        PROVE  /\ proc'[q].stat = proc[q].stat /\ proc'[q].pid = proc[q].pid
               /\ proc'[q].pgid = proc[q].pgid /\ proc'[q].pptr = proc[q].pptr
               /\ proc'[q] \in Entry
    BY <2>1, EntryIs DEF Born
  <2>8. /\ proc'[c].stat = "SIDL" /\ proc'[c].pid = nextpid /\ proc'[c].pgid = a
        /\ proc'[c].pptr = p /\ proc'[c] \in Entry
    BY <2>1, <2>5 DEF Born
  <2>9. proc' \in [Proc -> Entry]
    BY <2>1, <2>7, <2>8 DEF Born
  <2>10. Alive' = Alive \cup {c} /\ c \notin Alive
    BY <2>4, <2>7, <2>8 DEF Alive
  <2>11. nprocs' = Cardinality(Alive')
    <3>1. Alive \in SUBSET Proc
      BY DEF Alive
    <3>2. IsFiniteSet(Alive)
      BY <3>1, Constants, FS_Subset
    <3>3. Cardinality(Alive \cup {c}) = Cardinality(Alive) + 1
      BY <2>10, <3>2, FS_AddElement
    <3> QED
      BY <2>2, <2>3, <2>10, <3>3, TypesAre
  <2>12. TypeOK'
    BY <2>2, <2>3, <2>9, <2>11, TypesAre, TypesAfter
  <2>13. Numbers'
    BY <2>2, <2>3, <2>4, <2>6, <2>7, <2>8 DEF Numbers
  <2>14. Of(a)' = Of(a) \cup {c} /\ c \notin Of(a)
    BY <2>4, <2>7, <2>8 DEF Of
  <2>15. \A h \in Pid \ {a} : Of(h)' = Of(h) /\ p \notin Of(h) /\ c \notin Of(h)
    BY <2>4, <2>5, <2>7, <2>8 DEF Of
  <2>16. PICK nx : nx = nxt
    OBVIOUS
  <2>17. PICK m : m = nxt'
    OBVIOUS
  <2>18. m[p] = c /\ m[c] = nx[p] /\ \A q \in Proc \ {p, c} : m[q] = nx[q]
    BY <2>1, <2>4, <2>16, <2>17 DEF Born, nxt
  <2>19. \A h \in Pid : ListOf(nx, pgrp[h].mem, Of(h)) /\ Of(h) \in SUBSET Proc
    BY <2>3, <2>16 DEF Lists, Of
  <2>20. ListOf(m, pgrp'[a].mem, Of(a)')
    <3>1. PICK x : x = pgrp[a].mem
      OBVIOUS
    <3>2. PICK T : T = Of(a)
      OBVIOUS
    <3>3. ListOf(nx, x, T) /\ p \in T /\ c \in Proc \ T /\ T \in SUBSET Proc
      BY <2>4, <2>6, <2>14, <2>19, <3>1, <3>2
    <3>4. \A q \in T \ {p} : m[q] = nx[q]
      BY <2>18, <3>3
    <3>5. ListOf(m, x, T \cup {c})
      BY <2>18, <3>3, <3>4, ListInserted
    <3> QED
      BY <2>2, <2>14, <3>1, <3>2, <3>5
  <2>21. \A h \in Pid \ {a} : ListOf(m, pgrp'[h].mem, Of(h)')
    <3> SUFFICES ASSUME NEW h \in Pid \ {a} PROVE ListOf(m, pgrp'[h].mem, Of(h)')
      OBVIOUS
    <3>1. PICK x : x = pgrp[h].mem
      OBVIOUS
    <3>2. PICK T : T = Of(h)
      OBVIOUS
    <3>3. ListOf(nx, x, T) /\ \A q \in T : m[q] = nx[q]
      BY <2>15, <2>18, <2>19, <3>1, <3>2
    <3>4. ListOf(m, x, T)
      BY <3>3, ListKept
    <3> QED
      BY <2>2, <2>15, <3>1, <3>2, <3>4
  <2>22. Lists'
    <3>1. \A h \in Pid : ListOf(nxt', pgrp'[h].mem, Of(h)')
      BY <2>17, <2>20, <2>21
    <3>2. \A h \in Pid : Exists(h)' <=> Exists(h)
      BY <2>2 DEF Exists
    <3>3. \A h \in Pid : Of(h)' # {} <=> Of(h) # {}
      BY <2>6, <2>14, <2>15
    <3>4. \A q \in Proc : proc'[q].stat = "free" => proc'[q].pgrpnxt = none
      <4> SUFFICES ASSUME NEW q \in Proc, proc'[q].stat = "free" PROVE proc'[q].pgrpnxt = none
        OBVIOUS
      <4>1. q \notin {p, c}
        BY <2>4, <2>7, <2>8
      <4>2. proc'[q] = proc[q]
        BY <2>1, <4>1 DEF Born
      <4> QED
        BY <2>3, <4>2 DEF Lists
    <3> QED
      BY <2>2, <2>3, <3>1, <3>2, <3>3, <3>4 DEF Lists
  <2>23. sessions' = sessions
    BY <2>2 DEF sessions
  <2>24. Counts(session, sessions)' /\ InitAlone'
    BY <2>2, <2>3, <2>23 DEF Counts, InitAlone
  <2>25. RunUnused'
    <3>1. ASSUME NEW q \in Proc, proc'[q].stat # "free", NEW x \in {proc'[q].pid, proc'[q].pgid}
          PROVE  x = nextpid \/ \E r \in Proc : proc[r].stat # "free" /\ x \in {proc[r].pid, proc[r].pgid}
      <4>1. CASE q = c
        BY <2>4, <2>5, <2>8, <3>1, <4>1
      <4>2. CASE q # c
        BY <2>7, <3>1, <4>2
      <4> QED
        BY <4>1, <4>2
    <3> QED
      BY <2>2, <3>1, RunKept
  <2>26. \A h \in Pid : Quals(h)' = Quals(h)
    <3> SUFFICES ASSUME NEW h \in Pid PROVE Quals(h)' = Quals(h)
      OBVIOUS
    <3>1. ASSUME NEW q \in Proc \ {c}, proc[q].stat # "free", proc[q].pptr # none
          PROVE  proc[q].pptr \in Proc \ {c}
      BY <2>3, <2>4, <3>1 DEF Family
    <3>2. c \notin Quals(h)' /\ c \notin Quals(h)
      BY <2>4, <2>5, <2>7, <2>8 DEF Quals
    <3>3. \A q \in Proc \ {c} : q \in Quals(h)' <=> q \in Quals(h)
      BY <2>2, <2>7, <3>1 DEF Quals, SessionOf
    <3>4. Quals(h)' \in SUBSET Proc /\ Quals(h) \in SUBSET Proc
      BY DEF Quals
    <3> QED
      BY <3>2, <3>3, <3>4
  <2>27. JobcInv'
    BY <2>2, <2>3, <2>26 DEF JobcInv, Exists
  <2> QED
    BY <2>12, <2>13, <2>22, <2>24, <2>25, <2>27 DEF GroupInv
<1> QED
  BY <1>1, <1>2
-----------------------------------------------------------------------------
(* wait4(): a zombie goes.                                                 *)

\* Where the others are when p is gone.
LeftBy(p, a) ==
  /\ p \in Proc \ {init} /\ proc[p].stat = "SZOMB" /\ a = proc[p].pgid
  /\ proc' \in [Proc -> Entry] /\ proc'[p] = Free
  /\ \A r \in Proc \ {p} :
       /\ proc'[r].stat = proc[r].stat /\ proc'[r].pid = proc[r].pid
       /\ proc'[r].pptr = proc[r].pptr /\ proc'[r].pgid = proc[r].pgid
       /\ nxt'[r] = IF r \in Of(a) /\ nxt[r] = p THEN nxt[p] ELSE nxt[r]
  /\ pgrp' = Without(pgrp, p)
  /\ session' = IF Emptied(p) THEN Dropped(session, SessionOf(p)) ELSE session

LEMMA Reaped ==
  ASSUME GroupInv, WaitInv, NEW q \in Proc, NEW pid, wait4_reap(q, pid)
  PROVE  \E p, a : LeftBy(p, a)
<1>1. PICK p \in Zombies(q, pid) :
        /\ proc' = [Unlinked(p) EXCEPT ![p] = Free, ![q].at = "user", ![q].arg = 0]
        /\ pgrp' = Without(pgrp, p)
        /\ session' = IF Emptied(p) THEN Dropped(session, SessionOf(p)) ELSE session
  BY DEF wait4_reap
<1>2. proc[q].stat = "SRUN" /\ p \in Proc /\ proc[p].stat = "SZOMB"
  BY DEF wait4_reap, Looks, Zombies, Found, Children
<1>3. p # init /\ p # q
  BY <1>2 DEF WaitInv, Family
<1>4. PICK a : a = proc[p].pgid
  OBVIOUS
<1>5. PICK u : u = Unlinked(p)
  OBVIOUS
<1>6. u \in [Proc -> Entry] /\ proc \in [Proc -> Entry]
  BY <1>2, <1>4, <1>5, Leaves, EntryIs
<1>7. Off(u, p, a)
  <2>1. proc[p].stat # "free"
    BY <1>2
  <2> QED
    BY <1>2, <1>4, <1>5, <2>1, Leaves
<1>8. PICK e : e = [u[q] EXCEPT !.at = "user", !.arg = 0]
  OBVIOUS
<1>9. proc' = [r \in Proc |-> IF r = p THEN Free ELSE IF r = q THEN e ELSE u[r]]
  <2>1. PICK v : v = [u EXCEPT ![p] = Free]
    OBVIOUS
  <2>2. v = [r \in Proc |-> IF r = p THEN Free ELSE u[r]]
    BY <1>6, <2>1
  <2>3. proc' = [v EXCEPT ![q].at = "user", ![q].arg = 0]
    BY <1>1, <1>5, <2>1
  <2>4. v[q] = u[q]
    BY <1>3, <2>2
  <2>5. proc' = [v EXCEPT ![q] = e]
    BY <1>8, <2>2, <2>3, <2>4
  <2> QED
    BY <1>3, <2>2, <2>5
<1>10. 0 \in -PID_MAX .. PID_MAX
  BY <1>2, EntryIs
<1>11. Free \in Entry
  BY <1>10, Constants DEF Free, Entry
<1>12. /\ e \in Entry /\ e.stat = u[q].stat /\ e.pid = u[q].pid /\ e.pptr = u[q].pptr
       /\ e.pgid = u[q].pgid /\ e.pgrpnxt = u[q].pgrpnxt
  <2>1. PICK f : f = u[q]
    OBVIOUS
  <2>2. f \in Entry /\ e = [f EXCEPT !.at = "user", !.arg = 0]
    BY <1>6, <1>8, <2>1
  <2>3. e \in Entry /\ e.stat = f.stat /\ e.pid = f.pid /\ e.pptr = f.pptr /\ e.pgid = f.pgid /\ e.pgrpnxt = f.pgrpnxt
    BY <1>10, <2>2 DEF Entry
  <2> QED
    BY <2>1, <2>3
<1>13. proc' \in [Proc -> Entry] /\ proc'[p] = Free
  BY <1>2, <1>6, <1>9, <1>11, <1>12
<1>14. ASSUME NEW r \in Proc \ {p}
       PROVE  /\ proc'[r].stat = proc[r].stat /\ proc'[r].pid = proc[r].pid
              /\ proc'[r].pptr = proc[r].pptr /\ proc'[r].pgid = proc[r].pgid
              /\ nxt'[r] = IF r \in Of(a) /\ nxt[r] = p THEN nxt[p] ELSE nxt[r]
  <2>1. /\ proc'[r].stat = u[r].stat /\ proc'[r].pid = u[r].pid
        /\ proc'[r].pptr = u[r].pptr /\ proc'[r].pgid = u[r].pgid
        /\ proc'[r].pgrpnxt = u[r].pgrpnxt
    BY <1>9, <1>12
  <2>2. nxt'[r] = proc'[r].pgrpnxt /\ nxt[r] = proc[r].pgrpnxt
    BY DEF nxt
  <2>3. CASE r \in Of(a) /\ nxt[r] = p
    <3>1. PICK m : m = nxt[p]
      OBVIOUS
    <3>2. u[r] = [proc[r] EXCEPT !.pgrpnxt = m]
      BY <1>7, <2>3, <3>1 DEF Off
    <3>3. proc[r] \in Entry
      BY <1>6
    <3>4. /\ u[r].stat = proc[r].stat /\ u[r].pid = proc[r].pid
          /\ u[r].pptr = proc[r].pptr /\ u[r].pgid = proc[r].pgid /\ u[r].pgrpnxt = m
      BY <3>2, <3>3 DEF Entry
    <3> QED
      BY <2>1, <2>2, <2>3, <3>1, <3>4
  <2>4. CASE ~(r \in Of(a) /\ nxt[r] = p)
    <3>1. u[r] = proc[r]
      BY <1>7, <2>4 DEF Off
    <3> QED
      BY <2>1, <2>2, <2>4, <3>1
  <2> QED
    BY <2>3, <2>4
<1>15. LeftBy(p, a)
  BY <1>1, <1>2, <1>3, <1>4, <1>13, <1>14 DEF LeftBy
<1> QED
  BY <1>15

\* What becomes of the groups and the sessions.
LEMMA ReapedPgrp ==
  ASSUME GroupInv, NEW p, NEW a, LeftBy(p, a)
  PROVE  /\ a \in Pid /\ a # 1 /\ p \in Of(a) /\ pgrp' \in [Pid -> GroupRec]
         /\ \A h \in Pid \ {a} : pgrp'[h] = pgrp[h]
         /\ Of(a) = {p} => pgrp'[a] = NoGroup
         /\ Of(a) # {p} => /\ pgrp'[a].session = pgrp[a].session /\ pgrp'[a].jobc = pgrp[a].jobc
                           /\ pgrp'[a].mem = IF pgrp[a].mem = p THEN nxt[p] ELSE pgrp[a].mem
         /\ Emptied(p) <=> Of(a) = {p}
<1>1. /\ p \in Proc /\ p # init /\ proc[p].stat # "free" /\ a = proc[p].pgid /\ pgrp' = Without(pgrp, p)
  BY DEF LeftBy
<1>2. a \in Pid /\ p \in Of(a) /\ a # 1
  BY <1>1, Facts, Constants DEF GroupInv, Numbers
<1>3. Emptied(p) <=> Of(a) = {p}
  BY <1>1, Leaves
<1>4. pgrp \in [Pid -> GroupRec]
  BY TypesAre DEF GroupInv, GroupRec
<1>5. PICK m : m = nxt[p]
  OBVIOUS
<1>6. m \in Proc \cup {none} /\ m = proc[p].pgrpnxt
  BY <1>1, <1>5, EntryIs DEF nxt, Entry
<1>7. CASE Of(a) = {p}
  <2>1. pgrp' = [pgrp EXCEPT ![a] = NoGroup]
    BY <1>1, <1>3, <1>7 DEF Without
  <2>2. NoGroup \in GroupRec
    BY DEF NoGroup, GroupRec
  <2> QED
    BY <1>2, <1>3, <1>4, <1>7, <2>1, <2>2
<1>8. CASE Of(a) # {p} /\ pgrp[a].mem = p
  <2>1. pgrp' = [pgrp EXCEPT ![a].mem = m]
    BY <1>1, <1>3, <1>6, <1>8 DEF Without
  <2> QED
    BY <1>2, <1>3, <1>4, <1>5, <1>6, <1>8, <2>1 DEF GroupRec
<1>9. CASE Of(a) # {p} /\ pgrp[a].mem # p
  <2>1. pgrp' = pgrp
    BY <1>1, <1>3, <1>9 DEF Without
  <2> QED
    BY <1>2, <1>3, <1>4, <1>9, <2>1
<1> QED
  BY <1>7, <1>8, <1>9

LEMMA ReapedLists ==
  ASSUME GroupInv, NEW p, NEW a, LeftBy(p, a)
  PROVE  Lists'
<1>1. /\ p \in Proc /\ proc[p].stat = "SZOMB" /\ a = proc[p].pgid /\ proc'[p] = Free
      /\ \A r \in Proc \ {p} : /\ proc'[r].stat = proc[r].stat /\ proc'[r].pgid = proc[r].pgid
                               /\ nxt'[r] = IF r \in Of(a) /\ nxt[r] = p THEN nxt[p] ELSE nxt[r]
  BY DEF LeftBy
<1>2. /\ a \in Pid /\ p \in Of(a)
      /\ \A h \in Pid \ {a} : pgrp'[h] = pgrp[h]
      /\ Of(a) = {p} => pgrp'[a] = NoGroup
      /\ Of(a) # {p} => /\ pgrp'[a].session = pgrp[a].session
                        /\ pgrp'[a].mem = IF pgrp[a].mem = p THEN nxt[p] ELSE pgrp[a].mem
  BY ReapedPgrp
<1>3. Lists
  BY DEF GroupInv
<1>4. proc'[p].stat = "free" /\ proc'[p].pgrpnxt = none
  BY <1>1 DEF Free
<1>5. Of(a)' = Of(a) \ {p}
  BY <1>1, <1>4 DEF Of
<1>6. \A h \in Pid \ {a} : Of(h)' = Of(h) /\ Of(h) \cap Of(a) = {}
  <2> SUFFICES ASSUME NEW h \in Pid \ {a} PROVE Of(h)' = Of(h) /\ Of(h) \cap Of(a) = {}
    OBVIOUS
  <2>1. Of(h) \cap Of(a) = {}
    BY DEF Of
  <2>2. Of(h)' = Of(h)
    BY <1>1, <1>4 DEF Of
  <2> QED
    BY <2>1, <2>2
<1>7. PICK nx : nx = nxt
  OBVIOUS
<1>8. PICK m : m = nxt'
  OBVIOUS
<1>9. /\ \A r \in Proc \ {p} : m[r] = IF r \in Of(a) /\ nx[r] = p THEN nx[p] ELSE nx[r]
      /\ \A h \in Pid : ListOf(nx, pgrp[h].mem, Of(h)) /\ Of(h) \in SUBSET Proc
  BY <1>1, <1>3, <1>7, <1>8 DEF Lists, Of
<1>10. PICK T : T = Of(a)
  OBVIOUS
<1>11. PICK x : x = pgrp[a].mem
  OBVIOUS
<1>12. PICK y : y = IF x = p THEN nx[p] ELSE x
  OBVIOUS
<1>13. ListOf(m, y, T \ {p}) /\ (T = {p} => y = none)
  <2>1. Skips(nx, m, p, T)
    BY <1>2, <1>9, <1>10 DEF Skips
  <2>2. ListOf(nx, x, T) /\ p \in T
    BY <1>2, <1>9, <1>10, <1>11
  <2>3. ListOf(m, y, T \ {p})
    BY <1>12, <2>1, <2>2, ListSkipped
  <2>4. T = {p} => y = none
    <3> SUFFICES ASSUME T = {p} PROVE y = none
      OBVIOUS
    <3>1. T \ {p} = {}
      OBVIOUS
    <3>2. ListOf(m, y, {})
      BY <2>3, <3>1
    <3> QED
      BY <3>2, ListHead
  <2> QED
    BY <2>3, <2>4
<1>14. ListOf(m, pgrp'[a].mem, Of(a)')
  <2>1. CASE T = {p}
    <3>1. pgrp'[a].mem = none /\ y = none
      BY <1>2, <1>10, <1>12, <1>13, <2>1 DEF NoGroup
    <3> QED
      BY <1>5, <1>10, <1>13, <3>1
  <2>2. CASE T # {p}
    BY <1>2, <1>5, <1>7, <1>10, <1>11, <1>12, <1>13, <2>2
  <2> QED
    BY <2>1, <2>2
<1>15. \A h \in Pid \ {a} : ListOf(m, pgrp'[h].mem, Of(h)')
  <2> SUFFICES ASSUME NEW h \in Pid \ {a} PROVE ListOf(m, pgrp'[h].mem, Of(h)')
    OBVIOUS
  <2>1. PICK z : z = pgrp[h].mem
    OBVIOUS
  <2>2. PICK U : U = Of(h)
    OBVIOUS
  <2>3. ListOf(nx, z, U) /\ \A q \in U : m[q] = nx[q]
    BY <1>2, <1>6, <1>9, <2>1, <2>2
  <2>4. ListOf(m, z, U)
    BY <2>3, ListKept
  <2> QED
    BY <1>2, <1>6, <2>1, <2>2, <2>4
<1>16. \A h \in Pid : Exists(h)' <=> Of(h)' # {}
  <2> SUFFICES ASSUME NEW h \in Pid PROVE Exists(h)' <=> Of(h)' # {}
    OBVIOUS
  <2>1. Exists(h) <=> Of(h) # {}
    BY <1>3 DEF Lists
  <2>2. CASE h # a
    BY <1>2, <1>6, <2>1, <2>2 DEF Exists
  <2>3. CASE h = a /\ Of(a) = {p}
    BY <1>2, <1>5, <2>3 DEF Exists, NoGroup
  <2>4. CASE h = a /\ Of(a) # {p}
    BY <1>2, <1>5, <2>1, <2>4 DEF Exists
  <2> QED
    BY <2>2, <2>3, <2>4
<1>17. \A h \in Pid : ~Exists(h)' => pgrp'[h] = NoGroup
  <2> SUFFICES ASSUME NEW h \in Pid, ~Exists(h)' PROVE pgrp'[h] = NoGroup
    OBVIOUS
  <2>1. CASE h # a
    <3>1. ~Exists(h)
      BY <1>2, <2>1 DEF Exists
    <3> QED
      BY <1>2, <1>3, <2>1, <3>1 DEF Lists
  <2>2. CASE h = a
    <3>1. Of(a) = {p}
      BY <1>2, <1>5, <1>16, <2>2
    <3> QED
      BY <1>2, <2>2, <3>1
  <2> QED
    BY <2>1, <2>2
<1>18. \A r \in Proc : proc'[r].stat = "free" => proc'[r].pgrpnxt = none
  <2> SUFFICES ASSUME NEW r \in Proc, proc'[r].stat = "free" PROVE proc'[r].pgrpnxt = none
    OBVIOUS
  <2>1. CASE r = p
    BY <1>4, <2>1
  <2>2. CASE r # p
    <3>1. proc[r].stat = "free" /\ r \notin Of(a)
      BY <1>1, <2>2 DEF Of
    <3>2. m[r] = nx[r]
      BY <1>9, <2>2, <3>1
    <3>3. nx[r] = proc[r].pgrpnxt /\ m[r] = proc'[r].pgrpnxt
      BY <1>7, <1>8 DEF nxt
    <3> QED
      BY <1>3, <3>1, <3>2, <3>3 DEF Lists
  <2> QED
    BY <2>1, <2>2
<1>19. \A h \in Pid : ListOf(nxt', pgrp'[h].mem, Of(h)')
  BY <1>8, <1>14, <1>15
<1> QED
  BY <1>16, <1>17, <1>18, <1>19 DEF Lists

\* What was counted is counted, but for the group that goes with p.
LEMMA ReapedCounts ==
  ASSUME GroupInv, WaitInv, NEW p, NEW a, LeftBy(p, a)
  PROVE  /\ Counts(session, sessions)' /\ InitAlone' /\ session' \in Sessions
         /\ \A h \in Pid : Exists(h)' => sessions'[h] = sessions[h] /\ pgrp'[h].jobc = pgrp[h].jobc
<1>1. /\ p \in Proc /\ proc[p].stat # "free" /\ a = proc[p].pgid
      /\ session' = IF Emptied(p) THEN Dropped(session, SessionOf(p)) ELSE session
  BY DEF LeftBy
<1>2. /\ a \in Pid /\ a # 1
      /\ \A h \in Pid \ {a} : pgrp'[h] = pgrp[h]
      /\ Of(a) = {p} => pgrp'[a] = NoGroup
      /\ Of(a) # {p} => pgrp'[a].session = pgrp[a].session /\ pgrp'[a].jobc = pgrp[a].jobc
      /\ Emptied(p) <=> Of(a) = {p}
  BY ReapedPgrp
<1>3. /\ Counts(session, sessions) /\ InitAlone /\ session \in Sessions /\ none \notin Session
      /\ 1 \in Pid
  BY TypesAre, Constants DEF GroupInv, Sessions
<1>4. \A h \in Pid : sessions[h] = pgrp[h].session /\ sessions'[h] = pgrp'[h].session
  BY DEF sessions
<1>5. PICK gs : gs = sessions
  OBVIOUS
<1>6. PICK hs : hs = sessions'
  OBVIOUS
<1>7. gs[a] \in Session /\ SessionOf(p) = gs[a]
  BY <1>1, <1>2, <1>4, <1>5, Facts DEF SessionOf
<1>8. \A h \in Pid : hs[h] = IF h = a /\ Of(a) = {p} THEN none ELSE gs[h]
  BY <1>2, <1>4, <1>5, <1>6 DEF NoGroup
<1>9. Counts(session', hs) /\ session' \in Sessions
  <2>1. CASE Of(a) = {p}
    <3>1. Differs(gs, hs, a, none)
      BY <1>2, <1>8, <2>1 DEF Differs
    <3>2. Counts(session, gs)
      BY <1>3, <1>5
    <3>3. Counts(Dropped(session, gs[a]), hs) /\ Dropped(session, gs[a]) \in Sessions
      BY <1>3, <1>7, <3>1, <3>2, CountsDropped
    <3> QED
      BY <1>1, <1>2, <1>7, <2>1, <3>3
  <2>2. CASE Of(a) # {p}
    <3>1. session' = session
      BY <1>1, <1>2, <2>2
    <3>2. \A x \in Session : GroupsOf(hs, x) = GroupsOf(gs, x)
      BY <1>8, <2>2 DEF GroupsOf
    <3> QED
      BY <1>3, <1>5, <3>1, <3>2 DEF Counts, GroupsOf
  <2> QED
    BY <2>1, <2>2
<1>10. InitAlone'
  <2>1. sessions[1] # none
    <3>1. Exists(1)
      BY Facts, Constants DEF GroupInv, Numbers
    <3> QED
      BY <1>3, <1>4, <3>1 DEF Exists
  <2> SUFFICES ASSUME NEW h \in Pid, sessions'[h] = sessions'[1] PROVE h = 1
    BY DEF InitAlone
  <2>2. sessions[h] = sessions[1]
    BY <1>2, <1>3, <1>5, <1>6, <1>8, <2>1
  <2> QED
    BY <1>3, <2>2 DEF InitAlone
<1>11. \A h \in Pid : Exists(h)' => sessions'[h] = sessions[h] /\ pgrp'[h].jobc = pgrp[h].jobc
  <2> SUFFICES ASSUME NEW h \in Pid, Exists(h)'
               PROVE  sessions'[h] = sessions[h] /\ pgrp'[h].jobc = pgrp[h].jobc
    OBVIOUS
  <2>1. pgrp'[h].session # none
    BY DEF Exists
  <2>2. ~(h = a /\ Of(a) = {p})
    BY <1>2, <2>1 DEF NoGroup
  <2> QED
    BY <1>2, <1>4, <2>2
<1> QED
  BY <1>6, <1>9, <1>10, <1>11

LEMMA wait4_reapGroups ==
  ASSUME GroupInv, WaitInv, NEW q \in Proc, NEW pid, wait4_reap(q, pid) PROVE GroupInv'
<1>1. PICK p, a : LeftBy(p, a)
  BY Reaped
<1>2. nprocs' = nprocs - 1 /\ nextpid' = nextpid /\ pidchecked' = pidchecked
  BY DEF wait4_reap
<1>3. /\ p \in Proc \ {init} /\ proc[p].stat = "SZOMB" /\ a = proc[p].pgid
      /\ proc' \in [Proc -> Entry] /\ proc'[p].stat = "free"
      /\ \A r \in Proc \ {p} : /\ proc'[r].stat = proc[r].stat /\ proc'[r].pid = proc[r].pid
                               /\ proc'[r].pptr = proc[r].pptr /\ proc'[r].pgid = proc[r].pgid
  BY <1>1 DEF LeftBy, Free
<1>4. /\ TypeOK /\ Numbers /\ JobcInv /\ Family /\ Lists
      /\ init \in Proc /\ none \notin Proc
  BY Constants DEF GroupInv, WaitInv
<1>5. Lists' /\ pgrp' \in [Pid -> GroupRec]
  BY <1>1, ReapedLists, ReapedPgrp
<1>6. /\ Counts(session, sessions)' /\ InitAlone' /\ session' \in Sessions
      /\ \A h \in Pid : Exists(h)' => sessions'[h] = sessions[h] /\ pgrp'[h].jobc = pgrp[h].jobc
  BY <1>1, ReapedCounts
<1>7. nprocs' = Cardinality(Alive')
  <2>1. Alive' = Alive \ {p} /\ p \in Alive
    BY <1>3 DEF Alive
  <2>2. Alive \in SUBSET Proc
    BY DEF Alive
  <2>3. IsFiniteSet(Alive)
    BY <2>2, Constants, FS_Subset
  <2>4. Cardinality(Alive \ {p}) = Cardinality(Alive) - 1
    BY <2>1, <2>3, FS_RemoveElement
  <2> QED
    BY <1>2, <1>4, <2>1, <2>4, TypesAre
<1>8. TypeOK'
  BY <1>2, <1>3, <1>4, <1>5, <1>6, <1>7, TypesAre, TypesAfter DEF GroupRec, Sessions
<1>9. Numbers'
  BY <1>2, <1>3, <1>4 DEF Numbers
<1>10. RunUnused'
  BY <1>2, <1>3, RunKept
<1>11. JobcInv'
  <2> SUFFICES ASSUME NEW h \in Pid, Exists(h)' PROVE pgrp'[h].jobc = Cardinality(Quals(h)')
    BY DEF JobcInv
  <2>1. sessions'[h] = sessions[h] /\ pgrp'[h].jobc = pgrp[h].jobc
    BY <1>6
  <2>2. \A g \in Pid : sessions[g] = pgrp[g].session /\ sessions'[g] = pgrp'[g].session
    BY DEF sessions
  <2>3. Exists(h)
    BY <2>1, <2>2 DEF Exists
  <2>4. ASSUME NEW r \in Proc, proc[r].stat \notin {"free", "SZOMB"}, proc[r].pptr # none
        PROVE  /\ proc[r].pptr \in Proc \ {p} /\ proc[proc[r].pptr].pgid \in Pid
               /\ pgrp'[proc[proc[r].pptr].pgid].session = pgrp[proc[proc[r].pptr].pgid].session
    <3>1. PICK t : t = proc[r].pptr
      OBVIOUS
    <3>2. t \in Proc \ {p} /\ proc[t].stat = "SRUN"
      BY <1>3, <1>4, <2>4, <3>1 DEF Family
    <3>3. PICK g : g = proc[t].pgid
      OBVIOUS
    <3>4. g \in Pid /\ proc'[t].pgid = g /\ proc'[t].stat # "free"
      BY <1>3, <3>2, <3>3, Facts
    <3>5. t \in Of(g)'
      BY <3>2, <3>4 DEF Of
    <3>6. Exists(g)'
      BY <1>5, <3>4, <3>5 DEF Lists
    <3>7. sessions'[g] = sessions[g]
      BY <1>6, <3>4, <3>6
    <3> QED
      BY <2>2, <3>1, <3>2, <3>3, <3>4, <3>7
  <2>5. p \notin Quals(h) /\ p \notin Quals(h)'
    BY <1>3 DEF Quals
  <2>6. ASSUME NEW r \in Proc \ {p} PROVE r \in Quals(h)' <=> r \in Quals(h)
    <3>1. /\ proc'[r].stat = proc[r].stat /\ proc'[r].pptr = proc[r].pptr /\ proc'[r].pgid = proc[r].pgid
      BY <1>3
    <3>2. CASE proc[r].stat \notin {"free", "SZOMB"} /\ proc[r].pptr # none
      <4>1. /\ proc[r].pptr \in Proc \ {p}
            /\ pgrp'[proc[proc[r].pptr].pgid].session = pgrp[proc[proc[r].pptr].pgid].session
        BY <2>4, <3>2
      <4>2. proc'[proc[r].pptr].pgid = proc[proc[r].pptr].pgid
        BY <1>3, <4>1
      <4>3. pgrp'[h].session = pgrp[h].session
        BY <2>1, <2>2
      <4> QED
        BY <3>1, <4>1, <4>2, <4>3 DEF Quals, SessionOf
    <3>3. CASE ~(proc[r].stat \notin {"free", "SZOMB"} /\ proc[r].pptr # none)
      BY <3>1, <3>3 DEF Quals
    <3> QED
      BY <3>2, <3>3
  <2>7. Quals(h)' \in SUBSET Proc /\ Quals(h) \in SUBSET Proc
    BY DEF Quals
  <2>8. Quals(h)' = Quals(h)
    BY <2>5, <2>6, <2>7
  <2> QED
    BY <1>4, <2>1, <2>3, <2>8 DEF JobcInv
<1> QED
  BY <1>5, <1>6, <1>8, <1>9, <1>10, <1>11 DEF GroupInv
-----------------------------------------------------------------------------
(* init never asks for memory to fork.                                     *)

LEMMA EnterHere ==
  ASSUME WaitInv, InitHere, NEW t \in Proc, NEW g, NEW mksess, enterpgrp(t, g, mksess) PROVE InitHere'
<1>1. PICK m : proc' = [Unlinked(t) EXCEPT ![t].pgid = g, ![t].pgrpnxt = m]
  BY DEF enterpgrp
<1>2. PICK u : u = Unlinked(t)
  OBVIOUS
<1>3. /\ u = [q \in Proc |-> u[q]]
      /\ \A q \in Proc : IsEntry(u[q]) /\ Alike(u[q], proc[q])
  BY <1>2, UnlinkedIs DEF WaitInv
<1>4. proc' = [q \in Proc |-> IF q = t THEN [u[t] EXCEPT !.pgid = g, !.pgrpnxt = m] ELSE u[q]]
  BY <1>1, <1>2, <1>3
<1>5. IsEntry(u[init]) /\ u[init].at = proc[init].at
  BY <1>3, Constants DEF Alike
<1>6. proc'[init] = u[init] \/ proc'[init] = [u[init] EXCEPT !.pgid = g, !.pgrpnxt = m]
  BY <1>4, Constants
<1>7. proc'[init].at = proc[init].at
  BY <1>5, <1>6 DEF IsEntry
<1> QED
  BY <1>7 DEF InitHere

LEMMA StepHere ==
  ASSUME WaitInv, GroupInv, InitHere, [Next]_vars PROVE InitHere'
<1>0. proc \in [Proc -> Entry] /\ proc[init] \in Entry /\ init \in Proc /\ none \notin Proc
  BY EntryIs, Constants
<1>1. CASE UNCHANGED vars
  BY <1>1 DEF vars, InitHere
<1>2. CASE Next
  <2>1. PICK p \in Proc :
          \/ setsid(p) \/ setpgid(p)
          \/ fork_pid(p) \/ fork_create(p) \/ (\E isvfork \in BOOLEAN : fork_done(p, isvfork))
          \/ vfork_wait(p) \/ execve(p) \/ exit(p)
          \/ \E pid \in Waits(p) \cup {proc[p].arg} : wait4_reap(p, pid) \/ wait4_sleep(p, pid)
          \/ wait4_none(p) \/ wait4_signal(p)
    BY <1>2 DEF Next
  <2>2. CASE setsid(p)
    <3>1. PICK g : enterpgrp(p, g, TRUE)
      BY <2>2 DEF setsid
    <3> QED
      BY <3>1, EnterHere
  <2>3. CASE setpgid(p)
    <3>1. PICK t \in Targets(p) : \E g : enterpgrp(t, g, FALSE)
      BY <2>3 DEF setpgid
    <3>2. t \in Proc
      BY DEF Targets
    <3> QED
      BY <3>1, <3>2, EnterHere
  <2>4. CASE fork_pid(p)
    <3>1. p # init /\ \E e : proc' = [proc EXCEPT ![p] = e]
      <4>1. CASE nprocs >= maxproc
        <5>1. p # init /\ proc' = [proc EXCEPT ![p].at = "user"]
          BY <2>4, <4>1 DEF fork_pid
        <5> QED
          BY <5>1
      <4>2. CASE ~(nprocs >= maxproc)
        <5>1. p # init /\ \E n : proc' = [proc EXCEPT ![p].at = "malloc", ![p].arg = n]
          BY <2>4, <4>2 DEF fork_pid
        <5>2. PICK n : proc' = [proc EXCEPT ![p].at = "malloc", ![p].arg = n]
          BY <5>1
        <5>3. proc' = [proc EXCEPT ![p] = [proc[p] EXCEPT !.at = "malloc", !.arg = n]]
          BY <1>0, <5>2
        <5> QED
          BY <5>1, <5>3
      <4> QED
        BY <4>1, <4>2
    <3>2. proc'[init] = proc[init]
      BY <1>0, <3>1
    <3> QED
      BY <3>2 DEF InitHere
  <2>5. CASE fork_create(p)
    <3>1. p # init
      BY <2>5 DEF fork_create, InitHere
    <3>2. proc'[init] = proc[init]
      <4>1. CASE proc[p].arg # nextpid
        <5>1. proc' = [proc EXCEPT ![p].at = "redo", ![p].arg = 0]
          BY <2>5, <4>1 DEF fork_create
        <5> QED
          BY <1>0, <3>1, <5>1
      <4>2. CASE proc[p].arg = nextpid
        <5>1. PICK c : Born(p, c)
          BY <2>5, <4>2, fork_createBorn
        <5>2. c # init
          BY <5>1 DEF Born, GroupInv, Numbers
        <5> QED
          BY <1>0, <5>1, <5>2 DEF Born
      <4> QED
        BY <4>1, <4>2
    <3> QED
      BY <3>2 DEF InitHere
  <2>6. CASE \E isvfork \in BOOLEAN : fork_done(p, isvfork)
    <3>1. PICK isvfork \in BOOLEAN : fork_done(p, isvfork)
      BY <2>6
    <3>2. PICK c : c = proc[p].child
      OBVIOUS
    <3>3. c \in Proc \ {init} /\ proc[c].stat = "SIDL" /\ proc[p].stat = "SRUN" /\ c # p
      BY <3>1, <3>2 DEF WaitInv, CallsFit, fork_done
    <3>4. PICK at, v : /\ v = [proc EXCEPT ![c].stat = "SRUN", ![c].flag = IF isvfork THEN {"SPPWAIT"} ELSE {}]
                       /\ at = IF isvfork THEN "ppwait" ELSE "user"
      OBVIOUS
    <3>5. proc' = [v EXCEPT ![p].at = at, ![p].child = IF isvfork THEN @ ELSE none]
      BY <3>1, <3>2, <3>4 DEF fork_done
    <3>6. v = [q \in Proc |-> v[q]] /\ v[init] = proc[init]
      BY <1>0, <3>3, <3>4
    <3>7. proc'[init] = proc[init] \/ \E x : proc'[init] = [proc[init] EXCEPT !.at = at, !.child = x]
      <4>1. PICK w : w = [v EXCEPT ![p].at = at]
        OBVIOUS
      <4>2. proc' = [w EXCEPT ![p].child = IF isvfork THEN @ ELSE none]
        BY <3>5, <4>1
      <4>3. w = [q \in Proc |-> IF q = p THEN [v[p] EXCEPT !.at = at] ELSE v[q]]
        BY <3>6, <4>1
      <4>4. PICK x : proc' = [w EXCEPT ![p].child = x]
        BY <4>2
      <4>5. proc' = [q \in Proc |-> IF q = p THEN [w[p] EXCEPT !.child = x] ELSE w[q]]
        BY <4>3, <4>4
      <4>6. CASE p # init
        BY <1>0, <3>6, <4>3, <4>5, <4>6
      <4>7. CASE p = init
        <5>1. w[p] = [v[p] EXCEPT !.at = at] /\ v[p] = proc[init]
          BY <1>0, <3>6, <4>3, <4>7
        <5>2. proc'[init] = [w[p] EXCEPT !.child = x]
          BY <4>5, <4>7
        <5>3. proc'[init] = [proc[init] EXCEPT !.at = at, !.child = x]
          BY <5>1, <5>2
        <5> QED
          BY <5>3
      <4> QED
        BY <4>6, <4>7
    <3>8. CASE proc'[init] = proc[init]
      BY <3>8 DEF InitHere
    <3>9. CASE \E x : proc'[init] = [proc[init] EXCEPT !.at = at, !.child = x]
      <4>1. PICK x : proc'[init] = [proc[init] EXCEPT !.at = at, !.child = x]
        BY <3>9
      <4>2. proc'[init].at = at
        BY <1>0, <4>1 DEF Entry
      <4>3. at \notin {"redo", "malloc"}
        BY <3>4
      <4> QED
        BY <4>2, <4>3 DEF InitHere
    <3> QED
      BY <3>7, <3>8, <3>9
  <2>7. CASE vfork_wait(p)
    <3>1. PICK r : r = IF "SPPWAIT" \in proc[proc[p].child].flag THEN [proc[p] EXCEPT !.at = "ppwait"]
                       ELSE [proc[p] EXCEPT !.at = "user", !.child = none]
      OBVIOUS
    <3>2. proc' = [proc EXCEPT ![p] = r]
      BY <2>7, <3>1 DEF vfork_wait
    <3>3. r.at \in {"ppwait", "user"}
      <4>1. proc[p] \in Entry
        BY <1>0
      <4> QED
        BY <3>1, <4>1 DEF Entry
    <3>4. CASE p = init
      BY <1>0, <3>2, <3>3, <3>4 DEF InitHere
    <3>5. CASE p # init
      BY <1>0, <3>2, <3>5 DEF InitHere
    <3> QED
      BY <3>4, <3>5
  <2>8. CASE execve(p)
    <3>1. p # init
      BY <2>8 DEF execve
    <3>2. proc'[init] = proc[init] \/ proc'[init] = Resumed(proc[init])
      BY <1>0, <2>8, <3>1 DEF execve
    <3>3. IsEntry(proc[init])
      BY <1>0 DEF WaitInv, Shape
    <3> QED
      BY <3>2, <3>3, ResumedIs DEF InitHere
  <2>9. CASE exit(p)
    <3>1. p # init /\ init \notin Children(p)
      BY <1>0, <2>9 DEF exit, WaitInv, Family, Children
    <3>2. IsEntry(proc[init])
      BY <1>0 DEF WaitInv, Shape
    <3>3. PICK r : r = Resumed(proc[init])
      OBVIOUS
    <3>4. IsEntry(r) /\ (proc[init].at \notin {"redo", "malloc"} => r.at \notin {"redo", "malloc"})
      BY <3>2, <3>3, ResumedIs
    <3>5. PICK pp : pp = proc[p].pptr
      OBVIOUS
    <3>6. \/ proc'[init] = proc[init] \/ proc'[init] = r
          \/ proc'[init] = [r EXCEPT !.flag = @ \cup {"SZCHILD"}]
      <4>1. proc' = [q \in Proc |->
                      CASE q = p -> [proc[p] EXCEPT !.stat = "SZOMB", !.flag = {}]
                        [] q \in Children(p) -> [proc[q] EXCEPT !.pptr = init]
                        [] q = pp -> [Resumed(proc[q]) EXCEPT !.flag = @ \cup {"SZCHILD"}]
                        [] q = init /\ q # pp /\ InitWoken(p) -> Resumed(proc[q])
                        [] OTHER -> proc[q]]
        BY <2>9, <3>5 DEF exit
      <4>2. CASE init = pp
        BY <1>0, <3>1, <3>3, <4>1, <4>2
      <4>3. CASE init # pp
        BY <1>0, <3>1, <3>3, <4>1, <4>3
      <4> QED
        BY <4>2, <4>3
    <3>7. proc'[init].at \in {proc[init].at, r.at}
      <4>1. [r EXCEPT !.flag = @ \cup {"SZCHILD"}].at = r.at
        BY <3>4 DEF IsEntry
      <4> QED
        BY <3>6, <4>1
    <3> QED
      BY <3>4, <3>7 DEF InitHere
  <2>10. CASE \E pid \in Waits(p) \cup {proc[p].arg} : wait4_reap(p, pid)
    <3>1. PICK pid \in Waits(p) \cup {proc[p].arg} : wait4_reap(p, pid)
      BY <2>10
    <3>2. PICK z \in Zombies(p, pid) : proc' = [Unlinked(z) EXCEPT ![z] = Free, ![p].at = "user", ![p].arg = 0]
      BY <3>1 DEF wait4_reap
    <3>3. z \in Proc /\ proc[z].stat = "SZOMB"
      BY DEF Zombies, Found, Children
    <3>4. z # init
      BY <3>3 DEF WaitInv, Family
    <3>5. PICK u : u = Unlinked(z)
      OBVIOUS
    <3>6. /\ u = [q \in Proc |-> u[q]]
          /\ \A q \in Proc : IsEntry(u[q]) /\ Alike(u[q], proc[q])
      BY <3>3, <3>5, UnlinkedIs DEF WaitInv
    <3>7. PICK v : v = [u EXCEPT ![z] = Free]
      OBVIOUS
    <3>8. v = [q \in Proc |-> IF q = z THEN Free ELSE u[q]]
      BY <3>6, <3>7
    <3>9. proc' = [v EXCEPT ![p].at = "user", ![p].arg = 0]
      BY <3>2, <3>5, <3>7
    <3>10. proc' = [q \in Proc |-> IF q = p THEN [v[p] EXCEPT !.at = "user", !.arg = 0] ELSE v[q]]
      BY <3>8, <3>9
    <3>11. v[init] = u[init] /\ IsEntry(u[init]) /\ u[init].at = proc[init].at
      BY <1>0, <3>4, <3>6, <3>8 DEF Alike
    <3>12. proc'[init] = u[init] \/ proc'[init] = [u[init] EXCEPT !.at = "user", !.arg = 0]
      BY <1>0, <3>10, <3>11
    <3>13. proc'[init].at \in {proc[init].at, "user"}
      BY <3>11, <3>12 DEF IsEntry
    <3> QED
      BY <3>13 DEF InitHere
  <2>11. CASE \/ \E pid \in Waits(p) \cup {proc[p].arg} : wait4_sleep(p, pid)
              \/ wait4_none(p) \/ wait4_signal(p)
    <3>1. CASE \E pid \in Waits(p) \cup {proc[p].arg} : wait4_sleep(p, pid)
      <4>1. PICK pid : wait4_sleep(p, pid)
        BY <3>1
      <4>2. PICK r : r = [proc[p] EXCEPT !.at = "wait", !.arg = pid]
        OBVIOUS
      <4>3. proc' = [proc EXCEPT ![p] = r] /\ r.at = "wait"
        BY <1>0, <4>1, <4>2 DEF wait4_sleep, Entry
      <4>4. proc'[init].at \in {proc[init].at, "wait"}
        BY <1>0, <4>3
      <4> QED
        BY <4>4 DEF InitHere
    <3>2. CASE wait4_none(p) \/ wait4_signal(p)
      <4>1. PICK r : r = [proc[p] EXCEPT !.at = "user", !.arg = 0]
        OBVIOUS
      <4>2. proc' = [proc EXCEPT ![p] = r] /\ r.at = "user"
        BY <1>0, <3>2, <4>1 DEF wait4_none, wait4_signal, Entry
      <4>3. proc'[init].at \in {proc[init].at, "user"}
        BY <1>0, <4>2
      <4> QED
        BY <4>3 DEF InitHere
    <3> QED
      BY <2>11, <3>1, <3>2
  <2> QED
    BY <2>1, <2>2, <2>3, <2>4, <2>5, <2>6, <2>7, <2>8, <2>9, <2>10, <2>11
<1> QED
  BY <1>1, <1>2
-----------------------------------------------------------------------------
(* The first state.                                                        *)

\* There are two sessions to begin with.
LEMMA TwoSessions ==
  LET s == CHOOSE x \in Session : TRUE
      t == CHOOSE x \in Session : x # s
  IN  s \in Session /\ t \in Session /\ t # s
<1> DEFINE s == CHOOSE x \in Session : TRUE
           t == CHOOSE x \in Session : x # s
<1>1. init \in Proc /\ IsFiniteSet(Proc) /\ Cardinality(Session) > Cardinality(Proc)
  BY ProcAssumption
<1>2. Cardinality(Proc) \in Nat /\ Cardinality(Proc) >= 1
  BY <1>1, FS_CardinalityType, FS_EmptySet
<1>3. Cardinality({}) = 0 /\ \A x : Cardinality({x}) = 1
  BY FS_EmptySet, FS_Singleton
<1>4. Session # {}
  BY <1>1, <1>2, <1>3
<1>5. s \in Session
  BY <1>4
<1>6. \E x \in Session : x # s
  <2> SUFFICES ASSUME \A x \in Session : x = s PROVE FALSE
    OBVIOUS
  <2> HIDE DEF s
  <2>1. Session = {s}
    BY <1>5
  <2>2. Cardinality(Session) = 1
    BY <1>3, <2>1
  <2> QED
    BY <1>1, <1>2, <2>2
<1>7. t \in Session /\ t # s
  BY <1>6
<1> QED
  BY <1>5, <1>7

\* A list of one process.
LEMMA ListOfOne ==
  ASSUME NEW nx, NEW p \in Proc, nx[p] = none
  PROVE  ListOf(nx, none, {}) /\ ListOf(nx, p, {p})
<1>1. ListOf(nx, none, {})
  <2>1. IsList(nx, none, <<>>) /\ Once(<<>>) /\ Range(<<>>) = {}
    BY DEF IsList, Once, Range
  <2> QED
    BY <2>1 DEF ListOf
<1>2. ListOf(nx, p, {} \cup {p})
  BY <1>1, ListPushed
<1> QED
  BY <1>1, <1>2

\* What Init says of the processes, the groups and the sessions.
Begun(s, t) ==
  /\ init \in Proc /\ Shell \in Proc \ {init}
  /\ s \in Session /\ t \in Session /\ t # s
  /\ proc \in [Proc -> Entry] /\ nextpid = StartPid /\ pidchecked = PID_MAX /\ nprocs = 2
  /\ proc[init].stat = "SRUN" /\ proc[init].pid = 1 /\ proc[init].pgid = 1 /\ proc[init].pptr = none
  /\ proc[Shell].stat = "SRUN" /\ proc[Shell].pid = ShellPid /\ proc[Shell].pgid = ShellPid
  /\ proc[Shell].pptr = init
  /\ \A p \in Proc : proc[p].pgrpnxt = none /\ proc[p].at = "user"
  /\ \A p \in Proc \ {init, Shell} : proc[p].stat = "free"
  /\ pgrp \in [Pid -> GroupRec]
  /\ pgrp[1].session = s /\ pgrp[1].mem = init /\ pgrp[1].jobc = 0
  /\ pgrp[ShellPid].session = t /\ pgrp[ShellPid].mem = Shell /\ pgrp[ShellPid].jobc = 0
  /\ \A g \in Pid \ {1, ShellPid} : pgrp[g] = NoGroup
  /\ session \in Sessions /\ session[s].count = 1 /\ session[t].count = 1
  /\ \A x \in Session \ {s, t} : session[x] = NoSession

LEMMA InitBegun == Init => \E s, t : Begun(s, t)
<1> SUFFICES ASSUME Init PROVE \E s, t : Begun(s, t)
  OBVIOUS
<1> DEFINE first == [Free EXCEPT !.stat = "SRUN", !.pid = 1, !.pgid = 1]
           shell == [Free EXCEPT !.stat = "SRUN", !.pid = ShellPid, !.pgid = ShellPid,
                                 !.pptr = init, !.flag = {"SEXEC"}]
           s == CHOOSE x \in Session : TRUE
           t == CHOOSE x \in Session : x # s
           one == [NoGroup EXCEPT !.session = s, !.mem = init]
           two == [NoGroup EXCEPT !.session = t, !.mem = Shell]
<1>1. /\ proc = [p \in Proc |-> CASE p = init -> first [] p = Shell -> shell [] OTHER -> Free]
      /\ pgrp = [g \in Pid |-> CASE g = 1 -> one [] g = ShellPid -> two [] OTHER -> NoGroup]
      /\ session = [x \in Session |-> CASE x = s -> [leader |-> init, count |-> 1]
                                        [] x = t -> [leader |-> Shell, count |-> 1]
                                        [] OTHER -> NoSession]
      /\ nextpid = StartPid /\ pidchecked = PID_MAX /\ nprocs = 2
  BY Zenon DEF Init
<1>2. s \in Session /\ t \in Session /\ t # s
  BY Zenon, TwoSessions
<1>3. /\ init \in Proc /\ Shell \in Proc \ {init} /\ none \notin Proc
      /\ 1 \in Pid /\ ShellPid \in Pid /\ ShellPid # 1 /\ 0 \in -PID_MAX .. PID_MAX
  BY ProcAssumption, Constants DEF Pid
<1>6. /\ Free \in Entry /\ Free.stat = "free" /\ Free.pid = 0 /\ Free.pptr = none /\ Free.pgid = 0
      /\ Free.pgrpnxt = none /\ Free.flag = {} /\ Free.at = "user" /\ Free.arg = 0 /\ Free.child = none
  BY <1>3 DEF Free, Entry
<1>4. /\ first \in Entry /\ first.stat = "SRUN" /\ first.pid = 1 /\ first.pgid = 1 /\ first.pptr = none
      /\ first.pgrpnxt = none /\ first.at = "user"
  <2>1. PICK a : a = [Free EXCEPT !.stat = "SRUN", !.pid = 1, !.pgid = 1]
    OBVIOUS
  <2>2. /\ a \in Entry /\ a.stat = "SRUN" /\ a.pid = 1 /\ a.pgid = 1 /\ a.pptr = none
        /\ a.pgrpnxt = none /\ a.at = "user"
    BY <1>3, <1>6, <2>1 DEF Entry
  <2> QED
    BY <2>1, <2>2
<1>5. /\ shell \in Entry /\ shell.stat = "SRUN" /\ shell.pid = ShellPid /\ shell.pgid = ShellPid
      /\ shell.pptr = init /\ shell.pgrpnxt = none /\ shell.at = "user"
  <2>1. PICK a : a = [Free EXCEPT !.stat = "SRUN", !.pid = ShellPid, !.pgid = ShellPid]
    OBVIOUS
  <2>2. /\ a \in Entry /\ a.stat = "SRUN" /\ a.pid = ShellPid /\ a.pgid = ShellPid
        /\ a.pgrpnxt = none /\ a.at = "user"
    BY <1>3, <1>6, <2>1 DEF Entry
  <2>3. PICK b : b = [a EXCEPT !.pptr = init, !.flag = {"SEXEC"}]
    OBVIOUS
  <2>4. /\ b \in Entry /\ b.stat = "SRUN" /\ b.pid = ShellPid /\ b.pgid = ShellPid /\ b.pptr = init
        /\ b.pgrpnxt = none /\ b.at = "user"
    BY <1>3, <2>2, <2>3 DEF Entry
  <2>5. shell = b
    BY <2>1, <2>3
  <2> QED
    BY <2>4, <2>5
<1>7. /\ one \in GroupRec /\ one.session = s /\ one.mem = init /\ one.jobc = 0
      /\ two \in GroupRec /\ two.session = t /\ two.mem = Shell /\ two.jobc = 0
      /\ NoGroup \in GroupRec
  <2>1. /\ NoGroup \in GroupRec /\ NoGroup.jobc = 0
    BY DEF NoGroup, GroupRec
  <2>2. PICK x, y : x = s /\ y = t
    OBVIOUS
  <2>3. PICK a, b : a = [NoGroup EXCEPT !.session = x, !.mem = init]
                    /\ b = [NoGroup EXCEPT !.session = y, !.mem = Shell]
    OBVIOUS
  <2>4. x \in Session /\ y \in Session
    BY <1>2, <2>2
  <2>5. a \in GroupRec /\ a.session = x /\ a.mem = init /\ a.jobc = 0
    BY <1>3, <2>1, <2>3, <2>4 DEF GroupRec
  <2>6. b \in GroupRec /\ b.session = y /\ b.mem = Shell /\ b.jobc = 0
    BY <1>3, <2>1, <2>3, <2>4 DEF GroupRec
  <2>7. one = a /\ two = b
    BY <2>2, <2>3
  <2> HIDE DEF one, two
  <2> QED
    BY <2>1, <2>5, <2>2, <2>6, <2>7
<1> HIDE DEF first, shell, one, two, s, t
<1>8. proc[init] = first /\ proc[Shell] = shell /\ \A p \in Proc \ {init, Shell} : proc[p] = Free
  BY <1>1, <1>3
<1>9. proc \in [Proc -> Entry]
  <2>1. \A p \in Proc : proc[p] \in Entry
    BY <1>4, <1>5, <1>6, <1>8
  <2> QED
    BY <1>1, <2>1
<1>10. pgrp[1] = one /\ pgrp[ShellPid] = two /\ \A g \in Pid \ {1, ShellPid} : pgrp[g] = NoGroup
  BY <1>1, <1>3
<1>11. pgrp \in [Pid -> GroupRec]
  <2>1. \A g \in Pid : pgrp[g] \in GroupRec
    BY <1>7, <1>10
  <2> QED
    BY <1>1, <2>1
<1>12. /\ session[s] = [leader |-> init, count |-> 1] /\ session[t] = [leader |-> Shell, count |-> 1]
       /\ \A x \in Session \ {s, t} : session[x] = NoSession
  BY <1>1, <1>2
<1>13. session \in Sessions
  <2>1. \A x \in Session : session[x] \in [leader : Proc \cup {none}, count : Nat]
    BY <1>3, <1>12 DEF NoSession
  <2> QED
    BY <1>1, <2>1 DEF Sessions
<1>14. \A p \in Proc : proc[p].pgrpnxt = none /\ proc[p].at = "user"
  BY <1>4, <1>5, <1>6, <1>8
<1>15. Begun(s, t)
  BY <1>1, <1>2, <1>3, <1>4, <1>5, <1>6, <1>7, <1>8, <1>9, <1>10, <1>11, <1>12, <1>13, <1>14 DEF Begun
<1> QED
  BY <1>15

LEMMA BegunNumbers ==
  ASSUME NEW s, NEW t, Begun(s, t) PROVE TypeOK /\ Numbers /\ RunUnused /\ InitHere
<1>1. /\ ShellPid \in FirstPid .. PID_MAX - 1 /\ StartPid \in ShellPid .. PID_MAX - 1
      /\ FirstPid \in Nat /\ FirstPid > 1 /\ PID_MAX \in Nat
  BY ProcAssumption, Constants
<1>2. \A p \in Proc : p = init \/ p = Shell \/ proc[p].stat = "free"
  BY DEF Begun
<1>3. Alive = {init, Shell}
  BY <1>2 DEF Alive, Begun
<1>4. Cardinality(Alive) = 2
  <2>1. init # Shell
    BY DEF Begun
  <2>2. Cardinality({init}) = 1 /\ IsFiniteSet({init})
    BY FS_Singleton
  <2>3. Cardinality({init} \cup {Shell}) = 2
    BY <2>1, <2>2, FS_AddElement
  <2>4. Alive = {init} \cup {Shell}
    BY <1>3
  <2> QED
    BY <2>3, <2>4
<1>5. TypeOK
  BY <1>1, <1>4, TypesAre DEF Begun, Pid, GroupRec, Sessions
<1>6. Numbers
  BY <1>1, <1>2 DEF Begun, Numbers
<1>7. RunUnused
  <2> SUFFICES ASSUME NEW p \in Proc, proc[p].stat # "free", NEW x \in {proc[p].pid, proc[p].pgid},
                      x \in nextpid + 1 .. pidchecked - 1
               PROVE  FALSE
    BY DEF RunUnused
  <2>1. x = 1 \/ x = ShellPid
    BY <1>2 DEF Begun
  <2> QED
    BY <1>1, <2>1 DEF Begun
<1>8. InitHere
  BY DEF Begun, InitHere
<1> QED
  BY <1>5, <1>6, <1>7, <1>8

LEMMA BegunLists ==
  ASSUME NEW s, NEW t, Begun(s, t) PROVE Lists
<1>1. ShellPid \in Pid /\ ShellPid # 1 /\ 1 \in Pid /\ none \notin Session
  BY ProcAssumption, Constants DEF Pid
<1>2. \A p \in Proc : nxt[p] = none
  BY DEF Begun, nxt
<1>3. \A g \in Pid : Of(g) = IF g = 1 THEN {init} ELSE IF g = ShellPid THEN {Shell} ELSE {}
  <2> SUFFICES ASSUME NEW g \in Pid
               PROVE  \A p : p \in Of(g) <=> \/ g = 1 /\ p = init
                                             \/ g = ShellPid /\ p = Shell
    BY <1>1
  <2> QED
    BY <1>1 DEF Of, Begun
<1>4. ListOf(nxt, none, {}) /\ ListOf(nxt, init, {init}) /\ ListOf(nxt, Shell, {Shell})
  <2>1. init \in Proc /\ Shell \in Proc
    BY DEF Begun
  <2> QED
    BY <1>2, <2>1, ListOfOne
<1>5. ASSUME NEW g \in Pid
      PROVE  /\ ListOf(nxt, pgrp[g].mem, Of(g))
             /\ Exists(g) <=> Of(g) # {}
             /\ ~Exists(g) => pgrp[g] = NoGroup
  <2>1. CASE g = 1
    <3>1. pgrp[g].mem = init /\ pgrp[g].session # none /\ Of(g) = {init}
      BY <1>1, <1>3, <2>1 DEF Begun
    <3> QED
      BY <1>4, <3>1 DEF Exists
  <2>2. CASE g = ShellPid
    <3>1. pgrp[g].mem = Shell /\ pgrp[g].session # none /\ Of(g) = {Shell}
      BY <1>1, <1>3, <2>2 DEF Begun
    <3> QED
      BY <1>4, <3>1 DEF Exists
  <2>3. CASE g \notin {1, ShellPid}
    <3>1. pgrp[g] = NoGroup /\ Of(g) = {}
      BY <1>3, <2>3 DEF Begun
    <3>2. pgrp[g].mem = none /\ pgrp[g].session = none
      BY <3>1 DEF NoGroup
    <3> QED
      BY <1>4, <3>1, <3>2 DEF Exists
  <2> QED
    BY <2>1, <2>2, <2>3
<1>6. \A p \in Proc : proc[p].stat = "free" => proc[p].pgrpnxt = none
  BY DEF Begun
<1> QED
  BY <1>5, <1>6 DEF Lists

LEMMA BegunCounts ==
  ASSUME NEW s, NEW t, Begun(s, t) PROVE Counts(session, sessions) /\ InitAlone /\ JobcInv
<1>1. ShellPid \in Pid /\ ShellPid # 1 /\ 1 \in Pid /\ none \notin Session /\ none \notin Proc
  BY ProcAssumption, Constants DEF Pid
<1>2. /\ s \in Session /\ t \in Session /\ s # t
      /\ sessions[1] = s /\ sessions[ShellPid] = t
      /\ \A g \in Pid \ {1, ShellPid} : sessions[g] = none
  BY <1>1 DEF Begun, sessions, NoGroup
<1>3. Counts(session, sessions)
  <2> SUFFICES ASSUME NEW x \in Session
               PROVE  /\ session[x].count = Cardinality(GroupsOf(sessions, x))
                      /\ session[x].count = 0 => session[x] = NoSession
    BY DEF Counts, GroupsOf
  <2>1. CASE x = s
    <3>1. GroupsOf(sessions, x) = {1}
      BY <1>1, <1>2, <2>1 DEF GroupsOf
    <3>2. session[x].count = 1
      BY <2>1 DEF Begun
    <3>3. Cardinality({1}) = 1
      BY FS_Singleton
    <3> QED
      BY <3>1, <3>2, <3>3
  <2>2. CASE x = t
    <3>1. GroupsOf(sessions, x) = {ShellPid}
      BY <1>1, <1>2, <2>2 DEF GroupsOf
    <3>2. session[x].count = 1
      BY <2>2 DEF Begun
    <3>3. Cardinality({ShellPid}) = 1
      BY FS_Singleton
    <3> QED
      BY <3>1, <3>2, <3>3
  <2>3. CASE x \notin {s, t}
    <3>1. GroupsOf(sessions, x) = {}
      BY <1>1, <1>2, <2>3 DEF GroupsOf
    <3>2. session[x] = NoSession
      BY <2>3 DEF Begun
    <3> QED
      BY <3>1, <3>2, FS_EmptySet DEF NoSession
  <2> QED
    BY <2>1, <2>2, <2>3
<1>4. InitAlone
  BY <1>1, <1>2 DEF InitAlone
<1>5. ASSUME NEW g \in Pid, Exists(g) PROVE pgrp[g].jobc = Cardinality(Quals(g))
  <2>1. g \in {1, ShellPid}
    BY <1>5 DEF Exists, Begun, NoGroup
  <2>2. pgrp[g].jobc = 0
    BY <2>1 DEF Begun
  <2>3. ASSUME NEW p \in Quals(g) PROVE FALSE
    <3>1. /\ p \in Proc /\ proc[p].stat # "free" /\ proc[p].pgid = g /\ proc[p].pptr # none
          /\ SessionOf(proc[p].pptr) = pgrp[g].session
      BY <2>3 DEF Quals
    <3>2. p = Shell /\ g = ShellPid /\ proc[p].pptr = init
      BY <3>1 DEF Begun
    <3>3. SessionOf(init) = s /\ pgrp[g].session = t
      BY <3>2 DEF Begun, SessionOf
    <3> QED
      BY <1>2, <3>1, <3>2, <3>3
  <2>4. Quals(g) = {}
    BY <2>3
  <2> QED
    BY <2>2, <2>4, FS_EmptySet
<1> QED
  BY <1>3, <1>4, <1>5 DEF JobcInv

LEMMA InitGroups == Init => GroupInv /\ InitHere
<1> SUFFICES ASSUME Init PROVE GroupInv /\ InitHere
  OBVIOUS
<1>1. PICK s, t : Begun(s, t)
  BY InitBegun
<1> QED
  BY <1>1, BegunNumbers, BegunLists, BegunCounts DEF GroupInv
-----------------------------------------------------------------------------
(* The invariant of the groups, and what follows from it.                  *)

LEMMA StepGroups ==
  ASSUME WaitInv, GroupInv, InitHere, [Next]_vars PROVE GroupInv'
<1>1. Family'
  BY StepInv DEF WaitInv
<1>2. CASE UNCHANGED vars
  <2>1. proc' = proc /\ UNCHANGED <<pgrp, session, nextpid, pidchecked, nprocs>>
    BY <1>2 DEF vars
  <2>2. \A q \in Proc : Stays(q)
    BY <2>1 DEF Stays
  <2>3. proc' \in [Proc -> Entry]
    BY <2>1, TypesAre DEF GroupInv
  <2> QED
    BY <2>1, <2>2, <2>3, StillStep
<1>3. CASE Next
  <2>1. PICK p \in Proc :
          \/ setsid(p) \/ setpgid(p)
          \/ fork_pid(p) \/ fork_create(p) \/ (\E isvfork \in BOOLEAN : fork_done(p, isvfork))
          \/ vfork_wait(p) \/ execve(p) \/ exit(p)
          \/ \E pid \in Waits(p) \cup {proc[p].arg} : wait4_reap(p, pid) \/ wait4_sleep(p, pid)
          \/ wait4_none(p) \/ wait4_signal(p)
    BY <1>3 DEF Next
  <2>2. CASE setsid(p)
    BY <1>1, <2>2, setsidGroups
  <2>3. CASE setpgid(p)
    BY <1>1, <2>3, setpgidGroups
  <2>4. CASE fork_pid(p)
    BY <2>4, fork_pidGroups
  <2>5. CASE fork_create(p)
    BY <2>5, fork_createGroups
  <2>6. CASE \E isvfork \in BOOLEAN : fork_done(p, isvfork)
    BY <2>6, fork_doneGroups
  <2>7. CASE vfork_wait(p)
    BY <2>7, vfork_waitGroups
  <2>8. CASE execve(p)
    BY <2>8, execveGroups
  <2>9. CASE exit(p)
    BY <1>1, <2>9, exitGroups
  <2>10. CASE \E pid \in Waits(p) \cup {proc[p].arg} : wait4_reap(p, pid) \/ wait4_sleep(p, pid)
    <3>1. PICK pid \in Waits(p) \cup {proc[p].arg} : wait4_reap(p, pid) \/ wait4_sleep(p, pid)
      BY <2>10
    <3>2. CASE wait4_reap(p, pid)
      BY <3>2, wait4_reapGroups
    <3>3. CASE wait4_sleep(p, pid)
      BY <3>3, wait4Groups
    <3> QED
      BY <3>1, <3>2, <3>3
  <2>11. CASE wait4_none(p) \/ wait4_signal(p)
    <3>1. PICK pid \in Waits(p) \cup {proc[p].arg} : TRUE
      OBVIOUS
    <3> QED
      BY <2>11, <3>1, wait4Groups
  <2> QED
    BY <2>1, <2>2, <2>3, <2>4, <2>5, <2>6, <2>7, <2>8, <2>9, <2>10, <2>11
<1> QED
  BY <1>2, <1>3

\* What the theorems below rest on.
GroupsKept == WaitInv /\ GroupInv /\ InitHere

LEMMA InitKept == Init => GroupsKept
BY InitInv, InitGroups DEF GroupsKept

LEMMA StepKept == GroupsKept /\ [Next]_vars => GroupsKept'
<1> SUFFICES ASSUME GroupsKept, [Next]_vars PROVE GroupsKept'
  OBVIOUS
<1>1. WaitInv /\ GroupInv /\ InitHere
  BY DEF GroupsKept
<1>2. WaitInv'
  BY <1>1, StepInv
<1>3. GroupInv'
  BY <1>1, StepGroups
<1>4. InitHere'
  BY <1>1, StepHere
<1> QED
  BY <1>2, <1>3, <1>4 DEF GroupsKept

LEMMA GroupsAre == GroupInv => GroupsAndSessions
<1> SUFFICES ASSUME GroupInv PROVE GroupsAndSessions
  OBVIOUS
<1>1. ASSUME NEW g \in Pid
      PROVE  /\ Range(Members(g)) = {p \in Proc : proc[p].stat # "free" /\ proc[p].pgid = g}
             /\ Len(Members(g)) = Cardinality(Range(Members(g)))
             /\ Exists(g) <=> Members(g) # <<>>
  <2>1. /\ Range(Members(g)) = Of(g) /\ Len(Members(g)) = Cardinality(Of(g))
        /\ Members(g) = <<>> <=> Of(g) = {}
    BY GroupList
  <2>2. Exists(g) <=> Of(g) # {}
    BY DEF GroupInv, Lists
  <2> QED
    BY <2>1, <2>2 DEF Of
<1>2. ASSUME NEW s \in Session
      PROVE  session[s].count = Cardinality({g \in Pid : pgrp[g].session = s})
  <2>1. session[s].count = Cardinality({g \in Pid : sessions[g] = s})
    BY DEF GroupInv, Counts
  <2>2. {g \in Pid : sessions[g] = s} = {g \in Pid : pgrp[g].session = s}
    BY DEF sessions
  <2> QED
    BY <2>1, <2>2
<1> QED
  BY <1>1, <1>2 DEF GroupInv, GroupsAndSessions

\* The list of a process group holds its processes, dead ones too, each once, and groups
\* and sessions go with their last member: whatever enterpgrp() links and leavepgrp()
\* unlinks in between, nobody is linked twice or lost, and s_count never goes wrong.
THEOREM GroupListsAreExact == Spec => []GroupsAndSessions
<1>1. GroupsKept => GroupsAndSessions
  BY GroupsAre DEF GroupsKept
<1> QED
  BY InitKept, StepKept, <1>1, PTL DEF Spec

\* fixjobc() counts what the comment in proc.h says, incrementally: what a process
\* takes from the counts of its group and of its children's groups when it leaves is
\* what it brought when it entered, although others were born, moved or died meanwhile.
THEOREM JobControlCountsAreExact == Spec => []JobcExact
<1>1. GroupsKept => JobcExact
  BY DEF GroupsKept, GroupInv, JobcInv, Quals, JobcExact
<1> QED
  BY InitKept, StepKept, <1>1, PTL DEF Spec

\* fork1() may take the next pid without a scan as long as it is below pidchecked: no
\* number in the run came into use since the scan, neither as a pid nor as a group.
THEOREM PidRunIsUnused == Spec => []RunUnused
<1>1. GroupsKept => RunUnused
  BY DEF GroupsKept, GroupInv
<1> QED
  BY InitKept, StepKept, <1>1, PTL DEF Spec
=============================================================================
