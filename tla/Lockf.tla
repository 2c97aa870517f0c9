-------------------------------- MODULE Lockf --------------------------------
(***************************************************************************)
(* ufs/ufs_lockf.c: the advisory locks of one file, set by fcntl() for a   *)
(* process (F_POSIX, on ranges of bytes) and by flock() for an open file   *)
(* (F_FLOCK, on the whole file).  ip->i_lockf is a list of locks; behind   *)
(* each lock stand, in lf_block, the requests that sleep because of it.    *)
(*                                                                         *)
(* The kernel gives up the processor in two places: tsleep() of a request  *)
(* that is blocked, and the malloc() of lf_split() when memory is short.   *)
(* A signal may end the tsleep() of a request at any time.  The request is *)
(* freed then and stays where it was, behind its blocker: whoever follows  *)
(* that chain reads and writes memory that may be anybody's, and what      *)
(* happens next is not modelled (astray).                                  *)
(***************************************************************************)
EXTENDS Integers, Sequences, FiniteSets, FiniteSetsExt, SequencesExt

CONSTANTS
  Procs,         \* processes, which own POSIX locks
  Files,         \* open files, which own flock() locks; shared by the processes
  MaxByte,       \* requests start and end at 0 .. MaxByte or reach to EOF
  Extents,       \* the pairs of first and last byte that are asked for
  MaxLocks,      \* bound of the model: with so many on the list no lock is asked for
  MaxFreed,      \* bound of the model: chains with a freed request on them
  MAXDEPTH       \* maxlockdepth: how far deadlock detection looks

EOF == -1
FREED == "freed"        \* lf_next or lf_block points to memory that was freed
NONE == "none"
Owners == Procs \cup Files

ASSUME LockfAssumption ==
  /\ MaxByte \in Nat /\ MaxLocks \in Nat /\ MaxFreed \in Nat /\ MAXDEPTH \in Nat
  /\ Procs \cap Files = {} /\ {FREED, NONE} \cap Owners = {}
  /\ \A r \in Extents : r[1] \in 0 .. MaxByte /\ r[2] \in (r[1] .. MaxByte) \cup {EOF}

Bytes == 0 .. MaxByte + 1     \* the last stands for all bytes beyond MaxByte

\* A call: the lockf structure that ufs_advlock() fills in.  F_WAIT is decided when
\* it matters.
PosixCall(p) == {[own |-> p, type |-> t, start |-> r[1], end |-> r[2]] :
                   t \in {"RD", "WR", "UN"}, r \in Extents}
FlockCall == {[own |-> f, type |-> t, start |-> 0, end |-> EOF] :
                f \in Files, t \in {"RD", "WR", "UN"}}
NoCall == [type |-> "NONE"]

VARIABLES
  i_lockf,  \* the list: records [own, type, start, end, blk]; blk is lf_block
  lock,     \* p -> the lock that p's call is about
  at,       \* p -> where p is: idle, call, asleep, woken, or split (in malloc())
  nxt,      \* p -> whose lock lf_next of p's sleeping lock points to
  stranded, \* history: who came to sleep behind a lock while lf_clearlock() split it
  astray    \* a chain of blocked requests was followed through freed memory
lockfVars == <<i_lockf, lock, at, nxt, stranded, astray>>

LockfTypeOK ==
  /\ \A i \in DOMAIN i_lockf : i_lockf[i] \in
       [own : Owners, type : {"RD", "WR"}, start : Bytes, end : Bytes \cup {EOF}, blk : SUBSET (Procs \cup {FREED})]
  /\ \A p \in Procs : lock[p] \in {NoCall} \cup PosixCall(p) \cup FlockCall
  /\ at \in [Procs -> {"idle", "call", "asleep", "woken", "split"}]
  /\ nxt \in [Procs -> Owners \cup {FREED, NONE}] /\ stranded \subseteq Procs
  /\ astray \in BOOLEAN

LockfInit ==
  /\ i_lockf = <<>>
  /\ lock = [p \in Procs |-> NoCall]
  /\ at = [p \in Procs |-> "idle"]
  /\ nxt = [p \in Procs |-> NONE] /\ stranded = {} /\ astray = FALSE

-----------------------------------------------------------------------------
(* lf_findoverlap()                                                        *)

\* A mistake, to see ImplementsRangeLocks fail: the sentinel EOF = -1 is compared as if
\* it were a byte.  (After_off, Walk_short and clearlock_quiet are of the same kind.)
ovcase_sentinel(l, a) ==
  IF (l.end # EOF /\ a.start > l.end) \/ (a.end # EOF /\ l.start > a.end) THEN 0
  ELSE IF l.start = a.start /\ l.end = a.end THEN 1
  ELSE IF l.start <= a.start /\ a.end # EOF /\ (l.end >= a.end \/ l.end = EOF) THEN 2
  ELSE IF a.start <= l.start /\ (a.end = EOF \/ a.end >= l.end) THEN 3
  ELSE IF l.start < a.start THEN 4 ELSE 5

\* How lock l of the list lies to the range of a.
ovcase(l, a) ==
  IF (l.end # EOF /\ a.start > l.end) \/ (a.end # EOF /\ l.start > a.end) THEN 0
  ELSE IF l.start = a.start /\ l.end = a.end THEN 1              \* equal
  ELSE IF l.start <= a.start /\ a.end # EOF /\ (l.end >= a.end \/ l.end = EOF)
       THEN 2                                                    \* l contains a
  ELSE IF a.start <= l.start /\ (a.end = EOF \/ (l.end # EOF /\ a.end >= l.end))
       THEN 3                                                    \* a contains l
  ELSE IF l.start < a.start THEN 4                               \* l starts before a
  ELSE 5                                                         \* l ends after a

Own(l, a) == l.own = a.own
\* The places of the list that overlap a and belong to its owner.
SelfOverlaps(a) == {i \in DOMAIN i_lockf : Own(i_lockf[i], a) /\ ovcase(i_lockf[i], a) # 0}
\* The place where a search without result ends: before the owner's first lock
\* behind the range, or at the end of the list.
NoOverlapAt(a) ==
  Min({i \in DOMAIN i_lockf : Own(i_lockf[i], a) /\ a.end # EOF /\ i_lockf[i].start > a.end}
      \cup {Len(i_lockf) + 1})

\* lf_getblock(): the locks of other owners that block a, the first of which counts.
Blocks(l, a) == ~Own(l, a) /\ ovcase(l, a) # 0 /\ (a.type = "WR" \/ l.type = "WR")
lf_getblock(a) == {i \in DOMAIN i_lockf : Blocks(i_lockf[i], a)}

-----------------------------------------------------------------------------
(* What setting and clearing do to the list                                *)

\* What is left of l in front of a and behind a (cases 2, 4 and 5; lf_split()).
\* A new piece behind a starts without blocked requests.
Before(l, a) ==
  IF ovcase(l, a) = 4 \/ (ovcase(l, a) = 2 /\ l.start # a.start)
  THEN <<[l EXCEPT !.end = a.start - 1]>> ELSE <<>>
\* The rest starts one byte early.
After_off(l, a) ==
  IF ovcase(l, a) = 5 \/ (ovcase(l, a) = 2 /\ l.end # a.end)
  THEN <<[l EXCEPT !.start = a.end, !.blk = {}]>> ELSE <<>>
After(l, a) ==
  IF ovcase(l, a) = 5 \/ (ovcase(l, a) = 2 /\ l.end # a.end)
  THEN <<[l EXCEPT !.start = a.end + 1, !.blk = {}]>> ELSE <<>>

\* The list without the range of a (loop of lf_clearlock()).
Trimmed(list, a) ==
  FlattenSeq([i \in DOMAIN list |->
    IF Own(list[i], a) /\ ovcase(list[i], a) # 0
    THEN Before(list[i], a) \o After(list[i], a) ELSE <<list[i]>>])

\* lf_wakelock() of the places in s, and the requests that it wakes.
Unblocked(list, s) == [i \in DOMAIN list |-> IF i \in s THEN [list[i] EXCEPT !.blk = {}] ELSE list[i]]
BlockedOn(s) == UNION {i_lockf[i].blk : i \in s}

\* lf_split() needs a third lock.
Splits(a) == \E i \in SelfOverlaps(a) :
  /\ ovcase(i_lockf[i], a) = 2
  /\ i_lockf[i].start # a.start /\ i_lockf[i].end # a.end
  /\ a.type # i_lockf[i].type

Downgrades(l, a) == a.type = "RD" /\ l.type = "WR"
NewLock(a, blk) == [own |-> a.own, type |-> a.type, start |-> a.start, end |-> a.end, blk |-> blk]

\* The locks that a replaces whole (case 3), whose blocked requests the new lock
\* takes over unless the bytes become shared.
TakenOver(a) == {i \in SelfOverlaps(a) :
                   ovcase(i_lockf[i], a) = 3 /\ ~Downgrades(i_lockf[i], a)}

\* The six cases of lf_setlock().  What the loop does to the owner's locks one
\* after the other is put together here: its locks are ordered and disjoint
\* (OwnLocksInOrder).
Linked(a) ==
  LET ov == SelfOverlaps(a)
      k == Min(ov)
      f == i_lockf[k]
      rest == Unblocked(i_lockf, ov)
  IN IF ov = {} THEN InsertAt(i_lockf, NoOverlapAt(a), NewLock(a, {}))
     ELSE IF ovcase(f, a) = 1
     THEN [i_lockf EXCEPT ![k] = [f EXCEPT !.type = a.type,
                                           !.blk = IF Downgrades(f, a) THEN {} ELSE @]]
     ELSE IF ovcase(f, a) = 2 /\ f.type = a.type THEN i_lockf
     ELSE SubSeq(rest, 1, k - 1) \o Before(rest[k], a)
          \o <<NewLock(a, BlockedOn(TakenOver(a)))>>
          \o After(rest[k], a) \o Trimmed(SubSeq(rest, k + 1, Len(rest)), a)

\* The locks whose blocked requests lf_setlock() wakes.
LinkWaked(a) ==
  {i \in SelfOverlaps(a) \ TakenOver(a) :
    LET l == i_lockf[i] IN CASE ovcase(l, a) = 1 -> Downgrades(l, a)
                             [] ovcase(l, a) = 2 -> l.type # a.type
                             [] OTHER -> TRUE}
LinkWakes(a) == BlockedOn(LinkWaked(a))

\* The chains that are followed to their end, to wake or to append: by
\* lf_setlock(), where a chain that is taken over goes behind those taken over
\* before it, and when a request goes to sleep, an exclusive flock() having given
\* up its shared lock.
LinkFollows(a) == LinkWaked(a) \cup
  {i \in TakenOver(a) : \E j \in TakenOver(a) : j < i /\ i_lockf[j].blk # {}}
Given(a) == IF a.own \in Files /\ a.type = "WR" THEN SelfOverlaps(a) ELSE {}
SleepFollows(a) == {Min(lf_getblock(a))} \cup Given(a)
Intact(s) == FREED \notin BlockedOn(s)

-----------------------------------------------------------------------------
(* Deadlock detection                                                      *)

\* From a process that sleeps to the owner of the lock that blocks it.
Follow == [o \in Owners \cup {FREED, NONE} |->
             IF o \in Procs THEN IF at[o] = "asleep" THEN nxt[o] ELSE NONE ELSE NONE]
\* The walk ends one lock early.
Walk_short(o) ==
  LET w[i \in 0 .. MAXDEPTH] == IF i = 0 THEN o ELSE Follow[w[i - 1]]
  IN {w[i] : i \in 1 .. MAXDEPTH - 1}
\* Whose locks the walk over p_wchan and lf_next comes to, from a sleeper o on.
\* A lock of flock() ends it.
Walk(o) ==
  LET w[i \in 0 .. MAXDEPTH] == IF i = 0 THEN o ELSE Follow[w[i - 1]]
  IN {w[i] : i \in 1 .. MAXDEPTH}

\* The outcomes: TRUE is EDEADLK.  What is read from a freed lock may be anything.
Deadlock(p, o) ==
  IF lock[p].own \notin Procs \/ o \notin Procs THEN {FALSE}
  ELSE IF p \in Walk(o) THEN {TRUE}
  ELSE IF FREED \in Walk(o) THEN BOOLEAN ELSE {FALSE}

-----------------------------------------------------------------------------
(* Steps                                                                   *)

Return(p) == lock' = [lock EXCEPT ![p] = NoCall]

\* p goes to place x and the sleepers in w are made runnable; the locks of those
\* in s keep a pointer to a lock that is freed.
Go(p, x, w, s) ==
  /\ at' = [q \in Procs |-> IF q = p THEN x
                            ELSE IF q \in w /\ at[q] = "asleep" THEN "woken" ELSE at[q]]
  /\ nxt' = [q \in Procs |-> IF q \in w THEN NONE ELSE IF q \in s THEN FREED ELSE nxt[q]]
  /\ stranded' = stranded \ w /\ astray' = astray

\* The processor is free: nobody is in the middle of a call.
Quiet == \A q \in Procs : at[q] # "call"

\* ufs_advlock(), called by fcntl(), flock() and closef().  That its malloc() may
\* sleep makes no difference: nothing that others change has been read by then.
ufs_advlock(p, a) ==
  /\ at[p] = "idle" /\ Quiet
  /\ IF a.type = "UN" THEN i_lockf # <<>>
     ELSE lf_getblock(a) = {} => Len(i_lockf) < MaxLocks
  /\ lock' = [lock EXCEPT ![p] = a]
  /\ at' = [at EXCEPT ![p] = "call"]
  /\ UNCHANGED <<i_lockf, nxt, stranded, astray>>

Running(p) == at[p] = "call" \/ (at[p] = "woken" /\ Quiet)
Setting(p) == Running(p) /\ lock[p].type # "UN"
Blocked(p) == Setting(p) /\ lf_getblock(lock[p]) # {}
Blocker(p) == i_lockf[Min(lf_getblock(lock[p]))]

\* Without F_WAIT.
setlock_eagain(p) ==
  /\ Blocked(p) /\ at[p] = "call"
  /\ Return(p) /\ Go(p, "idle", {}, {}) /\ UNCHANGED i_lockf

setlock_edeadlk(p) ==
  /\ Blocked(p) /\ TRUE \in Deadlock(p, Blocker(p).own)
  /\ Return(p) /\ Go(p, "idle", {}, {}) /\ UNCHANGED i_lockf

\* The request is put behind its blocker; for an exclusive flock() the shared lock
\* is given up first.
setlock_sleep(p) ==
  /\ Blocked(p) /\ FALSE \in Deadlock(p, Blocker(p).own)
  /\ Intact(SleepFollows(lock[p]))
  /\ LET a == lock[p]
         queued == [i_lockf EXCEPT ![Min(lf_getblock(a))].blk = @ \cup {p}]
         given == Given(a)
     IN /\ i_lockf' = IF given = {} THEN queued ELSE Trimmed(queued, a)
        /\ at' = [q \in Procs |-> IF q = p THEN "asleep"
                                  ELSE IF q \in BlockedOn(given) /\ at[q] = "asleep" THEN "woken" ELSE at[q]]
        /\ nxt' = [q \in Procs |-> IF q = p THEN Blocker(p).own
                                   ELSE IF q \in BlockedOn(given) THEN NONE ELSE nxt[q]]
        /\ stranded' = stranded \ BlockedOn(given)
  /\ UNCHANGED <<lock, astray>>
\* No blocks: the lock is added.
Link(p) ==
  /\ Intact(LinkFollows(lock[p]))
  /\ i_lockf' = Linked(lock[p])
  /\ Return(p) /\ Go(p, "idle", LinkWakes(lock[p]), BlockedOn(TakenOver(lock[p])))
setlock_grant(p) == Setting(p) /\ lf_getblock(lock[p]) = {} /\ Link(p)

\* A lock goes away and those who wait for it are not told.
clearlock_quiet(p) ==
  /\ Running(p) /\ lock[p].type = "UN"
  /\ Intact(SelfOverlaps(lock[p]))
  /\ i_lockf' = Trimmed(Unblocked(i_lockf, SelfOverlaps(lock[p])), lock[p])
  /\ Go(p, "idle", {}, {})
  /\ Return(p)
\* lf_clearlock()
clearlock(p) ==
  /\ Running(p) /\ lock[p].type = "UN"
  /\ Intact(SelfOverlaps(lock[p]))
  /\ LET ov == SelfOverlaps(lock[p])
     IN /\ i_lockf' = Trimmed(Unblocked(i_lockf, ov), lock[p])
        /\ Go(p, "idle", BlockedOn(ov), {})
  /\ Return(p)

\* malloc() in lf_split() sleeps: lf_setlock() has found no blocks, lf_clearlock()
\* has woken the requests blocked by the lock it is about to split.
split_sleep(p) ==
  /\ Running(p) /\ Splits(lock[p])
  /\ IF lock[p].type = "UN"
     THEN LET ov == SelfOverlaps(lock[p])
          IN /\ Intact(ov)
             /\ i_lockf' = Unblocked(i_lockf, ov) /\ Go(p, "split", BlockedOn(ov), {})
     ELSE lf_getblock(lock[p]) = {} /\ i_lockf' = i_lockf /\ Go(p, "split", {}, {})
  /\ UNCHANGED lock
split_done(p) ==
  /\ at[p] = "split" /\ Quiet
  /\ \/ lock[p].type # "UN" /\ Link(p)
     \/ /\ lock[p].type = "UN" /\ i_lockf' = Trimmed(i_lockf, lock[p])
        /\ Return(p) /\ at' = [at EXCEPT ![p] = "idle"]
        /\ stranded' = stranded \cup (BlockedOn(SelfOverlaps(lock[p])) \cap Procs)
        /\ UNCHANGED <<nxt, astray>>

\* tsleep() returns EINTR, lf_wakelock() having taken the request off its chain or
\* not: the request is freed and the chain is left alone.
setlock_eintr(p) ==
  /\ at[p] \in {"woken", "asleep"} /\ Quiet
  /\ at[p] = "asleep" => Cardinality({i \in DOMAIN i_lockf : FREED \in i_lockf[i].blk}) < MaxFreed
  /\ Return(p)
  /\ i_lockf' = [i \in DOMAIN i_lockf |-> IF p \in i_lockf[i].blk
                    THEN [i_lockf[i] EXCEPT !.blk = (@ \ {p}) \cup {FREED}] ELSE i_lockf[i]]
  /\ at' = [at EXCEPT ![p] = "idle"] /\ nxt' = [nxt EXCEPT ![p] = NONE]
  /\ stranded' = stranded \ {p} /\ UNCHANGED astray

\* lf_wakelock() or lf_addblock() comes to a request that was freed.
follow_freed(p) ==
  /\ \/ /\ Blocked(p) /\ FALSE \in Deadlock(p, Blocker(p).own)
        /\ ~Intact(SleepFollows(lock[p]))
     \/ /\ \/ Setting(p) /\ lf_getblock(lock[p]) = {}
           \/ at[p] = "split" /\ Quiet /\ lock[p].type # "UN"
        /\ ~Intact(LinkFollows(lock[p]))
     \/ Running(p) /\ lock[p].type = "UN" /\ ~Intact(SelfOverlaps(lock[p]))
  /\ astray' = TRUE /\ UNCHANGED <<i_lockf, lock, at, nxt, stranded>>

LockfNext == ~astray /\ \E p \in Procs :
  \/ \E a \in PosixCall(p) \cup FlockCall : ufs_advlock(p, a)
  \/ setlock_eagain(p) \/ setlock_edeadlk(p) \/ setlock_sleep(p) \/ setlock_grant(p)
  \/ clearlock(p) \/ split_sleep(p) \/ split_done(p)
  \/ setlock_eintr(p) \/ follow_freed(p)

LockfSpec == LockfInit /\ [][LockfNext]_lockfVars

-----------------------------------------------------------------------------
(* Properties                                                              *)

BytesOf(l) == l.start .. (IF l.end = EOF THEN MaxByte + 1 ELSE l.end)

\* The owner's locks are ordered by where they start and do not overlap, whatever
\* was split, trimmed, taken over and inserted before: lf_findoverlap() stops at the
\* first lock behind the range and the loops of lf_setlock() and lf_clearlock() see
\* each overlap once only because of that.
OwnLocksInOrder == LockfTypeOK /\ \A i, j \in DOMAIN i_lockf :
  (i < j /\ i_lockf[i].own = i_lockf[j].own) =>
    /\ i_lockf[i].end # EOF /\ i_lockf[i].end < i_lockf[j].start
    /\ i_lockf[i].start <= i_lockf[i].end

\* No wakeup is lost: a request that sleeps is on the blocked list of one lock,
\* which exists, belongs to somebody else and really blocks it; whatever makes the
\* lock go away, shrink or become shared wakes the request.  And what is on a
\* blocked list is asleep.  The exception is who came while the malloc() of an
\* unlocking process slept: the requests were woken before it, not after it.  All
\* this up to the moment somebody follows a blocked list through a request that a
\* signal made its owner free: who stands behind it there may sleep for ever.
SleeperIsBlocked == astray \/
  /\ \A p \in Procs : at[p] = "asleep" =>
       \E i \in DOMAIN i_lockf :
         /\ p \in i_lockf[i].blk
         /\ p \in stranded \/ Blocks(i_lockf[i], lock[p])
         /\ \A j \in DOMAIN i_lockf \ {i} : p \notin i_lockf[j].blk
  /\ \A i \in DOMAIN i_lockf : \A p \in i_lockf[i].blk \ {FREED} : at[p] = "asleep"

\* Processes that wait for each other's POSIX locks were refused with EDEADLK: no
\* cycle of waits is closed among as many as the walk can meet, unless it met a
\* pointer to a freed lock.
WaitsFor(p, q) == at[p] = "asleep" /\ lock[p].own = p /\ nxt[p] = q
DeadlockIsFound == \A s \in (SUBSET Procs) \ {{}} :
  IsFiniteSet(s) /\ Cardinality(s) <= MAXDEPTH + 1 => \E p \in s : \A q \in s : ~WaitsFor(p, q)

\* ufs_lockf.c:107 `For byte-range locks we must check for deadlock', without that
\* exception.  Not an invariant: see the README.
BlockerOf(p) == CHOOSE o \in Owners : \E i \in DOMAIN i_lockf : i_lockf[i].own = o /\ p \in i_lockf[i].blk
NoCycle == \A s \in (SUBSET Procs) \ {{}} :
  \E p \in s : at[p] # "asleep" \/ lock[p].own # p \/ BlockerOf(p) \notin s

\* No byte is locked by two owners unless all share it (`No blocks!!  Add the lock.',
\* ufs_lockf.c:166).  The code does not keep it when malloc()
\* sleeps in lf_split().
Exclusive == \A i, j \in DOMAIN i_lockf :
  (i_lockf[i].own # i_lockf[j].own /\ "WR" \in {i_lockf[i].type, i_lockf[j].type}) =>
     BytesOf(i_lockf[i]) \cap BytesOf(i_lockf[j]) = {}

\* The list of locks is, byte by byte, the abstract lock table: every request
\* changes exactly the bytes it names for its owner, is granted against nobody, and
\* a request that fails changes nothing (but for the shared lock that flock()
\* gives up).  The exception is a lock that is added after malloc() slept, which
\* nobody compares with the others again.
Covers(o, b, t) == \E i \in DOMAIN i_lockf :
  i_lockf[i].own = o /\ i_lockf[i].type = t /\ b \in BytesOf(i_lockf[i])
Holds == [o \in Owners |-> [b \in Bytes |->
  IF Covers(o, b, "WR") THEN "WR" ELSE IF Covers(o, b, "RD") THEN "RD" ELSE "NONE"]]
Requested == [p \in Procs |->
  IF lock[p] = NoCall THEN [type |-> "NONE"]
  ELSE [own |-> lock[p].own, type |-> lock[p].type, bytes |-> BytesOf(lock[p])]]
RL == INSTANCE RangeLocks WITH req <- Requested, holds <- Holds
ImplementsRangeLocks ==
  RL!Init /\ [][RL!Next \/ \E p \in Procs : at[p] = "split" /\ RL!Take(p)]_<<Requested, Holds>>
=============================================================================
