-------------------------------- MODULE Lock --------------------------------
(***************************************************************************)
(* kern/lock.c: the sleep locks that protect the address space maps.       *)
(*                                                                         *)
(* The kernel runs on one processor and is not preempted, so a lock        *)
(* operation is atomic from its entry, or from the return of tsleep(), to  *)
(* its return or to its next tsleep().  A process that sleeps is at one of *)
(* four places; wakeup() makes every sleeper runnable, and each one then   *)
(* evaluates its loop condition again, in an order nobody controls.        *)
(*                                                                         *)
(* The fields of struct lock are variables of the same name.  The other    *)
(* variables record what the callers were granted: the code itself only    *)
(* knows the counts and bits.                                              *)
(***************************************************************************)
EXTENDS Naturals, FiniteSets

CONSTANTS
  Proc,       \* the processes that use the lock
  nothread,   \* the value of l->thread when the lock is not recursive
  MaxNest     \* bound on the nested requests of the recursive owner

ReadMod  == 65536    \* read_count is a 16 bit field
DepthMod == 256      \* recursion_depth is an 8 bit field

ASSUME ProcAssumption == IsFiniteSet(Proc) /\ nothread \notin Proc
ASSUME NestAssumption ==
  /\ MaxNest \in Nat
  /\ MaxNest < DepthMod
  /\ Cardinality(Proc) + MaxNest < ReadMod

VARIABLES
  read_count, recursion_depth, want_write, want_upgrade, waiting, thread,
  pc,         \* pc[t]: "run", or the sleep of the lock code that t is in
  asleep,     \* the processes sleeping on the lock's address
  readers,    \* processes holding the read lock they asked for unnested
  wowner,     \* the process whose lock_write() set want_write, if any
  uowner,     \* the process whose upgrade set want_upgrade, if any
  nested,     \* read requests the recursive owner was granted on top
  panicked    \* a panic() of lock_set/clear_recursive was reached

fields == <<read_count, recursion_depth, want_write, want_upgrade, thread>>
grants == <<readers, wowner, uowner, nested>>
vars   == <<fields, waiting, pc, asleep, grants, panicked>>

\* "lckwrw": lock_write waits for the other writer; "lckwru": lock_write owns
\* want_write and waits for readers and upgrades; "lckrd": lock_read waits;
\* "lkrdwr": an upgrade waits for the other readers.
Places == {"run", "lckwrw", "lckwru", "lckrd", "lkrdwr"}

Granted(t) == pc[t] = "run"
HoldsWrite(t) == Granted(t) /\ t \in {wowner, uowner}
Holds(t) == HoldsWrite(t) \/ t \in readers

TypeOK ==
  /\ read_count \in 0 .. ReadMod - 1
  /\ recursion_depth \in 0 .. DepthMod - 1
  /\ want_write \in BOOLEAN /\ want_upgrade \in BOOLEAN /\ waiting \in BOOLEAN
  /\ thread \in Proc \cup {nothread}
  /\ pc \in [Proc -> Places]
  /\ asleep \subseteq Proc
  /\ readers \subseteq Proc
  /\ wowner \in Proc \cup {nothread}
  /\ uowner \in Proc \cup {nothread}
  /\ nested \in 0 .. MaxNest
  /\ panicked \in BOOLEAN

\* lock_init() sets every field but `waiting', which keeps whatever value the
\* memory had.
Init ==
  /\ read_count = 0 /\ recursion_depth = 0
  /\ want_write = FALSE /\ want_upgrade = FALSE
  /\ waiting \in BOOLEAN
  /\ thread = nothread
  /\ pc = [t \in Proc |-> "run"]
  /\ asleep = {}
  /\ readers = {} /\ wowner = nothread /\ uowner = nothread /\ nested = 0
  /\ panicked = FALSE

-----------------------------------------------------------------------------
(* The pieces the operations share.                                        *)

\* Definitions named with a suffix, like this one, are mistakes the code does not
\* make: a property is known to mean something when it fails with one of them in
\* place of the definition that follows.  Here `waiting' is not set.
SleepAt_quiet(t, place) ==
  /\ asleep' = asleep \cup {t} /\ pc' = [pc EXCEPT ![t] = place] /\ UNCHANGED waiting

\* l->waiting = TRUE; tsleep(l, PVM, ...): not interruptible, no timeout.
SleepAt(t, place) ==
  /\ waiting' = TRUE
  /\ asleep' = asleep \cup {t}
  /\ pc' = [pc EXCEPT ![t] = place]

\* wakeup() is forgotten.
WakeWaiters_lost == UNCHANGED <<waiting, asleep>>

\* if (l->waiting) { l->waiting = FALSE; wakeup(l); }
WakeWaiters ==
  /\ waiting' = FALSE
  /\ asleep' = IF waiting THEN {} ELSE asleep

Return(t) == pc' = [pc EXCEPT ![t] = "run"]
NoSleep == UNCHANGED <<waiting, asleep>>
Running(t) == pc[t] = "run" /\ t \notin asleep /\ ~panicked
Woken(t, place) == pc[t] = place /\ t \notin asleep /\ ~panicked

\* The recursive owner's request is granted on the spot.
IsOwner(t) == thread = t
MoreReads  == read_count' = (read_count + 1) % ReadMod
FewerReads == read_count' = (read_count + ReadMod - 1) % ReadMod
Deeper     == recursion_depth' = (recursion_depth + 1) % DepthMod
Shallower  == recursion_depth' = (recursion_depth + DepthMod - 1) % DepthMod

\* What callers respect (vm/map.c): a process asks for a lock it does not
\* hold; the recursive owner may nest requests, but nests write requests
\* only while its own lock is the write lock (vmspace_notpageable() creates
\* objects in advance "to prevent the wiring fault(s) from write-locking the
\* map").
MayNestRead(t) == IsOwner(t) /\ nested + recursion_depth < MaxNest
MayNestWrite(t) == MayNestRead(t) /\ wowner = t
MayAsk(t) == ~Holds(t)

-----------------------------------------------------------------------------
(* lock_write()                                                            *)

\* The upgrade under way is not waited for.
AwaitDrain_hasty(t) ==
  \/ read_count # 0 /\ SleepAt(t, "lckwru")
  \/ read_count = 0 /\ Return(t) /\ NoSleep

\* The second loop, entered with want_write already set (want_write' = TRUE).
AwaitDrain(t) ==
  \/ /\ read_count # 0 \/ want_upgrade
     /\ SleepAt(t, "lckwru")
  \/ /\ read_count = 0 /\ ~want_upgrade
     /\ Return(t) /\ NoSleep

\* The first loop and what follows it.
AwaitWrite(t) ==
  \/ /\ want_write
     /\ SleepAt(t, "lckwrw")
     /\ UNCHANGED <<want_write, wowner>>
  \/ /\ ~want_write
     /\ want_write' = TRUE /\ wowner' = t
     /\ AwaitDrain(t)

lock_write(t) ==
  /\ Running(t)
  /\ \/ /\ MayNestWrite(t)
        /\ Deeper
        /\ UNCHANGED <<want_write, wowner, waiting, pc, asleep>>
     \/ /\ MayAsk(t) /\ ~IsOwner(t)
        /\ AwaitWrite(t)
        /\ UNCHANGED recursion_depth
  /\ UNCHANGED <<read_count, want_upgrade, thread, readers, uowner, nested, panicked>>

lock_write_again(t) ==
  /\ Woken(t, "lckwrw")
  /\ AwaitWrite(t)
  /\ UNCHANGED <<read_count, recursion_depth, want_upgrade, thread, readers, uowner,
                 nested, panicked>>

lock_write_drained(t) ==
  /\ Woken(t, "lckwru")
  /\ AwaitDrain(t)
  /\ UNCHANGED <<fields, grants, panicked>>

-----------------------------------------------------------------------------
(* lock_read()                                                             *)

\* A waiting or granted writer is not deferred to.
AwaitRead_eager(t) ==
  \/ want_upgrade /\ SleepAt(t, "lckrd") /\ UNCHANGED <<read_count, readers>>
  \/ ~want_upgrade /\ MoreReads /\ readers' = readers \cup {t} /\ Return(t) /\ NoSleep

AwaitRead(t) ==
  \/ /\ want_write \/ want_upgrade
     /\ SleepAt(t, "lckrd")
     /\ UNCHANGED <<read_count, readers>>
  \/ /\ ~want_write /\ ~want_upgrade
     /\ MoreReads /\ readers' = readers \cup {t}
     /\ Return(t) /\ NoSleep

lock_read(t) ==
  /\ Running(t)
  /\ \/ /\ MayNestRead(t)
        /\ MoreReads /\ nested' = nested + 1
        /\ UNCHANGED <<readers, waiting, pc, asleep>>
     \/ /\ MayAsk(t) /\ ~IsOwner(t)
        /\ AwaitRead(t)
        /\ UNCHANGED nested
  /\ UNCHANGED <<recursion_depth, want_write, want_upgrade, thread, wowner, uowner, panicked>>

lock_read_again(t) ==
  /\ Woken(t, "lckrd")
  /\ AwaitRead(t)
  /\ UNCHANGED <<recursion_depth, want_write, want_upgrade, thread, wowner, uowner,
                 nested, panicked>>

-----------------------------------------------------------------------------
(* lock_done(): the code finds out from the fields what is being released; *)
(* the grants record what the caller t means to release.                   *)

\* The two bits are looked at in the other order.
ClearWriteBit_swapped ==
  /\ want_write' = FALSE
  /\ want_upgrade' = (want_upgrade /\ want_write)

\* The write lock's bit, shared with lock_write_to_read().
ClearWriteBit ==
  /\ want_upgrade' = FALSE
  /\ want_write' = (want_write /\ want_upgrade)

ReleaseFields ==
  \/ /\ read_count # 0
     /\ FewerReads
     /\ UNCHANGED <<recursion_depth, want_write, want_upgrade>>
  \/ /\ read_count = 0 /\ recursion_depth # 0
     /\ Shallower
     /\ UNCHANGED <<read_count, want_write, want_upgrade>>
  \/ /\ read_count = 0 /\ recursion_depth = 0
     /\ ClearWriteBit
     /\ UNCHANGED <<read_count, recursion_depth>>

\* The caller gives back a nested request before its own lock, and leaves
\* recursive mode before it gives back the latter.
ReleaseGrant(t) ==
  \/ /\ IsOwner(t) /\ nested # 0
     /\ nested' = nested - 1
     /\ UNCHANGED <<readers, wowner, uowner>>
  \/ /\ IsOwner(t) /\ nested = 0 /\ recursion_depth # 0
     /\ UNCHANGED grants
  \/ /\ ~IsOwner(t) /\ t \in readers
     /\ readers' = readers \ {t}
     /\ UNCHANGED <<wowner, uowner, nested>>
  \/ /\ ~IsOwner(t) /\ HoldsWrite(t) /\ wowner = t
     /\ wowner' = nothread
     /\ UNCHANGED <<readers, uowner, nested>>
  \/ /\ ~IsOwner(t) /\ HoldsWrite(t) /\ uowner = t
     /\ uowner' = nothread
     /\ UNCHANGED <<readers, wowner, nested>>

lock_done(t) ==
  /\ Running(t)
  /\ ReleaseGrant(t)
  /\ ReleaseFields
  /\ WakeWaiters
  /\ UNCHANGED <<thread, pc, panicked>>

-----------------------------------------------------------------------------
(* Upgrades                                                                *)

\* One reader too many is let by.
AwaitUpgrade_early(t, others) ==
  \/ others > 1 /\ SleepAt(t, "lkrdwr")
  \/ others <= 1 /\ Return(t) /\ NoSleep

\* Both forms of upgrade end in the same loop.
AwaitUpgrade(t, others) ==
  \/ /\ others # 0
     /\ SleepAt(t, "lkrdwr")
  \/ /\ others = 0
     /\ Return(t) /\ NoSleep

\* Inside recursive mode "write lock is implied".
NestedUpgrade(t) ==
  /\ IsOwner(t) /\ wowner = t /\ nested # 0
  /\ FewerReads /\ Deeper /\ nested' = nested - 1
  /\ UNCHANGED <<want_upgrade, waiting, pc, asleep, readers, uowner>>

StartUpgrade(t) ==
  /\ ~IsOwner(t) /\ t \in readers /\ ~want_upgrade
  /\ FewerReads /\ readers' = readers \ {t}
  /\ want_upgrade' = TRUE /\ uowner' = t
  /\ AwaitUpgrade(t, (read_count + ReadMod - 1) % ReadMod)
  /\ UNCHANGED <<recursion_depth, nested>>

\* Another upgrade is under way: the read lock is given up.
LoseUpgrade(t) ==
  /\ ~IsOwner(t) /\ t \in readers /\ want_upgrade
  /\ FewerReads /\ readers' = readers \ {t}
  /\ WakeWaiters
  /\ UNCHANGED <<recursion_depth, want_upgrade, pc, uowner, nested>>

lock_read_to_write(t) ==
  /\ Running(t)
  /\ NestedUpgrade(t) \/ StartUpgrade(t) \/ LoseUpgrade(t)
  /\ UNCHANGED <<want_write, thread, wowner, panicked>>

\* The form that keeps the read lock when another upgrade is under way (it
\* then returns FALSE and changes nothing).
lock_try_read_to_write(t) ==
  /\ Running(t)
  /\ NestedUpgrade(t) \/ StartUpgrade(t)
  /\ UNCHANGED <<want_write, thread, wowner, panicked>>

lock_upgrade_again(t) ==
  /\ Woken(t, "lkrdwr")
  /\ AwaitUpgrade(t, read_count)
  /\ UNCHANGED <<fields, grants, panicked>>

-----------------------------------------------------------------------------
(* lock_write_to_read()                                                    *)

\* The write lock of t: a nested one when recursion_depth # 0.
DowngradeGrant(t) ==
  \/ /\ IsOwner(t) /\ recursion_depth # 0
     /\ nested' = nested + 1
     /\ UNCHANGED <<readers, wowner, uowner>>
  \/ /\ IsOwner(t) => nested = 0 /\ recursion_depth = 0
     /\ HoldsWrite(t)
     /\ readers' = readers \cup {t}
     /\ wowner' = IF wowner = t THEN nothread ELSE wowner
     /\ uowner' = IF uowner = t THEN nothread ELSE uowner
     /\ UNCHANGED nested

lock_write_to_read(t) ==
  /\ Running(t)
  /\ DowngradeGrant(t)
  /\ MoreReads
  /\ \/ /\ recursion_depth # 0
        /\ Shallower
        /\ UNCHANGED <<want_write, want_upgrade>>
     \/ /\ recursion_depth = 0
        /\ ClearWriteBit
        /\ UNCHANGED recursion_depth
  /\ WakeWaiters
  /\ UNCHANGED <<thread, pc, panicked>>

-----------------------------------------------------------------------------
(* The attempts that never sleep; a refused attempt changes nothing.       *)

lock_try_write(t) ==
  /\ Running(t)
  /\ \/ /\ MayNestWrite(t)
        /\ Deeper
        /\ UNCHANGED <<want_write, wowner>>
     \/ /\ MayAsk(t) /\ ~IsOwner(t)
        /\ ~want_write /\ ~want_upgrade /\ read_count = 0
        /\ want_write' = TRUE /\ wowner' = t
        /\ UNCHANGED recursion_depth
  /\ UNCHANGED <<read_count, want_upgrade, waiting, thread, pc, asleep, readers, uowner,
                 nested, panicked>>

lock_try_read(t) ==
  /\ Running(t)
  /\ MoreReads
  /\ \/ /\ MayNestRead(t)
        /\ nested' = nested + 1 /\ UNCHANGED readers
     \/ /\ MayAsk(t) /\ ~IsOwner(t)
        /\ ~want_write /\ ~want_upgrade
        /\ readers' = readers \cup {t} /\ UNCHANGED nested
  /\ UNCHANGED <<recursion_depth, want_write, want_upgrade, waiting, thread, pc, asleep,
                 wowner, uowner, panicked>>

-----------------------------------------------------------------------------
(* Recursive mode.  The callers enter it with the lock lock_write() gave.  *)

lock_set_recursive(t) ==
  /\ Running(t)
  /\ Granted(t) /\ wowner = t
  /\ IF ~want_write \/ thread \notin {t, nothread}
       THEN panicked' = TRUE /\ UNCHANGED thread
       ELSE thread' = t /\ UNCHANGED panicked
  /\ UNCHANGED <<read_count, recursion_depth, want_write, want_upgrade, waiting, pc, asleep,
                 grants>>

\* Callers pair it with lock_set_recursive(), all nested requests given back
\* (the panic on another thread is not theirs to reach).
lock_clear_recursive(t) ==
  /\ Running(t)
  /\ IsOwner(t) /\ nested = 0
  /\ thread' = IF recursion_depth = 0 THEN nothread ELSE thread
  /\ UNCHANGED <<read_count, recursion_depth, want_write, want_upgrade, waiting, pc, asleep,
                 grants, panicked>>

-----------------------------------------------------------------------------
Resume(t) == \/ lock_write_again(t) \/ lock_write_drained(t)
             \/ lock_read_again(t) \/ lock_upgrade_again(t)

Next == \E t \in Proc :
          \/ lock_write(t) \/ lock_read(t) \/ lock_done(t)
          \/ lock_write_again(t) \/ lock_write_drained(t)
          \/ lock_read_again(t) \/ lock_upgrade_again(t)
          \/ lock_read_to_write(t) \/ lock_try_read_to_write(t)
          \/ lock_write_to_read(t)
          \/ lock_try_write(t) \/ lock_try_read(t)
          \/ lock_set_recursive(t) \/ lock_clear_recursive(t)

Spec == Init /\ [][Next]_vars

\* A process made runnable by wakeup() is eventually run.  A caller of the
\* lock makes a bounded number of calls and then leaves: the loops inside
\* recursive mode run over the entries of a map region, and vm_map_lookup()
\* upgrades at most twice.  A caller may go through other calls first, so
\* its departure is enabled again and again rather than continuously, and a
\* nested request is given back at whatever depth it was made.
Leave(t) == ~IsOwner(t) /\ lock_done(t)
Unnest(t, n) == IsOwner(t) /\ nested + recursion_depth = n /\ lock_done(t)
Fairness == \A t \in Proc : /\ WF_vars(Resume(t))
                            /\ SF_vars(Leave(t))
                            /\ SF_vars(lock_clear_recursive(t))
                            /\ \A n \in 1 .. MaxNest : SF_vars(Unnest(t, n))

FairSpec == Spec /\ Fairness

-----------------------------------------------------------------------------
(* Properties                                                              *)

\* A process granted the write lock, by lock_write(), by an upgrade or by an
\* attempt, is alone: no other process holds the lock in any mode.
Exclusion ==
  \A t, u \in Proc : HoldsWrite(t) /\ Holds(u) => t = u

\* While an upgrade waits for the other readers no process holds the write
\* lock, although the upgrader has given up its read count: what it read
\* under the read lock is still true when the upgrade succeeds
\* (vm_map_lookup() keeps its map entry across lock_read_to_write()).
UpgradeKeepsWhatWasRead ==
  \A t, u \in Proc : pc[t] = "lkrdwr" => ~HoldsWrite(u)

\* The bits and counts of struct lock describe the callers' grants exactly:
\* lock_done(), which guesses what is released from the fields, never takes
\* back somebody else's lock.
FieldsMatchGrants ==
  /\ read_count = Cardinality(readers) + nested
  /\ want_write <=> wowner # nothread
  /\ want_upgrade <=> uowner # nothread

\* Where a process is in the code decides what it owns, and conversely.
PlacesMatchGrants ==
  \A t \in Proc :
    /\ pc[t] = "lckwru" => wowner = t
    /\ pc[t] = "lkrdwr" => uowner = t
    /\ t \in readers => pc[t] = "run" /\ t \notin {wowner, uowner}
    /\ wowner = t => pc[t] \in {"run", "lckwru"} /\ uowner # t
    /\ uowner = t => pc[t] \in {"run", "lkrdwr"}

\* A granted write lock leaves room for no reader, and want_write and
\* want_upgrade are both set only while lock_write() still waits.
WriteExcludes ==
  /\ \A t \in Proc : HoldsWrite(t) => readers = {}
  /\ \A t, u \in Proc : wowner = t /\ uowner = u => ~HoldsWrite(t)

\* The process the lock is bound to holds it, and only it has nested requests.
OwnerHolds ==
  /\ \A t \in Proc : thread = t => pc[t] = "run" /\ (wowner = t \/ t \in readers)
  /\ thread = nothread => nested = 0 /\ recursion_depth = 0
  /\ recursion_depth # 0 => wowner = thread
  /\ nested + recursion_depth <= MaxNest

\* The inductive invariant behind Exclusion: every bit, count and sleeping
\* place of lock.c is accounted for by a grant.
LockInv == /\ TypeOK /\ FieldsMatchGrants /\ PlacesMatchGrants
           /\ WriteExcludes /\ OwnerHolds

\* No sleeper is forgotten: as long as a process sleeps on the lock the bit
\* that makes lock_done() call wakeup() is set.
WaitingCoversSleepers == asleep # {} => waiting

\* lock_set_recursive() called with the write lock never panics.
NoPanic == ~panicked

\* A writer that waits for the lock to drain is not overtaken: until it has
\* the lock the set of readers grows only by a process that downgrades.
WriterNotOvertaken ==
  [][ (\E t \in Proc : pc[t] = "lckwru" /\ pc'[t] = "lckwru") =>
        \A u \in readers' \ readers : HoldsWrite(u) ]_vars

\* "Recursive mode on locks bind the lock to the thread ..., blocking all
\* other threads unconditionally" (the notes at the head of lock.c).
RecursiveBlocksOthers ==
  \A u \in Proc : thread # nothread /\ Holds(u) => u = thread

\* The lock is the readers/writer lock of RWLock; a process whose upgrade
\* waits still counts as a reader.
ModeOf(t) == CASE HoldsWrite(t) -> "write"
               [] t \in readers \/ pc[t] = "lkrdwr" -> "read"
               [] OTHER -> "none"

AbsMode == [t \in Proc |-> ModeOf(t)]

Abs == INSTANCE RWLock WITH mode <- AbsMode
ImplementsRWLock == Abs!Spec

\* lock_write() that waits for readers and upgrades to drain gets the lock, and so
\* does an upgrade that was started: a second one gives way, and wakes it.
WaitersServed == \A t \in Proc :
  /\ pc[t] = "lckwru" ~> HoldsWrite(t)
  /\ pc[t] = "lkrdwr" ~> HoldsWrite(t)
=============================================================================
