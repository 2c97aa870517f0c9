----------------------------- MODULE LockProofs -----------------------------
(***************************************************************************)
(* Proofs about Lock for any finite set of processes and any nesting bound *)
(* that fits the fields of struct lock.                                    *)
(***************************************************************************)
EXTENDS Lock, FiniteSetTheorems, TLAPS

(* Arithmetic of the bit fields: below their limits they count exactly.    *)

\* Incrementing the 16 bit read_count below its limit does not wrap.
LEMMA CountUp ==
  ASSUME NEW n \in Nat, n + 1 < ReadMod
  PROVE  (n + 1) % ReadMod = n + 1
  BY DEF ReadMod

\* Decrementing the 16 bit read_count above zero does not wrap.
LEMMA CountDown ==
  ASSUME NEW n \in Nat, n # 0, n < ReadMod
  PROVE  (n + ReadMod - 1) % ReadMod = n - 1
  BY DEF ReadMod

\* Incrementing the 8 bit recursion_depth below its limit does not wrap.
LEMMA DepthUp ==
  ASSUME NEW n \in Nat, n + 1 < DepthMod
  PROVE  (n + 1) % DepthMod = n + 1
  BY DEF DepthMod

\* Decrementing the 8 bit recursion_depth above zero does not wrap.
LEMMA DepthDown ==
  ASSUME NEW n \in Nat, n # 0, n < DepthMod
  PROVE  (n + DepthMod - 1) % DepthMod = n - 1
  BY DEF DepthMod

\* The bound on nested requests fits both fields.
LEMMA NestFits ==
  /\ ReadMod \in Nat /\ DepthMod \in Nat
  /\ MaxNest \in Nat /\ MaxNest < DepthMod /\ MaxNest < ReadMod
<1>1. Cardinality(Proc) \in Nat
  BY ProcAssumption, FS_CardinalityType
<1> QED
  BY <1>1, NestAssumption DEF ReadMod, DepthMod

\* Any set of readers is finite and fits read_count together with the nested
\* requests; adding and removing a process changes its size by one.
LEMMA ReaderSets ==
  ASSUME NEW S \in SUBSET Proc
  PROVE  /\ Cardinality(S) \in Nat
         /\ Cardinality(S) + MaxNest < ReadMod
         /\ Cardinality(S) = 0 <=> S = {}
         /\ \A t \in Proc \ S : Cardinality(S \cup {t}) = Cardinality(S) + 1
         /\ \A t \in S : Cardinality(S \ {t}) = Cardinality(S) - 1
<1>1. IsFiniteSet(S) /\ Cardinality(S) <= Cardinality(Proc)
  BY ProcAssumption, FS_Subset
<1>2. Cardinality(S) \in Nat /\ Cardinality(Proc) \in Nat
  BY <1>1, ProcAssumption, FS_CardinalityType
<1>3. Cardinality(S) = 0 <=> S = {}
  BY <1>1, FS_EmptySet
<1>4. \A t \in Proc \ S : Cardinality(S \cup {t}) = Cardinality(S) + 1
  BY <1>1, FS_AddElement
<1>5. \A t \in S : Cardinality(S \ {t}) = Cardinality(S) - 1
  BY <1>1, FS_RemoveElement
<1> QED
  BY <1>1, <1>2, <1>3, <1>4, <1>5, NestAssumption DEF ReadMod

-----------------------------------------------------------------------------
\* A lock fresh from lock_init() satisfies the invariant, whatever `waiting'
\* holds.
LEMMA InitInv == Init => LockInv
<1> SUFFICES ASSUME Init PROVE LockInv
  OBVIOUS
<1>1. Cardinality({}) = 0
  BY FS_EmptySet
<1>2. TypeOK
  <2>1. 0 \in 0 .. ReadMod - 1 /\ 0 \in 0 .. DepthMod - 1 /\ 0 \in 0 .. MaxNest
    BY NestFits
  <2>2. pc \in [Proc -> Places]
    BY DEF Init, Places
  <2> QED
    BY <2>1, <2>2, Zenon DEF Init, TypeOK
<1>3. FieldsMatchGrants
  BY <1>1 DEF Init, FieldsMatchGrants
<1>4. PlacesMatchGrants /\ WriteExcludes
  BY ProcAssumption DEF Init, PlacesMatchGrants, WriteExcludes, HoldsWrite, Granted
<1>5. OwnerHolds
  BY ProcAssumption, NestAssumption DEF Init, OwnerHolds
<1> QED
  BY <1>2, <1>3, <1>4, <1>5 DEF LockInv

-----------------------------------------------------------------------------
(* The step: what each operation does to the invariant, one case for each  *)
(* way through the code.                                                   *)

\* A process outside the lock code holds the write lock alone; read_count is
\* zero exactly when there is neither a reader nor a nested read request.
LEMMA Facts ==
  ASSUME LockInv
  PROVE  /\ read_count = 0 <=> readers = {} /\ nested = 0
         /\ read_count + MaxNest < ReadMod + nested
         /\ nested \in Nat /\ recursion_depth \in Nat /\ read_count \in Nat
         /\ recursion_depth <= MaxNest /\ MaxNest < DepthMod
         /\ \A t \in Proc : HoldsWrite(t) /\ thread # t => thread = nothread
<1>1. Cardinality(readers) \in Nat /\ Cardinality(readers) + MaxNest < ReadMod
      /\ (Cardinality(readers) = 0 <=> readers = {})
  BY ReaderSets DEF LockInv, TypeOK
<1>2. nested \in Nat /\ recursion_depth \in Nat /\ read_count \in Nat
  BY DEF LockInv, TypeOK
<1>3. \A t \in Proc : HoldsWrite(t) /\ thread # t => thread = nothread
  BY ProcAssumption
  DEF LockInv, TypeOK, HoldsWrite, Granted, WriteExcludes, OwnerHolds, PlacesMatchGrants
<1> QED
  BY <1>1, <1>2, <1>3, NestFits
  DEF LockInv, FieldsMatchGrants, OwnerHolds

\* A nested request of the recursive owner moves only the two counts.
LEMMA NestedInv ==
  ASSUME LockInv, NEW t \in Proc, thread = t,
         NEW n \in Nat, NEW d \in Nat, n + d <= MaxNest, d # 0 => wowner = t,
         nested' = n, recursion_depth' = d, read_count' = read_count - nested + n,
         UNCHANGED <<want_write, want_upgrade, thread, pc, readers, wowner, uowner,
                     panicked>>,
         waiting' \in BOOLEAN, asleep' \in SUBSET Proc
  PROVE  LockInv'
<1>1. Cardinality(readers) \in Nat /\ Cardinality(readers) + MaxNest < ReadMod
  BY ReaderSets DEF LockInv, TypeOK
<1>2. read_count' = Cardinality(readers) + n
  BY <1>1, Facts DEF LockInv, FieldsMatchGrants
<1>3. FieldsMatchGrants'
  BY <1>2 DEF LockInv, FieldsMatchGrants
<1>4. TypeOK'
  <2>1. n \in 0 .. MaxNest /\ d \in 0 .. DepthMod - 1
    BY NestFits
  <2>2. Cardinality(readers) + n \in 0 .. ReadMod - 1
    BY <1>1, NestFits
  <2> QED
    BY <1>2, <2>1, <2>2 DEF LockInv, TypeOK
<1>5. PlacesMatchGrants' /\ WriteExcludes'
  BY DEF LockInv, PlacesMatchGrants, WriteExcludes, HoldsWrite, Granted
<1>6. OwnerHolds'
  BY ProcAssumption DEF LockInv, OwnerHolds
<1> QED
  BY <1>3, <1>4, <1>5, <1>6 DEF LockInv

\* Going to sleep, or waking up again, at a place whose ownership is settled.
LEMMA SleepInv ==
  ASSUME LockInv, NEW t \in Proc, NEW place \in Places \ {"run"}, SleepAt(t, place),
         UNCHANGED <<fields, grants, panicked>>,
         ~Holds(t), thread # t,
         /\ place = "lckwru" => wowner = t
         /\ place = "lkrdwr" => uowner = t
         /\ place # "lckwru" => wowner # t
         /\ place # "lkrdwr" => uowner # t
  PROVE  LockInv'
<1>1. TypeOK'
  BY DEF LockInv, TypeOK, SleepAt, fields, grants
<1>2. FieldsMatchGrants'
  BY DEF LockInv, FieldsMatchGrants, fields, grants
<1>3. PlacesMatchGrants'
  BY DEF LockInv, TypeOK, PlacesMatchGrants, SleepAt, fields, grants, Holds
<1>4. WriteExcludes'
  BY DEF LockInv, TypeOK, WriteExcludes, HoldsWrite, Granted, SleepAt, fields, grants, Holds
<1>5. OwnerHolds'
  BY DEF LockInv, TypeOK, OwnerHolds, SleepAt, fields, grants
<1> QED
  BY <1>1, <1>2, <1>3, <1>4, <1>5 DEF LockInv

\* One more reader t: read_count follows and stays within its field.
LEMMA MoreReaders ==
  ASSUME LockInv, NEW t \in Proc, t \notin readers, MoreReads, readers' = readers \cup {t},
         nested' = nested
  PROVE  /\ read_count' \in 0 .. ReadMod - 1
         /\ read_count' = Cardinality(readers') + nested'
<1>1. /\ Cardinality(readers) \in Nat
      /\ Cardinality(readers \cup {t}) = Cardinality(readers) + 1
      /\ Cardinality(readers \cup {t}) + MaxNest < ReadMod
  <2>1. readers \in SUBSET Proc /\ readers \cup {t} \in SUBSET Proc
    BY DEF LockInv, TypeOK
  <2> QED
    BY <2>1, ReaderSets
<1>2. /\ read_count \in Nat /\ nested \in Nat /\ nested <= MaxNest
      /\ read_count = Cardinality(readers) + nested
  BY Facts, NestFits DEF LockInv, TypeOK, FieldsMatchGrants
<1>3. read_count + 1 < ReadMod
  BY <1>1, <1>2, NestFits
<1>4. read_count' = read_count + 1
  BY <1>2, <1>3, CountUp DEF MoreReads
<1>5. read_count + 1 \in 0 .. ReadMod - 1
  BY <1>2, <1>3, NestFits
<1>6. read_count + 1 = Cardinality(readers \cup {t}) + nested
  BY <1>1, <1>2
<1> QED
  BY <1>4, <1>5, <1>6

\* A read lock granted while neither a writer nor an upgrade is around.
LEMMA GrantReadInv ==
  ASSUME LockInv, NEW t \in Proc, ~Holds(t), pc[t] \in {"run", "lckrd"}, thread # t,
         ~want_write, ~want_upgrade, MoreReads, readers' = readers \cup {t},
         Return(t), NoSleep,
         UNCHANGED <<recursion_depth, want_write, want_upgrade, thread, wowner, uowner,
                     nested, panicked>>
  PROVE  LockInv'
<1>1. /\ read_count' \in 0 .. ReadMod - 1
      /\ read_count' = Cardinality(readers') + nested'
  BY MoreReaders DEF Holds
<1>2. TypeOK'
  BY <1>1 DEF LockInv, TypeOK, Places, Return, NoSleep
<1>3. FieldsMatchGrants'
  BY <1>1 DEF LockInv, FieldsMatchGrants
<1>4. PlacesMatchGrants' /\ WriteExcludes'
  BY ProcAssumption
  DEF LockInv, TypeOK, PlacesMatchGrants, WriteExcludes, HoldsWrite, Holds, Granted,
      FieldsMatchGrants, Return
<1>5. OwnerHolds'
  BY DEF LockInv, TypeOK, OwnerHolds, Return
<1> QED
  BY <1>2, <1>3, <1>4, <1>5 DEF LockInv

\* lock_read() past its recursion test: a sleep or a grant.
LEMMA AwaitReadInv ==
  ASSUME LockInv, NEW t \in Proc, ~Holds(t), pc[t] \in {"run", "lckrd"}, thread # t,
         AwaitRead(t),
         UNCHANGED <<recursion_depth, want_write, want_upgrade, thread, wowner, uowner,
                     nested, panicked>>
  PROVE  LockInv'
<1>0. wowner # t /\ uowner # t
  BY DEF LockInv, PlacesMatchGrants, Holds, HoldsWrite, Granted
<1>1. CASE want_write \/ want_upgrade
  BY <1>0, <1>1, SleepInv DEF AwaitRead, Places, fields, grants
<1>2. CASE ~want_write /\ ~want_upgrade
  BY <1>2, GrantReadInv DEF AwaitRead
<1> QED
  BY <1>1, <1>2

\* lock_write() with want_write set for t: a sleep or the grant of the lock.
LEMMA AwaitDrainInv ==
  ASSUME LockInv, NEW t \in Proc, wowner = t, pc[t] = "lckwru", AwaitDrain(t),
         UNCHANGED <<fields, grants, panicked>>
  PROVE  LockInv'
<1>0. ~Holds(t) /\ thread # t /\ uowner # t
  BY DEF LockInv, PlacesMatchGrants, OwnerHolds, Holds, HoldsWrite, Granted
<1>1. CASE read_count # 0 \/ want_upgrade
  BY <1>0, <1>1, SleepInv DEF AwaitDrain, Places
<1>2. CASE read_count = 0 /\ ~want_upgrade
  <2>1. /\ pc' = [pc EXCEPT ![t] = "run"] /\ UNCHANGED <<waiting, asleep>>
        /\ readers = {} /\ uowner = nothread
    BY <1>2, Facts DEF AwaitDrain, Return, NoSleep, LockInv, FieldsMatchGrants
  <2>2. TypeOK' /\ FieldsMatchGrants' /\ OwnerHolds'
    BY <2>1 DEF LockInv, TypeOK, FieldsMatchGrants, OwnerHolds, fields, grants, Places
  <2>3. PlacesMatchGrants' /\ WriteExcludes'
    BY <2>1, ProcAssumption
    DEF LockInv, TypeOK, PlacesMatchGrants, WriteExcludes, HoldsWrite, Granted, fields, grants
  <2> QED
    BY <2>2, <2>3 DEF LockInv
<1> QED
  BY <1>1, <1>2 DEF AwaitDrain

\* lock_write() past its recursion test: behind another writer it sleeps;
\* otherwise it takes want_write and sleeps or is granted the lock.
LEMMA AwaitWriteInv ==
  ASSUME LockInv, NEW t \in Proc, ~Holds(t), pc[t] \in {"run", "lckwrw"}, thread # t,
         AwaitWrite(t),
         UNCHANGED <<read_count, recursion_depth, want_upgrade, thread, readers, uowner,
                     nested, panicked>>
  PROVE  LockInv'
<1>0. wowner # t /\ uowner # t /\ t \notin readers
  BY DEF LockInv, PlacesMatchGrants, Holds, HoldsWrite, Granted
<1>1. CASE want_write
  BY <1>0, <1>1, SleepInv DEF AwaitWrite, Places, fields, grants
<1>2. CASE ~want_write
  <2>1. want_write' = TRUE /\ wowner' = t /\ AwaitDrain(t) /\ wowner = nothread
    BY <1>2 DEF AwaitWrite, LockInv, FieldsMatchGrants
  <2>2. FieldsMatchGrants'
    BY <2>1, ProcAssumption DEF LockInv, FieldsMatchGrants
  <2>3. recursion_depth = 0
    BY <2>1 DEF LockInv, OwnerHolds
  <2>4. CASE read_count # 0 \/ want_upgrade
    <3>1. SleepAt(t, "lckwru")
      BY <2>1, <2>4 DEF AwaitDrain
    <3>2. TypeOK' /\ OwnerHolds'
      BY <1>0, <2>1, <2>3, <3>1, ProcAssumption DEF LockInv, TypeOK, OwnerHolds, SleepAt, Places
    <3>3. PlacesMatchGrants' /\ WriteExcludes'
      BY <1>0, <2>1, <3>1, ProcAssumption
      DEF LockInv, TypeOK, PlacesMatchGrants, WriteExcludes, HoldsWrite, Granted, SleepAt
    <3> QED
      BY <2>2, <3>2, <3>3 DEF LockInv
  <2>5. CASE read_count = 0 /\ ~want_upgrade
    <3>1. /\ pc' = [pc EXCEPT ![t] = "run"] /\ UNCHANGED <<waiting, asleep>>
          /\ readers = {} /\ uowner = nothread
      BY <2>1, <2>5, Facts DEF AwaitDrain, Return, NoSleep, LockInv, FieldsMatchGrants
    <3>2. TypeOK' /\ OwnerHolds'
      BY <1>0, <2>1, <2>3, <3>1, ProcAssumption DEF LockInv, TypeOK, OwnerHolds, Places
    <3>3. PlacesMatchGrants' /\ WriteExcludes'
      BY <1>0, <2>1, <3>1, ProcAssumption
      DEF LockInv, TypeOK, PlacesMatchGrants, WriteExcludes, HoldsWrite, Granted
    <3> QED
      BY <2>2, <3>2, <3>3 DEF LockInv
  <2> QED
    BY <2>4, <2>5
<1> QED
  BY <1>1, <1>2

\* Everything but read_count and readers as before, one reader t fewer, with
\* t's read lock given up (or turned into a pending upgrade by the caller).
LEMMA FewerReaders ==
  ASSUME LockInv, NEW t \in readers, FewerReads, readers' = readers \ {t}, nested' = nested
  PROVE  /\ read_count # 0 /\ read_count' = read_count - 1
         /\ read_count' \in 0 .. ReadMod - 1
         /\ read_count' = Cardinality(readers') + nested'
         /\ read_count' = 0 <=> readers' = {} /\ nested' = 0
<1>1. /\ Cardinality(readers) \in Nat /\ Cardinality(readers) # 0
      /\ Cardinality(readers \ {t}) = Cardinality(readers) - 1
      /\ Cardinality(readers \ {t}) = 0 <=> readers \ {t} = {}
  <2>1. readers \in SUBSET Proc /\ readers \ {t} \in SUBSET Proc
    BY DEF LockInv, TypeOK
  <2> QED
    BY <2>1, ReaderSets
<1>2. read_count \in Nat /\ nested \in Nat /\ read_count = Cardinality(readers) + nested
      /\ read_count < ReadMod
  BY Facts, NestFits DEF LockInv, FieldsMatchGrants, TypeOK
<1>3. read_count # 0
  BY <1>1, <1>2
<1>4. read_count' = read_count - 1
  BY <1>2, <1>3, CountDown DEF FewerReads
<1>5. read_count - 1 \in 0 .. ReadMod - 1
  BY <1>2, <1>3, NestFits
<1>6. read_count - 1 = Cardinality(readers \ {t}) + nested
  BY <1>1, <1>2
<1>7. read_count - 1 = 0 <=> readers \ {t} = {} /\ nested = 0
  BY <1>1, <1>2, <1>6
<1> QED
  BY <1>3, <1>4, <1>5, <1>6, <1>7

\* wakeup() keeps the bookkeeping of sleepers in its type.
LEMMA WakeType ==
  ASSUME TypeOK, WakeWaiters
  PROVE  waiting' \in BOOLEAN /\ asleep' \in SUBSET Proc
  BY DEF TypeOK, WakeWaiters

\* A reader that is not the recursive owner leaves: lock_done(), or the
\* upgrade that finds another one under way.
LEMMA ReaderLeavesInv ==
  ASSUME LockInv, NEW t \in readers, thread # t, FewerReads, readers' = readers \ {t},
         WakeWaiters,
         UNCHANGED <<recursion_depth, want_write, want_upgrade, thread, pc, wowner, uowner,
                     nested, panicked>>
  PROVE  LockInv'
<1>1. TypeOK'
  BY FewerReaders, WakeType DEF LockInv, TypeOK
<1>2. FieldsMatchGrants'
  BY FewerReaders DEF LockInv, FieldsMatchGrants
<1>3. PlacesMatchGrants' /\ WriteExcludes'
  BY DEF LockInv, PlacesMatchGrants, WriteExcludes, HoldsWrite, Granted
<1>4. OwnerHolds'
  BY DEF LockInv, OwnerHolds
<1> QED
  BY <1>1, <1>2, <1>3, <1>4 DEF LockInv

\* lock_done() takes back what its caller was granted.
LEMMA DoneInv ==
  ASSUME LockInv, NEW t \in Proc, lock_done(t)
  PROVE  LockInv'
<1>0. /\ ReleaseGrant(t) /\ ReleaseFields /\ WakeWaiters
      /\ UNCHANGED <<thread, pc, panicked>> /\ pc[t] = "run"
      /\ waiting' \in BOOLEAN /\ asleep' \in SUBSET Proc
  BY WakeType DEF lock_done, LockInv, Running
<1>1. CASE IsOwner(t) /\ nested # 0 /\ nested' = nested - 1
           /\ UNCHANGED <<readers, wowner, uowner>>
  <2>1. read_count # 0 /\ read_count \in Nat /\ nested \in Nat /\ read_count < ReadMod
    BY <1>1, Facts, NestFits DEF LockInv, TypeOK
  <2>2. read_count' = read_count - 1 /\ UNCHANGED <<recursion_depth, want_write, want_upgrade>>
    BY <1>0, <2>1, CountDown, NestFits DEF ReleaseFields, FewerReads, LockInv, TypeOK
  <2>3. nested - 1 \in Nat /\ recursion_depth \in Nat /\ nested - 1 + recursion_depth <= MaxNest
        /\ read_count - 1 = read_count - nested + (nested - 1)
    BY <1>1, <2>1, Facts, NestFits DEF LockInv, OwnerHolds
  <2>4. recursion_depth # 0 => wowner = t
    BY <1>1 DEF LockInv, OwnerHolds, IsOwner
  <2> QED
    BY <1>0, <1>1, <2>2, <2>3, <2>4, NestedInv DEF IsOwner
<1>2. CASE IsOwner(t) /\ nested = 0 /\ recursion_depth # 0 /\ UNCHANGED grants
  <2>1. wowner = t /\ HoldsWrite(t) /\ readers = {}
    BY <1>0, <1>2 DEF LockInv, OwnerHolds, IsOwner, HoldsWrite, Granted, WriteExcludes
  <2>2. read_count = 0
    BY <1>2, <2>1, Facts
  <2>3. UNCHANGED <<read_count, want_write, want_upgrade>> /\ recursion_depth' = recursion_depth - 1
    BY <1>0, <1>2, <2>2, Facts, DepthDown, NestFits DEF ReleaseFields, Shallower, LockInv, TypeOK
  <2>4. recursion_depth - 1 \in Nat /\ 0 + (recursion_depth - 1) <= MaxNest
        /\ read_count = read_count - nested + 0
    BY <1>2, Facts, NestFits
  <2> QED
    BY <1>0, <1>2, <2>1, <2>3, <2>4, NestedInv DEF IsOwner, grants
<1>3. CASE ~IsOwner(t) /\ t \in readers /\ readers' = readers \ {t}
           /\ UNCHANGED <<wowner, uowner, nested>>
  <2>1. read_count # 0
    BY <1>3, Facts
  <2> QED
    BY <1>0, <1>3, <2>1, ReaderLeavesInv DEF ReleaseFields, IsOwner
<1>4. CASE ~IsOwner(t) /\ HoldsWrite(t)
  <2>1. thread = nothread /\ readers = {}
    BY <1>4, Facts DEF IsOwner, LockInv, WriteExcludes
  <2>2. nested = 0 /\ recursion_depth = 0 /\ read_count = 0
    BY <2>1, Facts DEF LockInv, OwnerHolds
  <2>3. ClearWriteBit /\ UNCHANGED <<read_count, recursion_depth>>
    BY <1>0, <2>2 DEF ReleaseFields
  <2>4. CASE wowner = t /\ wowner' = nothread /\ UNCHANGED <<readers, uowner, nested>>
    <3>1. uowner = nothread
      BY <1>4, <2>4 DEF LockInv, TypeOK, WriteExcludes
    <3>2. FieldsMatchGrants'
      BY <2>3, <2>4, <3>1 DEF LockInv, FieldsMatchGrants, ClearWriteBit
    <3>3. TypeOK'
      BY <1>0, <2>3, <2>4 DEF LockInv, TypeOK, ClearWriteBit
    <3>4. PlacesMatchGrants' /\ WriteExcludes'
      BY <1>0, <2>1, <2>4, <3>1, ProcAssumption
      DEF LockInv, PlacesMatchGrants, WriteExcludes, HoldsWrite, Granted
    <3>5. OwnerHolds'
      BY <1>0, <2>1, <2>2, <2>3, <2>4, NestFits, ProcAssumption DEF LockInv, OwnerHolds
    <3> QED
      BY <3>2, <3>3, <3>4, <3>5 DEF LockInv
  <2>5. CASE uowner = t /\ uowner' = nothread /\ UNCHANGED <<readers, wowner, nested>>
    <3>1. want_upgrade
      BY <2>5, ProcAssumption DEF LockInv, FieldsMatchGrants
    <3>2. FieldsMatchGrants'
      BY <2>3, <2>5, <3>1 DEF LockInv, TypeOK, FieldsMatchGrants, ClearWriteBit
    <3>3. TypeOK'
      BY <1>0, <2>3, <2>5 DEF LockInv, TypeOK, ClearWriteBit
    <3>4. PlacesMatchGrants' /\ WriteExcludes'
      BY <1>0, <1>4, <2>1, <2>5, ProcAssumption
      DEF LockInv, TypeOK, PlacesMatchGrants, WriteExcludes, HoldsWrite, Granted
    <3>5. OwnerHolds'
      BY <1>0, <2>1, <2>2, <2>3, <2>5, NestFits, ProcAssumption DEF LockInv, OwnerHolds
    <3> QED
      BY <3>2, <3>3, <3>4, <3>5 DEF LockInv
  <2> QED
    BY <1>0, <1>4, <2>1, <2>4, <2>5 DEF ReleaseGrant
<1> QED
  BY <1>0, <1>1, <1>2, <1>3, <1>4 DEF ReleaseGrant

\* An upgrade inside recursive mode trades a nested read for a nested write.
LEMMA NestedUpgradeInv ==
  ASSUME LockInv, NEW t \in Proc, NestedUpgrade(t),
         UNCHANGED <<want_write, thread, wowner, panicked>>
  PROVE  LockInv'
<1>1. /\ read_count \in Nat /\ nested \in Nat /\ read_count # 0 /\ nested # 0
      /\ recursion_depth \in Nat /\ nested + recursion_depth <= MaxNest
      /\ read_count < ReadMod
  BY Facts, NestFits DEF NestedUpgrade, LockInv, TypeOK, OwnerHolds
<1>2. read_count' = read_count - 1
  BY <1>1, CountDown DEF NestedUpgrade, FewerReads
<1>3. recursion_depth + 1 < DepthMod
  BY <1>1, NestFits
<1>4. recursion_depth' = recursion_depth + 1
  BY <1>1, <1>3, DepthUp DEF NestedUpgrade, Deeper
<1>5. /\ nested - 1 \in Nat /\ recursion_depth + 1 \in Nat
      /\ (nested - 1) + (recursion_depth + 1) <= MaxNest
      /\ read_count - 1 = read_count - nested + (nested - 1)
  BY <1>1, NestFits
<1>6. waiting' \in BOOLEAN /\ asleep' \in SUBSET Proc
  BY DEF NestedUpgrade, LockInv, TypeOK
<1> QED
  BY <1>2, <1>4, <1>5, <1>6, NestedInv DEF NestedUpgrade, IsOwner

\* An upgrade with no other one under way takes want_upgrade and sleeps, or
\* has the write lock at once.
LEMMA StartUpgradeInv ==
  ASSUME LockInv, NEW t \in Proc, StartUpgrade(t),
         UNCHANGED <<want_write, thread, wowner, panicked>>
  PROVE  LockInv'
<1>1. /\ t \in readers /\ thread # t /\ FewerReads /\ readers' = readers \ {t}
      /\ nested' = nested /\ recursion_depth' = recursion_depth
      /\ want_upgrade' = TRUE /\ uowner' = t /\ uowner = nothread
      /\ AwaitUpgrade(t, read_count')
  BY DEF StartUpgrade, IsOwner, FewerReads, LockInv, FieldsMatchGrants
<1>2. /\ read_count' \in 0 .. ReadMod - 1
      /\ read_count' = Cardinality(readers') + nested'
      /\ read_count' = 0 <=> readers' = {} /\ nested' = 0
  BY <1>1, FewerReaders
<1>3. FieldsMatchGrants'
  BY <1>1, <1>2, ProcAssumption DEF LockInv, FieldsMatchGrants
<1>4. /\ t # wowner /\ pc[t] = "run"
      /\ \A u \in Proc : ~HoldsWrite(u)
  BY <1>1 DEF LockInv, PlacesMatchGrants, WriteExcludes
<1>5. \E place \in {"lkrdwr", "run"} :
        /\ pc' = [pc EXCEPT ![t] = place]
        /\ waiting' \in BOOLEAN /\ asleep' \in SUBSET Proc
        /\ place = "run" => readers' = {}
  BY <1>1, <1>2 DEF AwaitUpgrade, SleepAt, Return, NoSleep, LockInv, TypeOK
<1>6. PICK place \in {"lkrdwr", "run"} :
        /\ pc' = [pc EXCEPT ![t] = place]
        /\ waiting' \in BOOLEAN /\ asleep' \in SUBSET Proc
        /\ place = "run" => readers' = {}
  BY <1>5
<1>7. TypeOK'
  BY <1>1, <1>2, <1>6 DEF LockInv, TypeOK, Places
<1>8. PlacesMatchGrants'
  BY <1>1, <1>4, <1>6, ProcAssumption DEF LockInv, TypeOK, PlacesMatchGrants
<1>9. WriteExcludes'
  BY <1>1, <1>4, <1>6, ProcAssumption DEF LockInv, TypeOK, WriteExcludes, HoldsWrite, Granted
<1>10. OwnerHolds'
  BY <1>1, <1>6 DEF LockInv, TypeOK, OwnerHolds
<1> QED
  BY <1>3, <1>7, <1>8, <1>9, <1>10 DEF LockInv

\* The upgrade's loop: it sleeps again, or every reader is gone and it has
\* the write lock; a writer that waits for it is still waiting.
LEMMA UpgradeAgainInv ==
  ASSUME LockInv, NEW t \in Proc, pc[t] = "lkrdwr", AwaitUpgrade(t, read_count),
         UNCHANGED <<fields, grants, panicked>>
  PROVE  LockInv'
<1>0. ~Holds(t) /\ thread # t /\ uowner = t /\ wowner # t
  BY DEF LockInv, PlacesMatchGrants, OwnerHolds, Holds, HoldsWrite, Granted
<1>1. CASE read_count # 0
  BY <1>0, <1>1, SleepInv DEF AwaitUpgrade, Places
<1>2. CASE read_count = 0
  <2>1. pc' = [pc EXCEPT ![t] = "run"] /\ UNCHANGED <<waiting, asleep>> /\ readers = {}
    BY <1>2, Facts DEF AwaitUpgrade, Return, NoSleep
  <2>2. TypeOK' /\ FieldsMatchGrants' /\ OwnerHolds'
    BY <2>1 DEF LockInv, TypeOK, FieldsMatchGrants, OwnerHolds, fields, grants, Places
  <2>3. PlacesMatchGrants' /\ WriteExcludes'
    BY <1>0, <2>1, ProcAssumption
    DEF LockInv, TypeOK, PlacesMatchGrants, WriteExcludes, HoldsWrite, Granted, fields, grants
  <2> QED
    BY <2>2, <2>3 DEF LockInv
<1> QED
  BY <1>1, <1>2 DEF AwaitUpgrade

\* A nested read request.
LEMMA NestedReadInv ==
  ASSUME LockInv, NEW t \in Proc, MayNestRead(t), MoreReads, nested' = nested + 1,
         UNCHANGED <<recursion_depth, want_write, want_upgrade, waiting, thread, pc, asleep,
                     readers, wowner, uowner, panicked>>
  PROVE  LockInv'
<1>1. /\ Cardinality(readers) \in Nat /\ Cardinality(readers) + MaxNest < ReadMod
      /\ read_count \in Nat /\ nested \in Nat /\ read_count = Cardinality(readers) + nested
      /\ recursion_depth \in Nat /\ nested + recursion_depth < MaxNest
  BY Facts, ReaderSets DEF LockInv, TypeOK, FieldsMatchGrants, MayNestRead
<1>2. read_count + 1 < ReadMod
  BY <1>1, NestFits
<1>3. read_count' = read_count + 1
  BY <1>1, <1>2, CountUp DEF MoreReads
<1>4. /\ nested + 1 \in Nat /\ (nested + 1) + recursion_depth <= MaxNest
      /\ read_count + 1 = read_count - nested + (nested + 1)
  BY <1>1, NestFits
<1>5. waiting' \in BOOLEAN /\ asleep' \in SUBSET Proc /\ (recursion_depth # 0 => wowner = t)
  BY DEF LockInv, TypeOK, OwnerHolds, MayNestRead, IsOwner
<1> QED
  BY <1>1, <1>3, <1>4, <1>5, NestedInv DEF MayNestRead, IsOwner

\* A nested write request.
LEMMA NestedWriteInv ==
  ASSUME LockInv, NEW t \in Proc, MayNestWrite(t), Deeper,
         UNCHANGED <<read_count, want_write, want_upgrade, waiting, thread, pc, asleep,
                     readers, wowner, uowner, nested, panicked>>
  PROVE  LockInv'
<1>1. /\ nested \in Nat /\ recursion_depth \in Nat /\ nested + recursion_depth < MaxNest
      /\ read_count \in Nat
  BY Facts DEF MayNestWrite, MayNestRead
<1>2. recursion_depth + 1 < DepthMod
  BY <1>1, NestFits
<1>3. recursion_depth' = recursion_depth + 1
  BY <1>1, <1>2, DepthUp DEF Deeper
<1>4. /\ recursion_depth + 1 \in Nat /\ nested + (recursion_depth + 1) <= MaxNest
      /\ read_count = read_count - nested + nested
  BY <1>1, NestFits
<1>5. waiting' \in BOOLEAN /\ asleep' \in SUBSET Proc
  BY DEF LockInv, TypeOK
<1> QED
  BY <1>1, <1>3, <1>4, <1>5, NestedInv DEF MayNestWrite, MayNestRead, IsOwner

\* lock_write_to_read(): a nested write becomes a nested read, or the write
\* lock becomes a read lock.
LEMMA DowngradeInv ==
  ASSUME LockInv, NEW t \in Proc, lock_write_to_read(t)
  PROVE  LockInv'
<1>0. /\ DowngradeGrant(t) /\ MoreReads /\ UNCHANGED <<thread, pc, panicked>> /\ pc[t] = "run"
      /\ waiting' \in BOOLEAN /\ asleep' \in SUBSET Proc
  BY WakeType DEF lock_write_to_read, LockInv, Running
<1>1. CASE IsOwner(t) /\ recursion_depth # 0
  <2>1. /\ nested' = nested + 1 /\ UNCHANGED <<readers, wowner, uowner>>
        /\ Shallower /\ UNCHANGED <<want_write, want_upgrade>>
    BY <1>0, <1>1 DEF lock_write_to_read, DowngradeGrant
  <2>2. /\ Cardinality(readers) \in Nat /\ Cardinality(readers) + MaxNest < ReadMod
        /\ read_count \in Nat /\ nested \in Nat /\ read_count = Cardinality(readers) + nested
        /\ recursion_depth \in Nat /\ nested + recursion_depth <= MaxNest
        /\ recursion_depth < DepthMod /\ wowner = t
    BY <1>1, Facts, ReaderSets, NestFits
    DEF LockInv, TypeOK, FieldsMatchGrants, OwnerHolds, IsOwner
  <2>3. read_count + 1 < ReadMod
    BY <1>1, <2>2, NestFits
  <2>4. read_count' = read_count + 1
    BY <1>0, <2>2, <2>3, CountUp DEF MoreReads
  <2>5. recursion_depth' = recursion_depth - 1
    BY <1>1, <2>1, <2>2, DepthDown DEF Shallower
  <2>6. /\ nested + 1 \in Nat /\ recursion_depth - 1 \in Nat
        /\ (nested + 1) + (recursion_depth - 1) <= MaxNest
        /\ read_count + 1 = read_count - nested + (nested + 1)
    BY <1>1, <2>2, NestFits
  <2> QED
    BY <1>0, <1>1, <2>1, <2>2, <2>4, <2>5, <2>6, NestedInv DEF IsOwner
<1>2. CASE ~(IsOwner(t) /\ recursion_depth # 0)
  <2>1. /\ IsOwner(t) => nested = 0 /\ recursion_depth = 0
        /\ HoldsWrite(t) /\ readers' = readers \cup {t}
        /\ wowner' = IF wowner = t THEN nothread ELSE wowner
        /\ uowner' = IF uowner = t THEN nothread ELSE uowner
        /\ nested' = nested
    BY <1>0, <1>2 DEF DowngradeGrant
  <2>2. /\ readers = {} /\ nested = 0 /\ recursion_depth = 0
        /\ thread \in {t, nothread}
    BY <2>1, Facts DEF LockInv, WriteExcludes, OwnerHolds, IsOwner
  <2>3. ClearWriteBit /\ recursion_depth' = recursion_depth
    BY <2>2 DEF lock_write_to_read
  <2>4. /\ read_count' \in 0 .. ReadMod - 1
        /\ read_count' = Cardinality(readers') + nested'
    BY <1>0, <2>1, <2>2, MoreReaders
  <2>5. (wowner = t /\ uowner = nothread) \/ (uowner = t /\ wowner # t)
    BY <2>1 DEF HoldsWrite, LockInv, TypeOK, WriteExcludes, PlacesMatchGrants
  <2>6. FieldsMatchGrants'
    BY <2>1, <2>3, <2>4, <2>5, ProcAssumption DEF LockInv, TypeOK, FieldsMatchGrants, ClearWriteBit
  <2>7. TypeOK'
    BY <1>0, <2>1, <2>3, <2>4 DEF LockInv, TypeOK, ClearWriteBit
  <2>8. \A u \in Proc : ~HoldsWrite(u)'
    BY <1>0, <2>1, <2>5, ProcAssumption DEF LockInv, TypeOK, HoldsWrite, Granted, WriteExcludes
  <2>9. PlacesMatchGrants'
    BY <1>0, <2>1, <2>2, <2>5, ProcAssumption DEF LockInv, TypeOK, PlacesMatchGrants
  <2>10. WriteExcludes'
    BY <2>8 DEF WriteExcludes
  <2>11. OwnerHolds'
    BY <1>0, <2>1, <2>2, <2>3, NestFits, ProcAssumption DEF OwnerHolds
  <2> QED
    BY <2>6, <2>7, <2>9, <2>10, <2>11 DEF LockInv
<1> QED
  BY <1>1, <1>2

\* The write lock taken by lock_try_write() when nothing stands in its way.
LEMMA GrantWriteInv ==
  ASSUME LockInv, NEW t \in Proc, ~Holds(t), pc[t] = "run", thread # t,
         ~want_write, ~want_upgrade, read_count = 0, want_write' = TRUE, wowner' = t,
         UNCHANGED <<read_count, recursion_depth, want_upgrade, waiting, thread, pc, asleep,
                     readers, uowner, nested, panicked>>
  PROVE  LockInv'
<1>1. pc' = [pc EXCEPT ![t] = "run"]
  BY DEF LockInv, TypeOK
<1>2. AwaitWrite(t)
  BY <1>1 DEF AwaitWrite, AwaitDrain, Return, NoSleep
<1> QED
  BY <1>2, AwaitWriteInv

\* Entering recursive mode with the write lock, without a panic.
LEMMA SetRecursiveInv ==
  ASSUME LockInv, NEW t \in Proc, lock_set_recursive(t)
  PROVE  LockInv' /\ UNCHANGED panicked
<1>1. /\ pc[t] = "run" /\ wowner = t
      /\ UNCHANGED <<read_count, recursion_depth, want_write, want_upgrade, waiting, pc,
                     asleep, readers, wowner, uowner, nested>>
  BY DEF lock_set_recursive, Granted, grants
<1>2. HoldsWrite(t)
  BY <1>1 DEF HoldsWrite, Granted
<1>3. want_write /\ thread \in {t, nothread}
  BY <1>1, <1>2, Facts, ProcAssumption DEF LockInv, FieldsMatchGrants
<1>4. thread' = t /\ panicked' = panicked
  BY <1>3 DEF lock_set_recursive
<1>5. TypeOK' /\ FieldsMatchGrants'
  BY <1>1, <1>4 DEF LockInv, TypeOK, FieldsMatchGrants
<1>6. PlacesMatchGrants' /\ WriteExcludes'
  BY <1>1, <1>4 DEF LockInv, PlacesMatchGrants, WriteExcludes, HoldsWrite, Granted
<1>7. OwnerHolds'
  BY <1>1, <1>3, <1>4, ProcAssumption DEF LockInv, OwnerHolds
<1> QED
  BY <1>4, <1>5, <1>6, <1>7 DEF LockInv

\* Leaving recursive mode with no nested request left.
LEMMA ClearRecursiveInv ==
  ASSUME LockInv, NEW t \in Proc, lock_clear_recursive(t)
  PROVE  LockInv'
<1>1. /\ nested = 0
      /\ thread' = IF recursion_depth = 0 THEN nothread ELSE thread
      /\ UNCHANGED <<read_count, recursion_depth, want_write, want_upgrade, waiting, pc,
                     asleep, readers, wowner, uowner, nested, panicked>>
  BY DEF lock_clear_recursive, grants
<1>2. TypeOK' /\ FieldsMatchGrants'
  BY <1>1 DEF LockInv, TypeOK, FieldsMatchGrants
<1>3. PlacesMatchGrants' /\ WriteExcludes'
  BY <1>1 DEF LockInv, PlacesMatchGrants, WriteExcludes, HoldsWrite, Granted
<1>4. OwnerHolds'
  BY <1>1, ProcAssumption DEF LockInv, OwnerHolds
<1> QED
  BY <1>2, <1>3, <1>4 DEF LockInv

\* Every operation of lock.c preserves the invariant.
LEMMA StepInv == LockInv /\ [Next]_vars => LockInv'
<1> SUFFICES ASSUME LockInv, [Next]_vars PROVE LockInv'
  OBVIOUS
<1>0. CASE UNCHANGED vars
  <2>1. TypeOK' /\ FieldsMatchGrants'
    BY <1>0 DEF vars, fields, grants, LockInv, TypeOK, FieldsMatchGrants
  <2>2. PlacesMatchGrants' /\ WriteExcludes' /\ OwnerHolds'
    BY <1>0 DEF vars, fields, grants, LockInv, PlacesMatchGrants, WriteExcludes, OwnerHolds,
                HoldsWrite, Granted
  <2> QED
    BY <2>1, <2>2 DEF LockInv
<1>1. ASSUME NEW t \in Proc, lock_write(t) PROVE LockInv'
  <2>1. CASE MayNestWrite(t) /\ Deeper /\ UNCHANGED <<want_write, wowner, waiting, pc, asleep>>
    BY <1>1, <2>1, NestedWriteInv DEF lock_write
  <2>2. CASE MayAsk(t) /\ ~IsOwner(t) /\ AwaitWrite(t) /\ UNCHANGED recursion_depth
    BY <1>1, <2>2, AwaitWriteInv DEF lock_write, Running, MayAsk, IsOwner
  <2> QED
    BY <1>1, <2>1, <2>2 DEF lock_write
<1>2. ASSUME NEW t \in Proc, lock_read(t) PROVE LockInv'
  <2>1. CASE MayNestRead(t) /\ MoreReads /\ nested' = nested + 1
             /\ UNCHANGED <<readers, waiting, pc, asleep>>
    BY <1>2, <2>1, NestedReadInv DEF lock_read
  <2>2. CASE MayAsk(t) /\ ~IsOwner(t) /\ AwaitRead(t) /\ UNCHANGED nested
    BY <1>2, <2>2, AwaitReadInv DEF lock_read, Running, MayAsk, IsOwner
  <2> QED
    BY <1>2, <2>1, <2>2 DEF lock_read
<1>3. ASSUME NEW t \in Proc, lock_done(t) PROVE LockInv'
  BY <1>3, DoneInv
<1>4. ASSUME NEW t \in Proc, lock_write_again(t) PROVE LockInv'
  <2>1. ~Holds(t) /\ thread # t /\ pc[t] = "lckwrw"
    BY <1>4 DEF lock_write_again, Woken, LockInv, PlacesMatchGrants, OwnerHolds, Holds,
                HoldsWrite, Granted
  <2> QED
    BY <1>4, <2>1, AwaitWriteInv DEF lock_write_again
<1>5. ASSUME NEW t \in Proc, lock_write_drained(t) PROVE LockInv'
  <2>1. wowner = t /\ pc[t] = "lckwru"
    BY <1>5 DEF lock_write_drained, Woken, LockInv, PlacesMatchGrants
  <2> QED
    BY <1>5, <2>1, AwaitDrainInv DEF lock_write_drained
<1>6. ASSUME NEW t \in Proc, lock_read_again(t) PROVE LockInv'
  <2>1. ~Holds(t) /\ thread # t /\ pc[t] = "lckrd"
    BY <1>6 DEF lock_read_again, Woken, LockInv, PlacesMatchGrants, OwnerHolds, Holds,
                HoldsWrite, Granted
  <2> QED
    BY <1>6, <2>1, AwaitReadInv DEF lock_read_again
<1>7. ASSUME NEW t \in Proc, lock_upgrade_again(t) PROVE LockInv'
  BY <1>7, UpgradeAgainInv DEF lock_upgrade_again, Woken
<1>8. ASSUME NEW t \in Proc, lock_read_to_write(t) PROVE LockInv'
  <2>1. CASE NestedUpgrade(t)
    BY <1>8, <2>1, NestedUpgradeInv DEF lock_read_to_write
  <2>2. CASE StartUpgrade(t)
    BY <1>8, <2>2, StartUpgradeInv DEF lock_read_to_write
  <2>3. CASE LoseUpgrade(t)
    BY <1>8, <2>3, ReaderLeavesInv DEF lock_read_to_write, LoseUpgrade, IsOwner
  <2> QED
    BY <1>8, <2>1, <2>2, <2>3 DEF lock_read_to_write
<1>9. ASSUME NEW t \in Proc, lock_try_read_to_write(t) PROVE LockInv'
  BY <1>9, NestedUpgradeInv, StartUpgradeInv DEF lock_try_read_to_write
<1>10. ASSUME NEW t \in Proc, lock_write_to_read(t) PROVE LockInv'
  BY <1>10, DowngradeInv
<1>11. ASSUME NEW t \in Proc, lock_try_write(t) PROVE LockInv'
  <2>1. CASE MayNestWrite(t) /\ Deeper /\ UNCHANGED <<want_write, wowner>>
    BY <1>11, <2>1, NestedWriteInv DEF lock_try_write
  <2>2. CASE MayAsk(t) /\ ~IsOwner(t) /\ ~want_write /\ ~want_upgrade /\ read_count = 0
             /\ want_write' = TRUE /\ wowner' = t /\ UNCHANGED recursion_depth
    BY <1>11, <2>2, GrantWriteInv DEF lock_try_write, Running, MayAsk, IsOwner
  <2> QED
    BY <1>11, <2>1, <2>2 DEF lock_try_write
<1>12. ASSUME NEW t \in Proc, lock_try_read(t) PROVE LockInv'
  <2>1. CASE MayNestRead(t) /\ nested' = nested + 1 /\ UNCHANGED readers
    BY <1>12, <2>1, NestedReadInv DEF lock_try_read
  <2>2. CASE MayAsk(t) /\ ~IsOwner(t) /\ ~want_write /\ ~want_upgrade
             /\ readers' = readers \cup {t} /\ UNCHANGED nested
    <3>1. Return(t) /\ NoSleep /\ pc[t] = "run"
      BY <1>12 DEF lock_try_read, Running, Return, NoSleep, LockInv, TypeOK
    <3> QED
      BY <1>12, <2>2, <3>1, GrantReadInv DEF lock_try_read, MayAsk, IsOwner
  <2> QED
    BY <1>12, <2>1, <2>2 DEF lock_try_read
<1>13. ASSUME NEW t \in Proc, lock_set_recursive(t) PROVE LockInv'
  BY <1>13, SetRecursiveInv
<1>14. ASSUME NEW t \in Proc, lock_clear_recursive(t) PROVE LockInv'
  BY <1>14, ClearRecursiveInv
<1> QED
  BY <1>0, <1>1, <1>2, <1>3, <1>4, <1>5, <1>6, <1>7, <1>8, <1>9, <1>10, <1>11, <1>12,
     <1>13, <1>14 DEF Next

\* The fields of struct lock always account for the callers' grants, for any
\* number of processes (read_count and recursion_depth never wrap).
THEOREM LockInvariant == Spec => []LockInv
<1>1. LockInv /\ [Next]_vars => LockInv'
  BY StepInv
<1> QED
  BY <1>1, InitInv, PTL DEF Spec

\* A process granted the write lock is alone.
THEOREM MutualExclusion == Spec => []Exclusion
<1>1. LockInv => Exclusion
  BY ProcAssumption
  DEF LockInv, TypeOK, Exclusion, Holds, HoldsWrite, WriteExcludes
<1> QED
  BY <1>1, LockInvariant, PTL

\* No process writes between a reader's decision to upgrade and its success.
THEOREM UpgradeIsAtomic == Spec => []UpgradeKeepsWhatWasRead
<1>1. LockInv => UpgradeKeepsWhatWasRead
  BY ProcAssumption
  DEF LockInv, TypeOK, UpgradeKeepsWhatWasRead, HoldsWrite, Granted, WriteExcludes,
      PlacesMatchGrants
<1> QED
  BY <1>1, LockInvariant, PTL

\* As long as somebody sleeps, the bit that makes lock_done() call wakeup()
\* is set, even though lock_init() leaves it uninitialised.
THEOREM NoSleeperForgotten == Spec => []WaitingCoversSleepers
<1>1. Init => WaitingCoversSleepers
  BY DEF Init, WaitingCoversSleepers
<1>2. WaitingCoversSleepers /\ [Next]_vars => WaitingCoversSleepers'
  <2> SUFFICES ASSUME WaitingCoversSleepers, [Next]_vars PROVE WaitingCoversSleepers'
    OBVIOUS
  <2>1. CASE UNCHANGED <<waiting, asleep>>
    BY <2>1 DEF WaitingCoversSleepers
  <2>2. CASE waiting' = TRUE
    BY <2>2 DEF WaitingCoversSleepers
  <2>3. CASE WakeWaiters
    BY <2>3 DEF WaitingCoversSleepers, WakeWaiters
  <2>4. UNCHANGED <<waiting, asleep>> \/ waiting' = TRUE \/ WakeWaiters
    <3>1. ASSUME NEW t \in Proc, lock_write(t) \/ lock_write_again(t) \/ lock_write_drained(t)
          PROVE  UNCHANGED <<waiting, asleep>> \/ waiting' = TRUE
      BY <3>1 DEF lock_write, lock_write_again, lock_write_drained, AwaitWrite, AwaitDrain,
                  SleepAt, NoSleep
    <3>2. ASSUME NEW t \in Proc, lock_read(t) \/ lock_read_again(t)
          PROVE  UNCHANGED <<waiting, asleep>> \/ waiting' = TRUE
      BY <3>2 DEF lock_read, lock_read_again, AwaitRead, SleepAt, NoSleep
    <3>3. ASSUME NEW t \in Proc,
                 lock_read_to_write(t) \/ lock_try_read_to_write(t) \/ lock_upgrade_again(t)
          PROVE  UNCHANGED <<waiting, asleep>> \/ waiting' = TRUE \/ WakeWaiters
      BY <3>3 DEF lock_read_to_write, lock_try_read_to_write, lock_upgrade_again, AwaitUpgrade,
                  NestedUpgrade, StartUpgrade, LoseUpgrade, SleepAt, NoSleep
    <3>4. ASSUME NEW t \in Proc, lock_done(t) \/ lock_write_to_read(t)
          PROVE  WakeWaiters
      BY <3>4 DEF lock_done, lock_write_to_read
    <3>5. ASSUME NEW t \in Proc, lock_try_write(t) \/ lock_try_read(t)
                                \/ lock_set_recursive(t) \/ lock_clear_recursive(t)
          PROVE  UNCHANGED <<waiting, asleep>>
      BY <3>5 DEF lock_try_write, lock_try_read, lock_set_recursive, lock_clear_recursive
    <3> QED
      BY <3>1, <3>2, <3>3, <3>4, <3>5 DEF Next, vars
  <2> QED
    BY <2>1, <2>2, <2>3, <2>4
<1> QED
  BY <1>1, <1>2, PTL DEF Spec

\* While a writer waits for the lock to drain no reader is let in: whoever joins
\* the readers held the write lock and downgrades it.
THEOREM WritersComeFirst == Spec => WriterNotOvertaken
<1> DEFINE Grown == \A u \in readers' \ readers : HoldsWrite(u)
<1>1. ASSUME LockInv, [Next]_vars, NEW w \in Proc, pc[w] = "lckwru"
      PROVE  Grown
  <2>1. want_write
    BY <1>1, ProcAssumption DEF LockInv, PlacesMatchGrants, FieldsMatchGrants
  <2>2. ASSUME NEW t \in Proc,
               lock_write(t) \/ lock_write_again(t) \/ lock_write_drained(t) \/ lock_try_write(t)
               \/ lock_upgrade_again(t) \/ lock_set_recursive(t) \/ lock_clear_recursive(t)
        PROVE  readers' \subseteq readers
    BY <2>2 DEF lock_write, lock_write_again, lock_write_drained, lock_try_write,
                lock_upgrade_again, lock_set_recursive, lock_clear_recursive, grants
  <2>3. ASSUME NEW t \in Proc, lock_read(t) \/ lock_read_again(t) \/ lock_try_read(t)
        PROVE  readers' \subseteq readers
    BY <2>1, <2>3 DEF lock_read, lock_read_again, lock_try_read, AwaitRead
  <2>4. ASSUME NEW t \in Proc, lock_done(t) PROVE readers' \subseteq readers
    BY <2>4 DEF lock_done, ReleaseGrant, grants
  <2>5. ASSUME NEW t \in Proc, lock_read_to_write(t) \/ lock_try_read_to_write(t)
        PROVE  readers' \subseteq readers
    BY <2>5 DEF lock_read_to_write, lock_try_read_to_write, NestedUpgrade, StartUpgrade,
                LoseUpgrade
  <2>6. ASSUME NEW t \in Proc, lock_write_to_read(t) PROVE Grown
    BY <2>6 DEF lock_write_to_read, DowngradeGrant
  <2>7. CASE UNCHANGED vars
    BY <2>7 DEF vars, grants
  <2> QED
    BY <1>1, <2>2, <2>3, <2>4, <2>5, <2>6, <2>7 DEF Next
<1>2. LockInv /\ [Next]_vars =>
        [(\E t \in Proc : pc[t] = "lckwru" /\ pc'[t] = "lckwru") => Grown]_vars
  BY <1>1
<1> QED
  BY <1>2, LockInvariant, PTL DEF Spec, WriterNotOvertaken

\* lock_set_recursive() called with the lock that lock_write() gave does not
\* panic.
THEOREM NeverPanics == Spec => []NoPanic
<1>1. Init => NoPanic
  BY DEF Init, NoPanic
<1>2. LockInv /\ NoPanic /\ [Next]_vars => NoPanic'
  <2> SUFFICES ASSUME LockInv, NoPanic, [Next]_vars PROVE panicked' = panicked
    BY DEF NoPanic
  <2>1. ASSUME NEW t \in Proc, lock_set_recursive(t) PROVE panicked' = panicked
    BY <2>1, SetRecursiveInv
  <2> QED
    BY <2>1
    DEF Next, vars, lock_write, lock_write_again, lock_write_drained, lock_read,
        lock_read_again, lock_read_to_write, lock_try_read_to_write, lock_upgrade_again,
        lock_done, lock_write_to_read, lock_try_write, lock_try_read, lock_clear_recursive
<1> QED
  BY <1>1, <1>2, LockInvariant, PTL DEF Spec

-----------------------------------------------------------------------------
(* Refinement of RWLock.                                                   *)

\* No process but t changes its place or its grants.
OnlyMoves(t) ==
  \A u \in Proc \ {t} :
    /\ pc'[u] = pc[u]
    /\ u \in readers' <=> u \in readers
    /\ wowner' = u <=> wowner = u
    /\ uowner' = u <=> uowner = u

\* A step that concerns process t alone moves the abstract lock by t's mode.
LEMMA OneMode ==
  ASSUME NEW t \in Proc,
         OnlyMoves(t)
  PROVE  AbsMode' = [AbsMode EXCEPT ![t] = ModeOf(t)']
<1>1. \A u \in Proc \ {t} : ModeOf(u)' = ModeOf(u)
  BY DEF OnlyMoves, ModeOf, HoldsWrite, Granted
<1> QED
  BY <1>1 DEF AbsMode

\* The mode of a process in terms of the grants.
LEMMA Modes ==
  ASSUME LockInv, NEW t \in Proc
  PROVE  /\ ModeOf(t) \in {"none", "read", "write"}
         /\ ModeOf(t) = "write" <=> HoldsWrite(t)
         /\ ModeOf(t) = "read" <=> t \in readers \/ pc[t] = "lkrdwr"
  BY DEF ModeOf, HoldsWrite, Granted, LockInv, PlacesMatchGrants, WriteExcludes

\* The fresh lock is the fresh abstract lock.
LEMMA InitRefines == Init => Abs!Init
  BY ProcAssumption DEF Init, Abs!Init, AbsMode, ModeOf, HoldsWrite, Granted

\* A step that changes neither grants nor the place of a holder is invisible.
LEMMA Invisible ==
  ASSUME NEW t \in Proc, ModeOf(t)' = ModeOf(t),
         OnlyMoves(t)
  PROVE  UNCHANGED AbsMode
<1>1. AbsMode' = [AbsMode EXCEPT ![t] = ModeOf(t)']
  BY OneMode
<1> QED
  BY <1>1 DEF AbsMode

\* The visible steps.
LEMMA VisibleStep ==
  ASSUME LockInv, NEW t \in Proc,
         OnlyMoves(t),
         \/ /\ ModeOf(t) = "none" /\ ModeOf(t)' = "read"
            /\ \A u \in Proc : ModeOf(u) # "write"
         \/ /\ ModeOf(t) = "none" /\ ModeOf(t)' = "write"
            /\ \A u \in Proc : ModeOf(u) = "none"
         \/ /\ ModeOf(t) = "read" /\ ModeOf(t)' = "write"
            /\ \A u \in Proc \ {t} : ModeOf(u) = "none"
         \/ ModeOf(t) = "write" /\ ModeOf(t)' = "read"
         \/ ModeOf(t) # "none" /\ ModeOf(t)' = "none"
  PROVE  Abs!Next
<1>1. AbsMode' = [AbsMode EXCEPT ![t] = ModeOf(t)']
  BY OneMode
<1>2. Abs!GrantRead(t) \/ Abs!GrantWrite(t) \/ Abs!Upgrade(t) \/ Abs!Downgrade(t)
      \/ Abs!Release(t)
  BY <1>1 DEF AbsMode, Abs!GrantRead, Abs!GrantWrite, Abs!Upgrade, Abs!Downgrade, Abs!Release
<1> QED
  BY <1>2 DEF Abs!Next

\* What has to be shown of a step of t: it is a stutter or a step of RWLock.
AbsStep == Abs!Next \/ UNCHANGED AbsMode

\* lock_read(): only the grant is visible.
LEMMA ReadRefines ==
  ASSUME LockInv, LockInv', NEW t \in Proc, AwaitRead(t), ~Holds(t), pc[t] \in {"run", "lckrd"},
         UNCHANGED <<want_write, want_upgrade, wowner, uowner>>
  PROVE  AbsStep
<1>0. ModeOf(t) = "none" /\ wowner # t /\ uowner # t
  BY Modes DEF Holds, HoldsWrite, Granted, LockInv, PlacesMatchGrants
<1>1. CASE SleepAt(t, "lckrd") /\ UNCHANGED readers
  <2>1. OnlyMoves(t)
    BY <1>0, <1>1 DEF SleepAt, LockInv, TypeOK, OnlyMoves
  <2>4. ModeOf(t)' = "none"
    BY <1>0, <1>1 DEF SleepAt, LockInv, TypeOK, ModeOf, HoldsWrite, Granted, Holds
  <2> QED
    BY <1>0, <2>1, <2>4, Invisible DEF AbsStep
<1>2. CASE ~want_write /\ ~want_upgrade /\ readers' = readers \cup {t} /\ Return(t)
  <2>1. OnlyMoves(t)
    BY <1>0, <1>2 DEF Return, LockInv, TypeOK, OnlyMoves
  <2>4. ModeOf(t)' = "read"
    BY <1>0, <1>2 DEF Return, LockInv, TypeOK, ModeOf, HoldsWrite, Granted
  <2>2. \A u \in Proc : ModeOf(u) # "write"
    BY <1>2, Modes, ProcAssumption DEF LockInv, FieldsMatchGrants, HoldsWrite
  <2> QED
    BY <1>0, <2>1, <2>2, <2>4, VisibleStep DEF AbsStep
<1> QED
  BY <1>1, <1>2 DEF AwaitRead

\* lock_write() and lock_try_write(): only the grant is visible, and then
\* nobody else holds the lock.
LEMMA WriteRefines ==
  ASSUME LockInv, LockInv', NEW t \in Proc, AwaitDrain(t), ~Holds(t),
         pc[t] \in {"run", "lckwrw", "lckwru"}, uowner # t, wowner \in {t, nothread},
         wowner' = t, UNCHANGED <<readers, want_upgrade, uowner>>
  PROVE  AbsStep
<1>0. ModeOf(t) = "none" /\ t \notin readers
  BY Modes DEF Holds
<1>1. CASE SleepAt(t, "lckwru")
  <2>1. OnlyMoves(t)
    BY <1>0, <1>1, ProcAssumption DEF SleepAt, LockInv, TypeOK, OnlyMoves
  <2>4. ModeOf(t)' = "none"
    BY <1>0, <1>1, ProcAssumption DEF SleepAt, LockInv, TypeOK, ModeOf, HoldsWrite, Granted
  <2> QED
    BY <1>0, <2>1, <2>4, Invisible DEF AbsStep
<1>2. CASE read_count = 0 /\ ~want_upgrade /\ Return(t)
  <2>1. OnlyMoves(t)
    BY <1>0, <1>2, ProcAssumption DEF Return, LockInv, TypeOK, OnlyMoves
  <2>4. ModeOf(t)' = "write"
    BY <1>0, <1>2, ProcAssumption DEF Return, LockInv, TypeOK, ModeOf, HoldsWrite, Granted
  <2>2. readers = {} /\ uowner = nothread
    BY <1>2, Facts DEF LockInv, FieldsMatchGrants
  <2>3. \A u \in Proc : ModeOf(u) = "none"
    BY <1>0, <2>2, Modes, ProcAssumption DEF LockInv, PlacesMatchGrants, HoldsWrite, ModeOf
  <2> QED
    BY <1>0, <2>1, <2>3, <2>4, VisibleStep DEF AbsStep
<1> QED
  BY <1>1, <1>2 DEF AwaitDrain

\* Both upgrades: waiting is still reading, success is alone, losing the race
\* is a release.
LEMMA UpgradeRefines ==
  ASSUME LockInv, LockInv', NEW t \in Proc, ModeOf(t) = "read", wowner # t,
         NEW others, AwaitUpgrade(t, others), others = 0 => readers' = {},
         readers' = readers \ {t}, uowner' = t, uowner \in {t, nothread}, wowner' = wowner
  PROVE  AbsStep
<1>0. OnlyMoves(t)
  BY ProcAssumption DEF AwaitUpgrade, SleepAt, Return, LockInv, TypeOK, OnlyMoves
<1>1. CASE SleepAt(t, "lkrdwr")
  <2>1. ModeOf(t)' = "read"
    BY <1>1 DEF SleepAt, LockInv, TypeOK, ModeOf, HoldsWrite, Granted
  <2> QED
    BY <1>0, <2>1, Invisible DEF AbsStep
<1>2. CASE others = 0 /\ Return(t)
  <2>1. ModeOf(t)' = "write"
    BY <1>2 DEF Return, LockInv, TypeOK, ModeOf, HoldsWrite, Granted
  <2>2. ASSUME NEW u \in Proc \ {t} PROVE ModeOf(u) = "none"
    <3>1. u \notin readers /\ uowner # u /\ pc[u] # "lkrdwr"
      BY <1>2, ProcAssumption DEF LockInv, PlacesMatchGrants
    <3>2. ~HoldsWrite(u)
      BY <1>2, <2>1, <3>1, Modes, ProcAssumption
      DEF LockInv, PlacesMatchGrants, WriteExcludes, HoldsWrite, Granted, Return, TypeOK
    <3> QED
      BY <3>1, <3>2 DEF ModeOf
  <2> QED
    BY <1>0, <2>1, <2>2, VisibleStep DEF AbsStep
<1> QED
  BY <1>1, <1>2 DEF AwaitUpgrade

\* A step that leaves places and unnested grants alone is invisible.
LEMMA GrantsKept ==
  ASSUME UNCHANGED <<pc, readers, wowner, uowner>>
  PROVE  AbsStep
<1>1. \A u \in Proc : ModeOf(u)' = ModeOf(u)
  BY DEF ModeOf, HoldsWrite, Granted
<1> QED
  BY <1>1 DEF AbsStep, AbsMode

\* Giving up the lock; giving back a nested request is invisible.
LEMMA ReleaseRefines ==
  ASSUME LockInv, LockInv', NEW t \in Proc, lock_done(t)
  PROVE  AbsStep
<1>0. ReleaseGrant(t) /\ pc' = pc /\ pc[t] = "run"
  BY DEF lock_done, Running
<1>1. CASE UNCHANGED <<readers, wowner, uowner>>
  BY <1>0, <1>1, GrantsKept
<1>2. CASE ~IsOwner(t) /\ \/ t \in readers /\ readers' = readers \ {t} /\ UNCHANGED <<wowner, uowner>>
                          \/ HoldsWrite(t) /\ wowner = t /\ wowner' = nothread
                             /\ UNCHANGED <<readers, uowner>>
                          \/ HoldsWrite(t) /\ uowner = t /\ uowner' = nothread
                             /\ UNCHANGED <<readers, wowner>>
  <2>1. OnlyMoves(t)
    BY <1>0, <1>2, ProcAssumption DEF OnlyMoves
  <2>2. ModeOf(t) # "none"
    BY <1>2, Modes
  <2>3. ModeOf(t)' = "none"
    BY <1>0, <1>2, ProcAssumption
    DEF LockInv, PlacesMatchGrants, WriteExcludes, HoldsWrite, Granted, ModeOf
  <2> QED
    BY <2>1, <2>2, <2>3, VisibleStep DEF AbsStep
<1> QED
  BY <1>0, <1>1, <1>2 DEF ReleaseGrant, grants

\* The downgrade of the write lock, or of a nested one, which is invisible.
LEMMA DowngradeRefines ==
  ASSUME LockInv, LockInv', NEW t \in Proc, lock_write_to_read(t)
  PROVE  AbsStep
<1>0. DowngradeGrant(t) /\ pc' = pc /\ pc[t] = "run"
  BY DEF lock_write_to_read, Running
<1>1. CASE UNCHANGED <<readers, wowner, uowner>>
  BY <1>0, <1>1, GrantsKept
<1>2. CASE /\ HoldsWrite(t) /\ readers' = readers \cup {t}
           /\ wowner' = IF wowner = t THEN nothread ELSE wowner
           /\ uowner' = IF uowner = t THEN nothread ELSE uowner
  <2>1. OnlyMoves(t)
    BY <1>0, <1>2, ProcAssumption DEF OnlyMoves
  <2>2. ModeOf(t) = "write"
    BY <1>2, Modes
  <2>3. ModeOf(t)' = "read"
    BY <1>0, <1>2, ProcAssumption DEF ModeOf, HoldsWrite, Granted
  <2> QED
    BY <2>1, <2>2, <2>3, VisibleStep DEF AbsStep
<1> QED
  BY <1>0, <1>1, <1>2 DEF DowngradeGrant

\* Every step of lock.c is a step of the abstract lock or invisible in it.
LEMMA StepRefines == LockInv /\ LockInv' /\ [Next]_vars => AbsStep
<1> SUFFICES ASSUME LockInv, LockInv', [Next]_vars PROVE AbsStep
  OBVIOUS
<1>0. CASE UNCHANGED vars
  BY <1>0, GrantsKept DEF vars, grants
<1>1. ASSUME NEW t \in Proc, lock_write(t) \/ lock_write_again(t) PROVE AbsStep
  <2>1. CASE UNCHANGED <<pc, readers, wowner, uowner>>
    BY <2>1, GrantsKept
  <2>2. CASE AwaitWrite(t) /\ ~Holds(t) /\ pc[t] \in {"run", "lckwrw"}
    <3>1. /\ uowner # t /\ wowner # t /\ ModeOf(t) = "none"
          /\ UNCHANGED <<readers, want_upgrade, uowner>>
      BY <1>1, <2>2, Modes
      DEF LockInv, PlacesMatchGrants, Holds, HoldsWrite, Granted, lock_write, lock_write_again
    <3>2. CASE want_write
      <4>1. SleepAt(t, "lckwrw") /\ wowner' = wowner
        BY <2>2, <3>2 DEF AwaitWrite
      <4>2. OnlyMoves(t)
        BY <3>1, <4>1 DEF SleepAt, OnlyMoves, LockInv, TypeOK
      <4>3. ModeOf(t)' = "none"
        BY <2>2, <3>1, <4>1 DEF SleepAt, LockInv, TypeOK, ModeOf, HoldsWrite, Granted, Holds
      <4> QED
        BY <3>1, <4>2, <4>3, Invisible DEF AbsStep
    <3>3. CASE ~want_write
      BY <2>2, <3>1, <3>3, WriteRefines DEF AwaitWrite, LockInv, FieldsMatchGrants
    <3> QED
      BY <3>2, <3>3
  <2>3. lock_write_again(t) => ~Holds(t) /\ pc[t] = "lckwrw"
    BY DEF lock_write_again, Woken, LockInv, PlacesMatchGrants, Holds, HoldsWrite, Granted
  <2> QED
    BY <1>1, <2>1, <2>2, <2>3 DEF lock_write, lock_write_again, Running, MayAsk
<1>2. ASSUME NEW t \in Proc, lock_write_drained(t) PROVE AbsStep
  <2>1. /\ pc[t] = "lckwru" /\ wowner = t /\ ~Holds(t) /\ uowner # t
        /\ AwaitDrain(t) /\ UNCHANGED <<readers, want_upgrade, uowner, wowner>>
    BY <1>2 DEF lock_write_drained, Woken, LockInv, PlacesMatchGrants, Holds, HoldsWrite,
                Granted, fields, grants
  <2> QED
    BY <2>1, WriteRefines
<1>3. ASSUME NEW t \in Proc, lock_read(t) \/ lock_read_again(t) PROVE AbsStep
  <2>1. CASE UNCHANGED <<pc, readers, wowner, uowner>>
    BY <2>1, GrantsKept
  <2>2. CASE AwaitRead(t) /\ ~Holds(t) /\ pc[t] \in {"run", "lckrd"}
    BY <1>3, <2>2, ReadRefines DEF lock_read, lock_read_again
  <2>3. lock_read_again(t) => ~Holds(t) /\ pc[t] = "lckrd"
    BY DEF lock_read_again, Woken, LockInv, PlacesMatchGrants, Holds, HoldsWrite, Granted
  <2> QED
    BY <1>3, <2>1, <2>2, <2>3 DEF lock_read, lock_read_again, Running, MayAsk
<1>4. ASSUME NEW t \in Proc, lock_read_to_write(t) \/ lock_try_read_to_write(t) PROVE AbsStep
  <2>1. CASE NestedUpgrade(t)
    BY <1>4, <2>1, GrantsKept DEF NestedUpgrade, lock_read_to_write, lock_try_read_to_write
  <2>2. CASE StartUpgrade(t)
    <3>1. /\ t \in readers /\ FewerReads /\ readers' = readers \ {t} /\ nested' = nested
          /\ uowner' = t /\ uowner = nothread /\ wowner' = wowner /\ thread # t
          /\ AwaitUpgrade(t, read_count')
      BY <1>4, <2>2
      DEF StartUpgrade, FewerReads, IsOwner, LockInv, FieldsMatchGrants, lock_read_to_write,
          lock_try_read_to_write
    <3>2. ModeOf(t) = "read" /\ wowner # t
      BY <3>1, Modes DEF LockInv, PlacesMatchGrants
    <3>3. read_count' = 0 => readers' = {}
      BY <3>1, FewerReaders
    <3> QED
      BY <3>1, <3>2, <3>3, UpgradeRefines
  <2>3. CASE LoseUpgrade(t)
    <3>1. /\ t \in readers /\ readers' = readers \ {t} /\ pc' = pc
          /\ uowner' = uowner /\ wowner' = wowner
      BY <1>4, <2>3 DEF LoseUpgrade, lock_read_to_write, lock_try_read_to_write
    <3>2. OnlyMoves(t)
      BY <3>1 DEF OnlyMoves
    <3>3. ModeOf(t) = "read" /\ ModeOf(t)' = "none"
      BY <3>1, Modes DEF ModeOf, HoldsWrite, Granted, LockInv, PlacesMatchGrants
    <3> QED
      BY <3>2, <3>3, VisibleStep DEF AbsStep
  <2> QED
    BY <1>4, <2>1, <2>2, <2>3 DEF lock_read_to_write, lock_try_read_to_write
<1>5. ASSUME NEW t \in Proc, lock_upgrade_again(t) PROVE AbsStep
  <2>1. /\ pc[t] = "lkrdwr" /\ uowner = t /\ wowner # t /\ t \notin readers
        /\ AwaitUpgrade(t, read_count) /\ UNCHANGED <<readers, uowner, wowner>>
    BY <1>5 DEF lock_upgrade_again, Woken, LockInv, PlacesMatchGrants, fields, grants
  <2>2. ModeOf(t) = "read" /\ readers' = readers \ {t}
    BY <2>1, Modes
  <2>3. read_count = 0 => readers' = {}
    BY <2>1, Facts
  <2> QED
    BY <2>1, <2>2, <2>3, UpgradeRefines
<1>6. ASSUME NEW t \in Proc, lock_try_write(t) PROVE AbsStep
  <2>1. CASE UNCHANGED <<pc, readers, wowner, uowner>>
    BY <2>1, GrantsKept
  <2>2. CASE MayAsk(t) /\ ~want_write /\ ~want_upgrade /\ read_count = 0 /\ wowner' = t
    <3>1. Return(t) /\ NoSleep /\ pc[t] = "run" /\ UNCHANGED <<readers, want_upgrade, uowner>>
      BY <1>6 DEF lock_try_write, Running, Return, NoSleep, LockInv, TypeOK
    <3>2. uowner # t /\ wowner = nothread /\ ~Holds(t) /\ AwaitDrain(t)
      BY <2>2, <3>1, ProcAssumption DEF LockInv, FieldsMatchGrants, MayAsk, AwaitDrain
    <3> QED
      BY <2>2, <3>1, <3>2, WriteRefines
  <2> QED
    BY <1>6, <2>1, <2>2 DEF lock_try_write
<1>7. ASSUME NEW t \in Proc, lock_try_read(t) PROVE AbsStep
  <2>1. CASE UNCHANGED <<pc, readers, wowner, uowner>>
    BY <2>1, GrantsKept
  <2>2. CASE MayAsk(t) /\ ~want_write /\ ~want_upgrade /\ readers' = readers \cup {t}
    <3>1. /\ Return(t) /\ NoSleep /\ pc[t] = "run" /\ MoreReads
          /\ UNCHANGED <<want_write, want_upgrade, wowner, uowner>>
      BY <1>7 DEF lock_try_read, Running, Return, NoSleep, LockInv, TypeOK
    <3>2. AwaitRead(t) /\ ~Holds(t)
      BY <2>2, <3>1 DEF AwaitRead, MayAsk
    <3> QED
      BY <3>1, <3>2, ReadRefines
  <2> QED
    BY <1>7, <2>1, <2>2 DEF lock_try_read
<1>8. ASSUME NEW t \in Proc, lock_set_recursive(t) \/ lock_clear_recursive(t) PROVE AbsStep
  BY <1>8, GrantsKept DEF lock_set_recursive, lock_clear_recursive, grants
<1> QED
  BY <1>0, <1>1, <1>2, <1>3, <1>4, <1>5, <1>6, <1>7, <1>8, ReleaseRefines, DowngradeRefines
  DEF Next

\* lock.c implements the readers/writer lock of RWLock, upgrades and recursive
\* mode included.
THEOREM Refinement == Spec => ImplementsRWLock
<1>1. LockInv /\ LockInv' /\ [Next]_vars => [Abs!Next]_AbsMode
  BY StepRefines DEF AbsStep
<1> QED
  BY <1>1, InitRefines, LockInvariant, PTL DEF Spec, ImplementsRWLock, Abs!Spec
=============================================================================
