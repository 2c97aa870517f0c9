---------------------------- MODULE CalloutProofs ----------------------------
(***************************************************************************)
(* The callout queue for any functions, any size of the table and any      *)
(* bounds: its relative times denote the times asked for, softclock()      *)
(* takes the entries in their order, and what a process cancelled is not   *)
(* called.                                                                 *)
(*                                                                         *)
(* The argument is local: QueueInv relates an entry to the one before it   *)
(* and says that the queue is in the order of the times asked for.  That   *)
(* the sum over all entries before it (Elapsed) is then the time of an     *)
(* entry is a lemma, by induction along the queue.                         *)
(***************************************************************************)
EXTENDS Callout, SequenceTheorems, FiniteSetTheorems, WellFoundedInduction, TLAPS

\* The time that the entries before entry i account for, seen from entry i.
Before(q, i) == IF i > 1 /\ q[i].left > 0 /\ q[i - 1].left > 0 THEN q[i - 1].left ELSE 0

\* A due entry carries its lateness, any other the time from the one before it.
Exact(q) == \A i \in 1 .. Len(q) : q[i].c_time = q[i].left - Before(q, i)

\* The queue is in the order of the times asked for.
Ordered(q) == \A i, j \in 1 .. Len(q) : i < j => q[i].left <= q[j].left

QueueInv == Exact(calltodo) /\ Ordered(calltodo)

\* What is taken off the queue is called by softclock(), and what a process cancelled
\* is neither taken nor in the queue.
CancelInv ==
  /\ firing # {} => running
  /\ firing \cap revoked = {}
  /\ \A i \in 1 .. Len(calltodo) : calltodo[i].func \notin revoked

CalloutInv == TypeOK /\ QueueInv /\ CancelInv
-----------------------------------------------------------------------------
(* Numbers and sequences.                                                  *)

\* A set of numbers that is not empty has a least one.
LEMMA Least ==
  ASSUME NEW T \in SUBSET Nat, T # {}
  PROVE  \E i \in T : \A j \in T : i <= j
<1> DEFINE R == OpToRel(<, Nat)
<1>1. IsWellFoundedOn(R, Nat)
  BY NatLessThanWellFounded
<1>2. \A x, y \in Nat : <<y, x>> \in R <=> y < x
  BY DEF OpToRel
<1> HIDE DEF R
<1>3. PICK i \in T : \A j \in T : ~(<<j, i>> \in R)
  BY <1>1, WFMin
<1>4. \A j \in T : i <= j
  <2> TAKE j \in T
  <2>1. ~(j < i)
    BY <1>2, <1>3
  <2> QED
    BY <2>1
<1> QED
  BY <1>4

\* A sequence with an entry inserted at k.
LEMMA InsertAtFacts ==
  ASSUME NEW q \in Seq(Entry), NEW k \in 1 .. Len(q) + 1, NEW e \in Entry
  PROVE  /\ InsertAt(q, k, e) \in Seq(Entry)
         /\ Len(InsertAt(q, k, e)) = Len(q) + 1
         /\ \A i \in 1 .. Len(q) + 1 :
              InsertAt(q, k, e)[i] = IF i < k THEN q[i] ELSE IF i = k THEN e ELSE q[i - 1]
<1> DEFINE a == SubSeq(q, 1, k - 1)
           b == SubSeq(q, k, Len(q))
<1>1. Len(q) \in Nat /\ \A i \in 1 .. Len(q) : q[i] \in Entry
  BY LenProperties, ElementOfSeq
<1>2. /\ a \in Seq(Entry) /\ Len(a) = k - 1
      /\ \A i \in 1 .. k - 1 : a[i] = q[i]
  <2>1. \A i \in 1 .. k - 1 : q[i] \in Entry
    BY <1>1
  <2>2. /\ SubSeq(q, 1, k - 1) \in Seq(Entry)
        /\ Len(SubSeq(q, 1, k - 1)) = IF 1 <= k - 1 THEN k - 1 - 1 + 1 ELSE 0
        /\ \A i \in 1 .. k - 1 - 1 + 1 : SubSeq(q, 1, k - 1)[i] = q[1 + i - 1]
    BY <1>1, <2>1, SubSeqProperties
  <2> QED
    BY <1>1, <2>2
<1>3. /\ b \in Seq(Entry) /\ Len(b) = Len(q) - k + 1
      /\ \A i \in 1 .. Len(q) - k + 1 : b[i] = q[k + i - 1]
  <2>1. \A i \in k .. Len(q) : q[i] \in Entry
    BY <1>1
  <2>2. /\ SubSeq(q, k, Len(q)) \in Seq(Entry)
        /\ Len(SubSeq(q, k, Len(q))) = IF k <= Len(q) THEN Len(q) - k + 1 ELSE 0
        /\ \A i \in 1 .. Len(q) - k + 1 : SubSeq(q, k, Len(q))[i] = q[k + i - 1]
    BY <1>1, <2>1, SubSeqProperties
  <2> QED
    BY <1>1, <2>2
<1> DEFINE c == a \o <<e>>
<1>4. /\ c \in Seq(Entry) /\ Len(c) = k
      /\ \A i \in 1 .. k : c[i] = IF i < k THEN q[i] ELSE e
  <2>1. <<e>> \in Seq(Entry) /\ Len(<<e>>) = 1 /\ <<e>>[1] = e
    OBVIOUS
  <2> HIDE DEF a
  <2>2. /\ a \o <<e>> \in Seq(Entry) /\ Len(a \o <<e>>) = Len(a) + Len(<<e>>)
        /\ \A i \in 1 .. Len(a) + Len(<<e>>) :
             (a \o <<e>>)[i] = IF i <= Len(a) THEN a[i] ELSE <<e>>[i - Len(a)]
    BY <1>2, <2>1, ConcatProperties
  <2>3. ASSUME NEW i \in 1 .. k PROVE c[i] = IF i < k THEN q[i] ELSE e
    <3>1. CASE i < k
      BY <1>1, <1>2, <2>1, <2>2, <3>1
    <3>2. CASE i = k
      BY <1>1, <1>2, <2>1, <2>2, <3>2
    <3>3. i < k \/ i = k
      BY <1>1
    <3> QED
      BY <3>1, <3>2, <3>3
  <2> QED
    BY <1>1, <1>2, <2>1, <2>2, <2>3
<1>5. InsertAt(q, k, e) = c \o b
  BY DEF InsertAt
<1> HIDE DEF a, b, c
<1>6. /\ c \o b \in Seq(Entry) /\ Len(c \o b) = Len(c) + Len(b)
      /\ \A i \in 1 .. Len(c) + Len(b) :
            (c \o b)[i] = IF i <= Len(c) THEN c[i] ELSE b[i - Len(c)]
  BY <1>3, <1>4, ConcatProperties
<1>7. Len(c) + Len(b) = Len(q) + 1
  BY <1>1, <1>3, <1>4
<1>8. ASSUME NEW i \in 1 .. Len(q) + 1
      PROVE  (c \o b)[i] = IF i < k THEN q[i] ELSE IF i = k THEN e ELSE q[i - 1]
  <2>1. CASE i <= k
    BY <1>1, <1>4, <1>6, <1>7, <2>1
  <2>2. CASE i > k
    <3>1. i - k \in 1 .. Len(q) - k + 1 /\ k + (i - k) - 1 = i - 1
      BY <1>1, <2>2
    <3>2. b[i - k] = q[i - 1]
      BY <1>3, <3>1
    <3> QED
      BY <1>1, <1>4, <1>6, <1>7, <2>2, <3>2
  <2>3. i <= k \/ i > k
    BY <1>1
  <2> QED
    BY <2>1, <2>2, <2>3
<1> QED
  BY <1>5, <1>6, <1>7, <1>8

\* A sequence without its entry k.
LEMMA RemoveAtFacts ==
  ASSUME NEW q \in Seq(Entry), NEW k \in 1 .. Len(q)
  PROVE  /\ RemoveAt(q, k) \in Seq(Entry)
         /\ Len(RemoveAt(q, k)) = Len(q) - 1
         /\ \A i \in 1 .. Len(q) - 1 : RemoveAt(q, k)[i] = IF i < k THEN q[i] ELSE q[i + 1]
<1> DEFINE a == SubSeq(q, 1, k - 1)
           b == SubSeq(q, k + 1, Len(q))
<1>1. Len(q) \in Nat /\ \A i \in 1 .. Len(q) : q[i] \in Entry
  BY LenProperties, ElementOfSeq
<1>2. /\ a \in Seq(Entry) /\ Len(a) = k - 1
      /\ \A i \in 1 .. k - 1 : a[i] = q[i]
  <2>1. \A i \in 1 .. k - 1 : q[i] \in Entry
    BY <1>1
  <2>2. /\ SubSeq(q, 1, k - 1) \in Seq(Entry)
        /\ Len(SubSeq(q, 1, k - 1)) = IF 1 <= k - 1 THEN k - 1 - 1 + 1 ELSE 0
        /\ \A i \in 1 .. k - 1 - 1 + 1 : SubSeq(q, 1, k - 1)[i] = q[1 + i - 1]
    BY <1>1, <2>1, SubSeqProperties
  <2> QED
    BY <1>1, <2>2
<1>3. /\ b \in Seq(Entry) /\ Len(b) = Len(q) - k
      /\ \A i \in 1 .. Len(q) - k : b[i] = q[k + i]
  <2>1. \A i \in k + 1 .. Len(q) : q[i] \in Entry
    BY <1>1
  <2>2. /\ SubSeq(q, k + 1, Len(q)) \in Seq(Entry)
        /\ Len(SubSeq(q, k + 1, Len(q))) = IF k + 1 <= Len(q) THEN Len(q) - (k + 1) + 1 ELSE 0
        /\ \A i \in 1 .. Len(q) - (k + 1) + 1 : SubSeq(q, k + 1, Len(q))[i] = q[k + 1 + i - 1]
    BY <1>1, <2>1, SubSeqProperties
  <2> QED
    BY <1>1, <2>2
<1>4. RemoveAt(q, k) = a \o b
  BY DEF RemoveAt
<1> HIDE DEF a, b
<1>5. /\ a \o b \in Seq(Entry) /\ Len(a \o b) = Len(a) + Len(b)
      /\ \A i \in 1 .. Len(a) + Len(b) :
            (a \o b)[i] = IF i <= Len(a) THEN a[i] ELSE b[i - Len(a)]
  BY <1>2, <1>3, ConcatProperties
<1>6. Len(a) + Len(b) = Len(q) - 1
  BY <1>1, <1>2, <1>3
<1>7. ASSUME NEW i \in 1 .. Len(q) - 1
      PROVE  (a \o b)[i] = IF i < k THEN q[i] ELSE q[i + 1]
  <2>1. CASE i < k
    BY <1>1, <1>2, <1>5, <1>6, <2>1
  <2>2. CASE i >= k
    <3>1. i - (k - 1) \in 1 .. Len(q) - k /\ k + (i - (k - 1)) = i + 1
      BY <1>1, <2>2
    <3>2. b[i - (k - 1)] = q[i + 1]
      BY <1>3, <3>1
    <3> QED
      BY <1>1, <1>2, <1>5, <1>6, <2>2, <3>2
  <2>3. i < k \/ i >= k
    BY <1>1
  <2> QED
    BY <2>1, <2>2, <2>3
<1> QED
  BY <1>4, <1>5, <1>6, <1>7
-----------------------------------------------------------------------------
(* What the relative times mean.                                           *)

\* The entries of the queue have integer times.
LEMMA QueueType ==
  ASSUME TypeOK
  PROVE  /\ Len(calltodo) \in Nat /\ DOMAIN calltodo = 1 .. Len(calltodo)
         /\ \A i \in 1 .. Len(calltodo) :
              /\ calltodo[i] \in Entry
              /\ calltodo[i].left \in Int /\ calltodo[i].c_time \in Int
              /\ calltodo[i].func \in Func
<1>1. calltodo \in Seq(Entry)
  BY DEF TypeOK
<1>2. \A i \in 1 .. Len(calltodo) : calltodo[i] \in Entry
  BY <1>1, ElementOfSeq
<1> QED
  BY <1>1, <1>2, LenProperties DEF Entry

\* The first m entries all look due exactly when entry m is.
LEMMA DueUpTo ==
  ASSUME TypeOK, QueueInv, NEW m \in 1 .. Len(calltodo)
  PROVE  (\A j \in 1 .. m : calltodo[j].c_time <= 0) <=> calltodo[m].left <= 0
<1>1. \A i \in 1 .. Len(calltodo) : calltodo[i].left \in Int /\ calltodo[i].c_time \in Int
  BY QueueType
<1>0. Len(calltodo) \in Nat
  BY QueueType
<1>2. ASSUME calltodo[m].left <= 0, NEW j \in 1 .. m PROVE calltodo[j].c_time <= 0
  <2>1. j \in 1 .. Len(calltodo) /\ calltodo[j].left <= calltodo[m].left
    BY <1>0, <1>1 DEF QueueInv, Ordered
  <2>2. ~(calltodo[j].left > 0)
    BY <1>1, <1>2, <2>1
  <2>3. calltodo[j].c_time = calltodo[j].left - 0
    BY <2>1, <2>2 DEF QueueInv, Exact, Before
  <2> QED
    BY <1>1, <2>1, <2>2, <2>3
<1>3. ASSUME ~(calltodo[m].left <= 0) PROVE \E j \in 1 .. m : ~(calltodo[j].c_time <= 0)
  <2> DEFINE T == {i \in 1 .. m : calltodo[i].left > 0}
  <2>1. T \in SUBSET Nat /\ m \in T
    BY <1>0, <1>1, <1>3
  <2>2. PICK j \in T : \A i \in T : j <= i
    BY <2>1, Least
  <2>3. j \in 1 .. m /\ j \in 1 .. Len(calltodo) /\ calltodo[j].left > 0
    BY <1>0, <2>2
  <2>4. j > 1 => ~(calltodo[j - 1].left > 0)
    <3> SUFFICES ASSUME j > 1, calltodo[j - 1].left > 0 PROVE FALSE
      OBVIOUS
    <3>1. j - 1 \in T
      BY <2>3
    <3>2. j <= j - 1
      BY <2>2, <3>1
    <3> QED
      BY <2>3, <3>2
  <2>5. calltodo[j].c_time = calltodo[j].left - 0
    BY <2>3, <2>4 DEF QueueInv, Exact, Before
  <2> QED
    BY <1>1, <2>3, <2>5
<1> QED
  BY <1>2, <1>3

\* The entries in front that look due are the ones whose time has come.
LEMMA DueIsLate ==
  ASSUME TypeOK, QueueInv, NEW i \in 1 .. Len(calltodo)
  PROVE  i \in DuePrefix <=> calltodo[i].left <= 0
BY DueUpTo, QueueType DEF DuePrefix

\* hardclock() visits the due entries and the one behind them.
LEMMA VisitedAre ==
  ASSUME TypeOK, QueueInv, NEW i \in 1 .. Len(calltodo)
  PROVE  i \in Visited <=> i = 1 \/ calltodo[i - 1].left <= 0
<1>1. Len(calltodo) \in Nat /\ DOMAIN calltodo = 1 .. Len(calltodo)
  BY QueueType
<1>2. CASE i = 1
  BY <1>1, <1>2 DEF Visited
<1>3. CASE i # 1
  <2>1. i - 1 \in 1 .. Len(calltodo)
    BY <1>1, <1>3
  <2> QED
    BY <1>1, <1>3, <2>1, DueUpTo DEF Visited
<1> QED
  BY <1>2, <1>3

\* The time accounted for by the first entries is what is left of the last of them.
Upto(i) == IF i > 0 /\ calltodo[i].left > 0 THEN calltodo[i].left ELSE 0

LEMMA ElapsedIs ==
  ASSUME TypeOK, QueueInv, NEW n \in 0 .. Len(calltodo)
  PROVE  Elapsed[n] = Upto(n)
<1> DEFINE Dom == 0 .. Len(calltodo)
           Weight(i) == IF calltodo[i].c_time > 0 THEN calltodo[i].c_time ELSE 0
           Sums(e) == e = [i \in Dom |-> IF i = 0 THEN 0 ELSE e[i - 1] + Weight(i)]
           f == [i \in Dom |-> Upto(i)]
<1>1. /\ Len(calltodo) \in Nat
      /\ \A i \in 1 .. Len(calltodo) : calltodo[i].left \in Int /\ calltodo[i].c_time \in Int
  BY QueueType
<1>2. ASSUME NEW i \in 1 .. Len(calltodo) PROVE Upto(i) = Upto(i - 1) + Weight(i)
  <2>1. CASE calltodo[i].left <= 0
    <3>1. calltodo[i].c_time <= 0
      BY <1>1, <2>1, DueUpTo
    <3>2. i > 1 => calltodo[i - 1].left <= 0
      <4> SUFFICES ASSUME i > 1 PROVE calltodo[i - 1].left <= 0
        OBVIOUS
      <4>1. i - 1 \in 1 .. Len(calltodo) /\ i - 1 < i
        BY <1>1
      <4>2. calltodo[i - 1].left <= calltodo[i].left
        BY <4>1 DEF QueueInv, Ordered
      <4> QED
        BY <1>1, <2>1, <4>1, <4>2
    <3>3. i - 1 > 0 => i - 1 \in 1 .. Len(calltodo) /\ i > 1
      BY <1>1
    <3>4. Upto(i) = 0 /\ Upto(i - 1) = 0 /\ Weight(i) = 0
      BY <1>1, <2>1, <3>1, <3>2, <3>3 DEF Upto
    <3> QED
      BY <3>4
  <2>2. CASE calltodo[i].left > 0
    <3>1. calltodo[i].c_time = calltodo[i].left - Before(calltodo, i)
      BY DEF QueueInv, Exact
    <3>2. Before(calltodo, i) = Upto(i - 1)
      BY <2>2 DEF Before, Upto
    <3>3. Upto(i - 1) \in Int /\ Upto(i - 1) <= calltodo[i].left
      <4>1. i > 1 => /\ i - 1 \in 1 .. Len(calltodo)
                     /\ calltodo[i - 1].left <= calltodo[i].left
        BY <1>1 DEF QueueInv, Ordered
      <4>2. i - 1 > 0 => i > 1
        OBVIOUS
      <4> QED
        BY <1>1, <2>2, <4>1, <4>2 DEF Upto
    <3>4. Upto(i) = calltodo[i].left
      BY <2>2 DEF Upto
    <3>5. Weight(i) = calltodo[i].left - Upto(i - 1)
      BY <1>1, <3>1, <3>2, <3>3
    <3> QED
      BY <1>1, <3>3, <3>4, <3>5
  <2> QED
    BY <1>1, <2>1, <2>2
<1>3. Upto(0) = 0
  BY DEF Upto
<1>4. Sums(f)
  <2>1. ASSUME NEW i \in Dom PROVE f[i] = IF i = 0 THEN 0 ELSE f[i - 1] + Weight(i)
    <3>1. CASE i = 0
      BY <1>3, <3>1
    <3>2. CASE i # 0
      <4>1. i \in 1 .. Len(calltodo) /\ i - 1 \in Dom
        BY <1>1, <3>2
      <4> HIDE DEF Weight
      <4> QED
        BY <1>2, <3>2, <4>1
    <3> QED
      BY <3>1, <3>2
  <2> HIDE DEF Weight
  <2> QED
    BY <2>1
<1>5. Elapsed = CHOOSE e : Sums(e)
  BY DEF Elapsed
<1>6. Sums(Elapsed)
  <2> HIDE DEF Sums, f
  <2> QED
    BY <1>4, <1>5
<1>7. ASSUME NEW i \in Dom
      PROVE  Elapsed[i] = IF i = 0 THEN 0 ELSE Elapsed[i - 1] + Weight(i)
  <2> HIDE DEF Weight
  <2> QED
    BY <1>6
<1> DEFINE Wrong == {i \in Dom : Elapsed[i] # Upto(i)}
<1>8. Wrong = {}
  <2> SUFFICES ASSUME Wrong # {} PROVE FALSE
    OBVIOUS
  <2>1. Wrong \in SUBSET Nat
    BY <1>1
  <2>2. PICK i \in Wrong : \A j \in Wrong : i <= j
    <3> HIDE DEF Wrong
    <3> QED
      BY <2>1, Least
  <2>3. i # 0
    BY <1>3, <1>7, <2>2
  <2>4. i \in 1 .. Len(calltodo) /\ i - 1 \in Dom /\ ~(i <= i - 1)
    BY <1>1, <2>2, <2>3
  <2>5. Elapsed[i - 1] = Upto(i - 1)
    BY <2>2, <2>4
  <2>6. Elapsed[i] = Upto(i)
    <3> HIDE DEF Weight
    <3> QED
      BY <1>2, <1>7, <2>3, <2>4, <2>5
  <2> QED
    BY <2>2, <2>6
<1> QED
  BY <1>8

\* The place that timeout() finds for a new entry: behind everything that is nearer and
\* before everything else, and the time that remains from the entry before it.
LEMMA InsertPosFacts ==
  ASSUME TypeOK, QueueInv, NEW t \in Nat, t > 0
  PROVE  /\ InsertPos(t) \in 1 .. Len(calltodo) + 1
         /\ \A i \in 1 .. Len(calltodo) :
              i < InsertPos(t) <=> calltodo[i].left < t
         /\ Elapsed[InsertPos(t) - 1] = Upto(InsertPos(t) - 1)
<1> DEFINE stops == {i \in DOMAIN calltodo : calltodo[i].c_time >= t - Elapsed[i - 1]}
           n == Len(calltodo)
<1>1. /\ n \in Nat /\ DOMAIN calltodo = 1 .. n
      /\ \A i \in 1 .. n : calltodo[i].left \in Int /\ calltodo[i].c_time \in Int
  BY QueueType
<1>2. ASSUME NEW i \in 1 .. n PROVE i \in stops <=> calltodo[i].left >= t
  <2>1. i - 1 \in 0 .. n
    BY <1>1
  <2>2. Elapsed[i - 1] = Upto(i - 1)
    BY <2>1, ElapsedIs
  <2>3. CASE calltodo[i].left > 0
    <3>1. Before(calltodo, i) = Upto(i - 1)
      BY <2>3 DEF Before, Upto
    <3>2. calltodo[i].c_time = calltodo[i].left - Upto(i - 1)
      BY <3>1 DEF QueueInv, Exact
    <3>3. Upto(i - 1) \in Int
      BY <1>1 DEF Upto
    <3> QED
      BY <1>1, <2>2, <3>2, <3>3
  <2>4. CASE calltodo[i].left <= 0
    <3>1. calltodo[i].c_time <= 0
      BY <1>1, <2>4, DueUpTo
    <3>2. Upto(i - 1) = 0
      <4>1. i - 1 > 0 => i - 1 \in 1 .. n /\ calltodo[i - 1].left <= calltodo[i].left
        BY <1>1 DEF QueueInv, Ordered
      <4> QED
        BY <1>1, <2>4, <4>1 DEF Upto
    <3> QED
      BY <1>1, <2>2, <2>4, <3>1, <3>2
  <2>5. calltodo[i].left > 0 \/ calltodo[i].left <= 0
    BY <1>1
  <2> QED
    BY <2>3, <2>4, <2>5
<1>3. InsertPos(t) = IF stops = {} THEN n + 1 ELSE CHOOSE i \in stops : \A j \in stops : i <= j
  BY DEF InsertPos
<1>4. stops \in SUBSET (1 .. n)
  BY <1>1
<1> HIDE DEF stops
<1>5. CASE stops = {}
  <2>1. InsertPos(t) = n + 1
    BY <1>3, <1>5
  <2>2. \A i \in 1 .. n : i < n + 1 /\ calltodo[i].left < t
    BY <1>1, <1>2, <1>5
  <2>3. n \in 0 .. n /\ n + 1 - 1 = n
    BY <1>1
  <2> QED
    BY <1>1, <2>1, <2>2, <2>3, ElapsedIs
<1>6. CASE stops # {}
  <2>1. \E i \in stops : \A j \in stops : i <= j
    <3>1. stops \in SUBSET Nat
      BY <1>1, <1>4
    <3> QED
      BY <1>6, <3>1, Least
  <2>2. InsertPos(t) \in stops /\ \A j \in stops : InsertPos(t) <= j
    BY <1>3, <1>6, <2>1
  <2>3. PICK k \in 1 .. n : k = InsertPos(t)
    BY <1>4, <2>2
  <2>4. ASSUME NEW i \in 1 .. n PROVE i < k <=> calltodo[i].left < t
    <3>1. calltodo[k].left >= t
      BY <1>2, <2>2, <2>3
    <3>2. CASE i < k
      <4>1. i \notin stops
        BY <1>1, <2>2, <2>3, <3>2
      <4> QED
        BY <1>1, <1>2, <3>2, <4>1
    <3>3. CASE i > k
      <4>1. calltodo[k].left <= calltodo[i].left
        BY <1>1, <3>3 DEF QueueInv, Ordered
      <4> QED
        BY <1>1, <3>1, <3>3, <4>1
    <3>4. CASE i = k
      BY <1>1, <3>1, <3>4
    <3>5. i < k \/ i > k \/ i = k
      BY <1>1
    <3> QED
      BY <3>2, <3>3, <3>4, <3>5
  <2>5. k - 1 \in 0 .. n
    BY <1>1
  <2>6. Elapsed[k - 1] = Upto(k - 1)
    BY <2>5, ElapsedIs
  <2> QED
    BY <1>1, <2>3, <2>4, <2>6
<1> QED
  BY <1>5, <1>6
-----------------------------------------------------------------------------
(* The steps on the queue.                                                 *)

\* hardclock() brings every entry one tick nearer.
LEMMA TickStep ==
  ASSUME CalloutInv, NEW basepri \in BOOLEAN, hardclock(basepri) PROVE CalloutInv'
<1> DEFINE n == Len(calltodo)
<1>1. /\ TypeOK /\ QueueInv /\ CancelInv
      /\ n \in Nat /\ DOMAIN calltodo = 1 .. n
      /\ \A i \in 1 .. n : /\ calltodo[i] \in Entry /\ calltodo[i].func \in Func
                           /\ calltodo[i].left \in Int /\ calltodo[i].c_time \in Int
  BY QueueType DEF CalloutInv
<1>2. /\ calltodo' = [i \in 1 .. n |->
            [func |-> calltodo[i].func,
             c_time |-> IF i \in Visited THEN calltodo[i].c_time - 1 ELSE calltodo[i].c_time,
             left |-> calltodo[i].left - 1]]
      /\ UNCHANGED <<callfree, firing, revoked, panicked>>
      /\ running' = (running \/ (NeedSoft /\ basepri))
      /\ sir' = (sir \/ (NeedSoft /\ ~basepri))
  BY <1>1 DEF hardclock, Aged
<1>3. ASSUME NEW i \in 1 .. n
      PROVE  /\ calltodo'[i] \in Entry
             /\ calltodo'[i].func = calltodo[i].func
             /\ calltodo'[i].left = calltodo[i].left - 1
             /\ calltodo'[i].c_time = IF i = 1 \/ calltodo[i - 1].left <= 0
                                      THEN calltodo[i].c_time - 1 ELSE calltodo[i].c_time
  <2>1. i \in Visited <=> i = 1 \/ calltodo[i - 1].left <= 0
    BY <1>1, VisitedAre
  <2>2. calltodo'[i] =
            [func |-> calltodo[i].func,
             c_time |-> IF i \in Visited THEN calltodo[i].c_time - 1 ELSE calltodo[i].c_time,
             left |-> calltodo[i].left - 1]
    BY <1>2
  <2> QED
    BY <1>1, <2>1, <2>2 DEF Entry
<1>4. calltodo' \in Seq(Entry) /\ Len(calltodo') = n
  <2>1. calltodo' \in [1 .. n -> Entry]
    BY <1>2, <1>3
  <2>2. calltodo' \in Seq(Entry)
    BY <1>1, <2>1, SeqDef
  <2> HIDE DEF n
  <2> QED
    BY <1>1, <2>1, <2>2, LenProperties
<1>5. TypeOK'
  <2>1. /\ callfree' \in 0 .. NCallout /\ callfree' + Len(calltodo') = NCallout
        /\ panicked' \in BOOLEAN /\ firing' \subseteq Func /\ revoked' \subseteq Func
    BY <1>1, <1>2, <1>4 DEF TypeOK
  <2>2. sir' \in BOOLEAN /\ running' \in BOOLEAN
    BY <1>2
  <2> QED
    BY <1>4, <2>1, <2>2 DEF TypeOK
<1>6. Ordered(calltodo')
  <2> SUFFICES ASSUME NEW i \in 1 .. n, NEW j \in 1 .. n, i < j
               PROVE  calltodo'[i].left <= calltodo'[j].left
    BY <1>4 DEF Ordered
  <2>1. calltodo[i].left <= calltodo[j].left
    BY <1>1 DEF QueueInv, Ordered
  <2> QED
    BY SMTT(30), <1>1, <1>3, <2>1
<1>7. Exact(calltodo')
  <2> SUFFICES ASSUME NEW i \in 1 .. n
               PROVE  calltodo'[i].c_time = calltodo'[i].left - Before(calltodo', i)
    BY <1>4 DEF Exact
  <2>1. calltodo[i].c_time = calltodo[i].left - Before(calltodo, i)
    BY <1>1 DEF QueueInv, Exact
  <2>2. CASE i = 1
    <3>1. Before(calltodo, i) = 0 /\ Before(calltodo', i) = 0
      BY <2>2 DEF Before
    <3> QED
      BY <1>1, <1>3, <2>1, <2>2, <3>1
  <2>3. CASE i # 1
    <3>1. i - 1 \in 1 .. n /\ i > 1
      BY <1>1, <2>3
    <3>2. calltodo[i - 1].left <= calltodo[i].left
      BY <1>1, <3>1 DEF QueueInv, Ordered
    <3>3. calltodo'[i - 1].left = calltodo[i - 1].left - 1
      BY <1>3, <3>1
    <3> QED
      BY SMTT(30), <1>1, <1>3, <2>1, <3>1, <3>2, <3>3 DEF Before
  <2> QED
    BY <2>2, <2>3
<1>8. CancelInv'
  <2>1. firing' # {} => running'
    BY <1>1, <1>2 DEF CancelInv
  <2>2. firing' \cap revoked' = {}
    BY <1>1, <1>2 DEF CancelInv
  <2>3. ASSUME NEW i \in 1 .. n PROVE calltodo'[i].func \notin revoked'
    <3>1. calltodo'[i].func = calltodo[i].func /\ revoked' = revoked
      BY <1>2, <1>3
    <3>2. calltodo[i].func \notin revoked
      BY <1>1 DEF CancelInv
    <3> QED
      BY <3>1, <3>2
  <2> QED
    BY <1>4, <2>1, <2>2, <2>3 DEF CancelInv
<1> QED
  BY <1>5, <1>6, <1>7, <1>8 DEF CalloutInv, QueueInv

\* softclock() takes the first entry, which is due and due for longest.
LEMMA TakeStep ==
  ASSUME CalloutInv, softclock_take
  PROVE  /\ CalloutInv'
         /\ Head(calltodo).left <= 0
         /\ \A i \in DOMAIN calltodo : Head(calltodo).left <= calltodo[i].left
<1> DEFINE n == Len(calltodo)
<1>1. /\ TypeOK /\ QueueInv /\ CancelInv
      /\ n \in Nat /\ DOMAIN calltodo = 1 .. n
      /\ \A i \in 1 .. n : /\ calltodo[i] \in Entry /\ calltodo[i].func \in Func
                           /\ calltodo[i].left \in Int /\ calltodo[i].c_time \in Int
  BY QueueType DEF CalloutInv
<1>2. /\ running /\ calltodo # <<>> /\ Head(calltodo).c_time <= 0
      /\ firing' = {Head(calltodo).func} /\ calltodo' = Tail(calltodo)
      /\ callfree' = callfree + 1
      /\ UNCHANGED <<sir, running, revoked, panicked>>
  BY DEF softclock_take, HeadIsDue
<1>3. /\ n > 0 /\ Head(calltodo) = calltodo[1]
      /\ calltodo' \in Seq(Entry) /\ Len(calltodo') = n - 1
      /\ \A i \in 1 .. n - 1 : calltodo'[i] = calltodo[i + 1]
  <2>1. calltodo \in Seq(Entry)
    BY <1>1 DEF TypeOK
  <2>2. n > 0 /\ Head(calltodo) = calltodo[1]
    BY <1>1, <1>2, <2>1, EmptySeq
  <2> QED
    BY <1>2, <2>1, <2>2, HeadTailProperties
<1>4. calltodo[1].left <= 0
  <2>1. Before(calltodo, 1) = 0
    BY DEF Before
  <2> QED
    BY <1>1, <1>2, <1>3, <2>1 DEF QueueInv, Exact
<1>5. ASSUME NEW i \in 1 .. n PROVE calltodo[1].left <= calltodo[i].left
  <2>1. i = 1 \/ 1 < i
    BY <1>1
  <2> QED
    BY <1>1, <1>3, <2>1 DEF QueueInv, Ordered
<1>6. TypeOK'
  <2>1. n <= NCallout /\ callfree + n = NCallout /\ callfree \in 0 .. NCallout
    BY <1>1 DEF TypeOK
  <2>2. callfree' \in 0 .. NCallout /\ callfree' + Len(calltodo') = NCallout
    <3>1. n \in Nat /\ n > 0 /\ callfree' = callfree + 1 /\ Len(calltodo') = n - 1
      BY <1>1, <1>2, <1>3
    <3> HIDE DEF n
    <3> QED
      BY <2>1, <3>1, CalloutAssumption
  <2>3. firing' \subseteq Func
    BY <1>1, <1>2, <1>3
  <2> QED
    BY <1>1, <1>2, <1>3, <2>2, <2>3 DEF TypeOK
<1>7. Ordered(calltodo')
  <2> SUFFICES ASSUME NEW i \in 1 .. n - 1, NEW j \in 1 .. n - 1, i < j
               PROVE  calltodo'[i].left <= calltodo'[j].left
    BY <1>3 DEF Ordered
  <2>1. i + 1 \in 1 .. n /\ j + 1 \in 1 .. n /\ i + 1 < j + 1
    BY <1>1
  <2> QED
    BY <1>1, <1>3, <2>1 DEF QueueInv, Ordered
<1>8. Exact(calltodo')
  <2> SUFFICES ASSUME NEW i \in 1 .. n - 1
               PROVE  calltodo'[i].c_time = calltodo'[i].left - Before(calltodo', i)
    BY <1>3 DEF Exact
  <2>1. i + 1 \in 1 .. n /\ (i + 1) - 1 = i /\ i + 1 > 1
    BY <1>1
  <2>2. calltodo[i + 1].c_time = calltodo[i + 1].left - Before(calltodo, i + 1)
    BY <1>1, <2>1 DEF QueueInv, Exact
  <2>3. Before(calltodo', i) = Before(calltodo, i + 1)
    <3>1. CASE i = 1
      <4>1. Before(calltodo, i + 1) = 0 /\ Before(calltodo', i) = 0
        BY <1>1, <1>3, <1>4, <3>1 DEF Before
      <4> QED
        BY <4>1
    <3>2. CASE i # 1
      <4>1. i > 1 /\ i - 1 \in 1 .. n - 1 /\ (i - 1) + 1 = i
        BY <1>1, <3>2
      <4>2. calltodo'[i - 1] = calltodo[i] /\ calltodo'[i] = calltodo[i + 1]
        BY <1>3, <4>1
      <4> QED
        BY <2>1, <4>1, <4>2 DEF Before
    <3> QED
      BY <3>1, <3>2
  <2> QED
    BY <1>3, <2>2, <2>3
<1>9. CancelInv'
  <2>1. firing' \cap revoked' = {}
    BY <1>1, <1>2, <1>3 DEF CancelInv
  <2>2. ASSUME NEW i \in 1 .. n - 1 PROVE calltodo'[i].func \notin revoked'
    <3>1. i + 1 \in 1 .. n
      BY <1>1
    <3> QED
      BY <1>1, <1>2, <1>3, <3>1 DEF CancelInv
  <2> QED
    BY <1>2, <1>3, <2>1, <2>2 DEF CancelInv
<1> QED
  BY <1>1, <1>3, <1>4, <1>5, <1>6, <1>7, <1>8, <1>9 DEF CalloutInv, QueueInv

\* The rest of softclock().
LEMMA SoftStep ==
  ASSUME CalloutInv, softclock_enter \/ softclock_call \/ softclock_exit PROVE CalloutInv'
<1>1. TypeOK'
  BY DEF CalloutInv, TypeOK, softclock_enter, softclock_call, softclock_exit
<1>2. QueueInv'
  BY DEF CalloutInv, QueueInv, softclock_enter, softclock_call, softclock_exit
<1>3. CancelInv'
  BY DEF CalloutInv, CancelInv, softclock_enter, softclock_call, softclock_exit
<1> QED
  BY <1>1, <1>2, <1>3 DEF CalloutInv

\* timeout() gives the new entry what remains from the entries before it, and the entry
\* behind it what remains from the new one.
LEMMA InsertedFacts ==
  ASSUME TypeOK, QueueInv, NEW f \in Func, NEW t \in Nat, t > 0
  PROVE  /\ Inserted(f, t) \in Seq(Entry)
         /\ Len(Inserted(f, t)) = Len(calltodo) + 1
         /\ Exact(Inserted(f, t)) /\ Ordered(Inserted(f, t))
         /\ \A i \in 1 .. Len(calltodo) + 1 :
              \/ Inserted(f, t)[i].func = f
              \/ \E j \in 1 .. Len(calltodo) : Inserted(f, t)[i].func = calltodo[j].func
<1> DEFINE n == Len(calltodo)
           k == InsertPos(t)
           rest == t - Elapsed[k - 1]
           new == [func |-> f, c_time |-> rest, left |-> t]
           after == [i \in DOMAIN calltodo |->
                       IF i = k THEN [calltodo[i] EXCEPT !.c_time = calltodo[i].c_time - rest]
                       ELSE calltodo[i]]
           q == Inserted(f, t)
<1>1. /\ n \in Nat /\ DOMAIN calltodo = 1 .. n
      /\ \A i \in 1 .. n : /\ calltodo[i] \in Entry /\ calltodo[i].func \in Func
                           /\ calltodo[i].left \in Int /\ calltodo[i].c_time \in Int
  BY QueueType
<1>2. /\ k \in 1 .. n + 1
      /\ \A i \in 1 .. n : i < k <=> calltodo[i].left < t
      /\ Elapsed[k - 1] = Upto(k - 1)
  BY InsertPosFacts
<1>3. q = InsertAt(after, k, new)
  BY DEF Inserted
<1> HIDE DEF k
<1>4. Upto(k - 1) \in Int /\ rest \in Int /\ rest = t - Upto(k - 1)
  <2>1. k - 1 > 0 => k - 1 \in 1 .. n
    BY <1>1, <1>2
  <2> QED
    BY <1>1, <1>2, <2>1 DEF Upto
<1> HIDE DEF rest, q
<1>5. /\ after \in Seq(Entry) /\ Len(after) = n
      /\ \A i \in 1 .. n : /\ after[i].func = calltodo[i].func
                           /\ after[i].left = calltodo[i].left
                           /\ after[i].c_time = IF i = k THEN calltodo[i].c_time - rest
                                                ELSE calltodo[i].c_time
  <2>1. ASSUME NEW i \in 1 .. n
        PROVE  /\ after[i] \in Entry /\ after[i].func = calltodo[i].func
               /\ after[i].left = calltodo[i].left
               /\ after[i].c_time = IF i = k THEN calltodo[i].c_time - rest
                                    ELSE calltodo[i].c_time
    BY SMTT(30), <1>1, <1>4 DEF Entry
  <2>2. after \in [1 .. n -> Entry]
    BY <1>1, <2>1
  <2>3. after \in Seq(Entry)
    BY <1>1, <2>2, SeqDef
  <2> HIDE DEF after, n
  <2>4. Len(after) = n
    BY <1>1, <2>2, <2>3, LenProperties
  <2> QED
    BY <2>1, <2>3, <2>4
<1>6. new \in Entry /\ new.func = f /\ new.left = t /\ new.c_time = rest
  BY <1>4 DEF Entry
<1> HIDE DEF after, new
<1>7. /\ q \in Seq(Entry) /\ Len(q) = n + 1
      /\ \A i \in 1 .. n + 1 : q[i] = IF i < k THEN after[i] ELSE IF i = k THEN new ELSE after[i - 1]
  BY SMTT(30), <1>2, <1>3, <1>5, <1>6, InsertAtFacts
<1>8. ASSUME NEW i \in 1 .. n + 1, i < k
      PROVE  /\ i \in 1 .. n
             /\ q[i].func = calltodo[i].func /\ q[i].left = calltodo[i].left
             /\ q[i].c_time = calltodo[i].c_time
  <2>1. i \in 1 .. n /\ i # k
    BY <1>1, <1>2, <1>8
  <2>2. q[i] = after[i]
    BY <1>7, <1>8
  <2> QED
    BY <1>5, <2>1, <2>2
<1>9. k \in 1 .. n + 1 /\ q[k].func = f /\ q[k].left = t /\ q[k].c_time = rest
  <2>1. ~(k < k)
    BY <1>2
  <2> QED
    BY <1>2, <1>6, <1>7, <2>1
<1>10. ASSUME NEW i \in 1 .. n + 1, i > k
       PROVE  /\ i - 1 \in 1 .. n /\ i - 1 >= k
              /\ q[i].func = calltodo[i - 1].func /\ q[i].left = calltodo[i - 1].left
              /\ q[i].c_time = IF i - 1 = k THEN calltodo[k].c_time - rest
                               ELSE calltodo[i - 1].c_time
  <2>1. i - 1 \in 1 .. n /\ i - 1 >= k /\ ~(i < k) /\ i # k
    BY <1>1, <1>2, <1>10
  <2>2. q[i] = after[i - 1]
    BY <1>7, <2>1
  <2> QED
    BY <1>5, <2>1, <2>2
<1>11. \A i \in 1 .. n + 1 : i < k \/ i = k \/ i > k
  BY <1>1, <1>2
<1>12. Ordered(q)
  <2> SUFFICES ASSUME NEW i \in 1 .. n + 1, NEW j \in 1 .. n + 1, i < j
               PROVE  q[i].left <= q[j].left
    BY <1>7 DEF Ordered
  <2>1. CASE i < k /\ j < k
    BY <1>8, <2>1 DEF QueueInv, Ordered
  <2>2. CASE i < k /\ j = k
    BY <1>1, <1>2, <1>8, <1>9, <2>2
  <2>3. CASE i < k /\ j > k
    <3>1. /\ i \in 1 .. n /\ j - 1 \in 1 .. n /\ i < j - 1
          /\ q[i].left = calltodo[i].left /\ q[j].left = calltodo[j - 1].left
      BY SMTT(30), <1>2, <1>8, <1>10, <2>3
    <3> QED
      BY <3>1 DEF QueueInv, Ordered
  <2>4. CASE i = k /\ j > k
    <3>1. j - 1 \in 1 .. n /\ ~(j - 1 < k) /\ q[j].left = calltodo[j - 1].left
      BY <1>2, <1>10, <2>4
    <3>2. ~(calltodo[j - 1].left < t)
      BY <1>2, <3>1
    <3> QED
      BY <1>1, <1>9, <2>4, <3>1, <3>2
  <2>5. CASE i > k /\ j > k
    <3>1. /\ i - 1 \in 1 .. n /\ j - 1 \in 1 .. n /\ i - 1 < j - 1
          /\ q[i].left = calltodo[i - 1].left /\ q[j].left = calltodo[j - 1].left
      BY <1>10, <2>5
    <3> QED
      BY <3>1 DEF QueueInv, Ordered
  <2>6. \/ i < k /\ j < k
        \/ i < k /\ j = k
        \/ i < k /\ j > k
        \/ i = k /\ j > k
        \/ i > k /\ j > k
    BY <1>1, <1>2
  <2> QED
    BY <2>1, <2>2, <2>3, <2>4, <2>5, <2>6
<1>13. Exact(q)
  <2> SUFFICES ASSUME NEW i \in 1 .. n + 1 PROVE q[i].c_time = q[i].left - Before(q, i)
    BY <1>7 DEF Exact
  <2>1. CASE i < k
    <3>1. i > 1 => i - 1 \in 1 .. n + 1 /\ i - 1 < k
      BY <1>1, <1>2, <2>1
    <3>2. Before(q, i) = Before(calltodo, i)
      BY <1>8, <2>1, <3>1 DEF Before
    <3> QED
      BY <1>8, <2>1, <3>2 DEF QueueInv, Exact
  <2>2. CASE i = k
    <3>1. CASE k = 1
      <4>1. Upto(k - 1) = 0 /\ Before(q, i) = 0
        BY <2>2, <3>1 DEF Upto, Before
      <4> QED
        BY <1>4, <1>9, <2>2, <4>1
    <3>2. CASE k # 1
      <4>1. k > 1 /\ k - 1 > 0 /\ k - 1 \in 1 .. n + 1 /\ k - 1 < k
        BY <1>1, <1>2, <3>2
      <4>2. q[k - 1].left = calltodo[k - 1].left
        BY <1>8, <4>1
      <4>3. Before(q, i) = Upto(k - 1)
        BY <1>9, <2>2, <4>1, <4>2 DEF Upto, Before
      <4> QED
        BY <1>4, <1>9, <2>2, <4>3
    <3> QED
      BY <3>1, <3>2
  <2>3. CASE i > k
    <3>1. i > 1 /\ i - 1 \in 1 .. n + 1 /\ i - 1 \in 1 .. n /\ ~(i - 1 < k)
      BY <1>1, <1>2, <1>10, <2>3
    <3>2. calltodo[i - 1].left >= t
      BY <1>1, <1>2, <3>1
    <3>3. calltodo[i - 1].c_time = calltodo[i - 1].left - Before(calltodo, i - 1)
      BY <3>1 DEF QueueInv, Exact
    <3>4. CASE i - 1 = k
      <4>1. q[i - 1].left = t
        BY <1>9, <3>4
      <4>2. Before(q, i) = t
        BY <1>1, <1>10, <2>3, <3>1, <3>2, <4>1 DEF Before
      <4>3. Before(calltodo, k) = Upto(k - 1)
        <5>1. calltodo[k].left > 0
          BY <1>1, <3>1, <3>2, <3>4
        <5> QED
          BY <1>2, <5>1 DEF Before, Upto
      <4>4. q[i].c_time = calltodo[k].c_time - rest /\ q[i].left = calltodo[k].left
        BY <1>10, <2>3, <3>4
      <4>5. k \in 1 .. n
        BY <3>1, <3>4
      <4> QED
        BY <1>1, <1>4, <3>3, <3>4, <4>2, <4>3, <4>4, <4>5
    <3>5. CASE i - 1 # k
      <4>1. i - 1 > k /\ (i - 1) - 1 = i - 2 /\ i - 1 > 1
        BY <1>2, <1>10, <2>3, <3>5
      <4>2. q[i - 1].left = calltodo[i - 2].left
        BY <1>10, <3>1, <4>1
      <4>3. /\ q[i].c_time = calltodo[i - 1].c_time /\ q[i].left = calltodo[i - 1].left
        BY <1>10, <2>3, <3>5
      <4>4. Before(q, i) = Before(calltodo, i - 1)
        BY <3>1, <4>1, <4>2, <4>3 DEF Before
      <4> QED
        BY <3>3, <4>3, <4>4
    <3> QED
      BY <3>4, <3>5
  <2> QED
    BY <1>11, <2>1, <2>2, <2>3
<1>14. ASSUME NEW i \in 1 .. n + 1
       PROVE  q[i].func = f \/ \E j \in 1 .. n : q[i].func = calltodo[j].func
  BY <1>8, <1>9, <1>10, <1>11
<1> QED
  BY <1>7, <1>12, <1>13, <1>14 DEF q
\* untimeout() hands the time of the entry it removes on to the entry behind it.
LEMMA RemovedFacts ==
  ASSUME TypeOK, QueueInv, NEW k \in 1 .. Len(calltodo)
  PROVE  /\ Removed(k) \in Seq(Entry)
         /\ Len(Removed(k)) = Len(calltodo) - 1
         /\ Exact(Removed(k)) /\ Ordered(Removed(k))
         /\ \A i \in 1 .. Len(calltodo) - 1 :
              \E j \in 1 .. Len(calltodo) : j # k /\ Removed(k)[i].func = calltodo[j].func
<1> DEFINE n == Len(calltodo)
           given == calltodo[k].c_time
           after == [i \in DOMAIN calltodo |->
                       IF i = k + 1 /\ given > 0
                         THEN [calltodo[i] EXCEPT !.c_time = calltodo[i].c_time + given]
                         ELSE calltodo[i]]
           q == Removed(k)
<1>1. /\ n \in Nat /\ DOMAIN calltodo = 1 .. n
      /\ \A i \in 1 .. n : /\ calltodo[i] \in Entry /\ calltodo[i].func \in Func
                           /\ calltodo[i].left \in Int /\ calltodo[i].c_time \in Int
  BY QueueType
<1>2. q = RemoveAt(after, k)
  BY DEF Removed
<1>3. given \in Int
  BY <1>1
<1> HIDE DEF q
<1>4. /\ after \in Seq(Entry) /\ Len(after) = n
      /\ \A i \in 1 .. n : /\ after[i].func = calltodo[i].func
                           /\ after[i].left = calltodo[i].left
                           /\ after[i].c_time = IF i = k + 1 /\ given > 0
                                                  THEN calltodo[i].c_time + given
                                                  ELSE calltodo[i].c_time
  <2> HIDE DEF given
  <2>1. ASSUME NEW i \in 1 .. n
        PROVE  /\ after[i] \in Entry /\ after[i].func = calltodo[i].func
               /\ after[i].left = calltodo[i].left
               /\ after[i].c_time = IF i = k + 1 /\ given > 0
                                      THEN calltodo[i].c_time + given
                                      ELSE calltodo[i].c_time
    BY <1>1, <1>3 DEF Entry
  <2>2. after \in [1 .. n -> Entry]
    BY <1>1, <2>1
  <2>3. after \in Seq(Entry)
    BY <1>1, <2>2, SeqDef
  <2> HIDE DEF after, n
  <2>4. Len(after) = n
    BY <1>1, <2>2, <2>3, LenProperties
  <2> QED
    BY <2>1, <2>3, <2>4
<1> HIDE DEF after
<1>5. /\ q \in Seq(Entry) /\ Len(q) = n - 1
      /\ \A i \in 1 .. n - 1 : q[i] = IF i < k THEN after[i] ELSE after[i + 1]
  BY <1>2, <1>4, RemoveAtFacts
<1>6. ASSUME NEW i \in 1 .. n - 1, i < k
      PROVE  /\ i \in 1 .. n /\ q[i].func = calltodo[i].func
             /\ q[i].left = calltodo[i].left /\ q[i].c_time = calltodo[i].c_time
  <2>1. i \in 1 .. n /\ i # k + 1
    BY <1>1, <1>6
  <2>2. q[i] = after[i]
    BY <1>5, <1>6
  <2> QED
    BY <1>4, <2>1, <2>2
<1>7. ASSUME NEW i \in 1 .. n - 1, i >= k
      PROVE  /\ i + 1 \in 1 .. n /\ q[i].func = calltodo[i + 1].func
             /\ q[i].left = calltodo[i + 1].left
             /\ q[i].c_time = IF i = k /\ given > 0 THEN calltodo[i + 1].c_time + given
                              ELSE calltodo[i + 1].c_time
  <2>1. i + 1 \in 1 .. n /\ (i + 1 = k + 1 <=> i = k) /\ ~(i < k)
    BY <1>1, <1>7
  <2>2. q[i] = after[i + 1]
    BY <1>5, <2>1
  <2> QED
    BY <1>4, <2>1, <2>2
<1>8. \A i \in 1 .. n - 1 : i < k \/ i >= k
  BY <1>1
<1>9. Ordered(q)
  <2> SUFFICES ASSUME NEW i \in 1 .. n - 1, NEW j \in 1 .. n - 1, i < j
               PROVE  q[i].left <= q[j].left
    BY <1>5 DEF Ordered
  <2>1. CASE j < k
    BY <1>6, <2>1 DEF QueueInv, Ordered
  <2>2. CASE i < k /\ j >= k
    <3>1. i < j + 1
      BY <1>1
    <3> QED
      BY <1>6, <1>7, <2>2, <3>1 DEF QueueInv, Ordered
  <2>3. CASE i >= k
    <3>1. i + 1 < j + 1 /\ j >= k
      BY <1>1, <2>3
    <3> QED
      BY <1>7, <2>3, <3>1 DEF QueueInv, Ordered
  <2> QED
    BY <1>1, <2>1, <2>2, <2>3
<1>10. Exact(q)
  <2> SUFFICES ASSUME NEW i \in 1 .. n - 1 PROVE q[i].c_time = q[i].left - Before(q, i)
    BY <1>5 DEF Exact
  <2>1. CASE i < k
    <3>1. i > 1 => i - 1 \in 1 .. n - 1 /\ i - 1 < k
      BY <1>1, <2>1
    <3>2. Before(q, i) = Before(calltodo, i)
      BY <1>6, <2>1, <3>1 DEF Before
    <3> QED
      BY <1>6, <2>1, <3>2 DEF QueueInv, Exact
  <2>2. CASE i > k
    <3>1. /\ i > 1 /\ i - 1 \in 1 .. n - 1 /\ i - 1 >= k /\ i >= k /\ i # k
          /\ (i - 1) + 1 = i /\ (i + 1) - 1 = i /\ i + 1 > 1
      BY <1>1, <2>2
    <3>2. /\ i + 1 \in 1 .. n /\ q[i].left = calltodo[i + 1].left
          /\ q[i].c_time = calltodo[i + 1].c_time
      BY <1>7, <3>1
    <3>3. q[i - 1].left = calltodo[i].left
      BY <1>7, <3>1
    <3>4. Before(q, i) = Before(calltodo, i + 1)
      BY <3>1, <3>2, <3>3 DEF Before
    <3> QED
      BY <3>2, <3>4 DEF QueueInv, Exact
  <2>3. CASE i = k
    <3>1. /\ k + 1 \in 1 .. n /\ q[k].left = calltodo[k + 1].left
          /\ q[k].c_time = IF given > 0 THEN calltodo[k + 1].c_time + given
                           ELSE calltodo[k + 1].c_time
      BY <1>1, <1>7, <2>3
    <3>2. /\ given = calltodo[k].left - Before(calltodo, k)
          /\ calltodo[k + 1].c_time = calltodo[k + 1].left - Before(calltodo, k + 1)
      BY <3>1 DEF QueueInv, Exact
    <3>3. /\ calltodo[k].left <= calltodo[k + 1].left
          /\ k > 1 => /\ k - 1 \in 1 .. n /\ k - 1 \in 1 .. n - 1 /\ k - 1 < k
                      /\ calltodo[k - 1].left <= calltodo[k].left
      BY <1>1, <3>1 DEF QueueInv, Ordered
    <3>4. k > 1 => q[k - 1].left = calltodo[k - 1].left
      BY <1>6, <3>3
    <3>5. CASE calltodo[k].left <= 0
      <4>1. Before(calltodo, k + 1) = 0
        BY <1>1, <3>5 DEF Before
      <4>2. Before(calltodo, k) = 0 /\ Before(q, k) = 0
        BY <1>1, <3>3, <3>4, <3>5 DEF Before
      <4> QED
        BY <1>1, <2>3, <3>1, <3>2, <3>5, <4>1, <4>2
    <3>6. CASE calltodo[k].left > 0
      <4>1. calltodo[k + 1].left > 0
        BY <1>1, <3>1, <3>3, <3>6
      <4>2. Before(calltodo, k + 1) = calltodo[k].left
        BY <1>1, <3>6, <4>1 DEF Before
      <4>3. Before(q, k) = Before(calltodo, k)
        BY <3>1, <3>3, <3>4, <3>6, <4>1 DEF Before
      <4>4. Before(calltodo, k) \in Int /\ given >= 0
        BY <1>1, <3>2, <3>3, <3>6 DEF Before
      <4>5. calltodo[k + 1].left \in Int /\ calltodo[k].left \in Int
        BY <1>1, <3>1
      <4>6. calltodo[k + 1].c_time = calltodo[k + 1].left - calltodo[k].left
        BY <3>2, <4>2
      <4>7. q[k].c_time = calltodo[k + 1].c_time + given
        <5>1. given > 0 \/ given = 0
          BY <1>3, <4>4
        <5>2. calltodo[k + 1].c_time \in Int
          BY <4>5, <4>6
        <5> HIDE DEF given
        <5> QED
          BY <3>1, <5>1, <5>2
      <4>8. q[k].c_time = calltodo[k + 1].left - Before(calltodo, k)
        <5> HIDE DEF given
        <5> QED
          BY <3>2, <4>4, <4>5, <4>6, <4>7
      <4> QED
        BY <2>3, <3>1, <4>3, <4>8
    <3> QED
      BY <1>1, <3>5, <3>6
  <2>4. i < k \/ i > k \/ i = k
    BY <1>1
  <2> QED
    BY <2>1, <2>2, <2>3, <2>4
<1>11. ASSUME NEW i \in 1 .. n - 1
       PROVE  \E j \in 1 .. n : j # k /\ q[i].func = calltodo[j].func
  <2>1. CASE i < k
    BY <1>6, <2>1
  <2>2. CASE i >= k
    <3>1. i + 1 # k
      BY <1>1, <2>2
    <3> QED
      BY <1>7, <2>2, <3>1
  <2> QED
    BY <1>8, <2>1, <2>2
<1> QED
  BY <1>5, <1>9, <1>10, <1>11 DEF q

\* timeout(): a new entry, or the panic.
LEMMA TimeoutStep ==
  ASSUME CalloutInv, NEW f \in Func, NEW t \in 0 .. MaxTime, timeout(f, t) PROVE CalloutInv'
<1> DEFINE n == Len(calltodo)
<1>1. /\ TypeOK /\ QueueInv /\ CancelInv /\ n \in Nat
      /\ revoked' = revoked \ {f} /\ UNCHANGED <<sir, running, firing>>
  BY QueueType DEF CalloutInv, timeout
<1>2. CASE callfree = 0
  <2>1. panicked' = TRUE /\ UNCHANGED <<calltodo, callfree>>
    BY <1>2 DEF timeout
  <2>2. TypeOK'
    BY <1>1, <2>1 DEF TypeOK
  <2>3. QueueInv'
    BY <1>1, <2>1 DEF QueueInv
  <2>4. CancelInv'
    BY <1>1, <2>1 DEF CancelInv
  <2> QED
    BY <2>2, <2>3, <2>4 DEF CalloutInv
<1>3. CASE callfree # 0
  <2>1. PICK u : u = IF t <= 0 THEN 1 ELSE t
    OBVIOUS
  <2>2. u \in Nat /\ u > 0
    BY <2>1, CalloutAssumption
  <2>3. calltodo' = Inserted(f, u) /\ callfree' = callfree - 1 /\ panicked' = panicked
    BY <1>3, <2>1 DEF timeout
  <2>4. /\ calltodo' \in Seq(Entry) /\ Len(calltodo') = n + 1
        /\ Exact(calltodo') /\ Ordered(calltodo')
        /\ \A i \in 1 .. n + 1 :
             calltodo'[i].func = f \/ \E j \in 1 .. n : calltodo'[i].func = calltodo[j].func
    BY <1>1, <2>2, <2>3, InsertedFacts
  <2>5. TypeOK'
    <3>1. callfree' \in 0 .. NCallout /\ callfree' + Len(calltodo') = NCallout
      <4>1. callfree \in 0 .. NCallout /\ callfree + n = NCallout
        BY <1>1 DEF TypeOK
      <4> HIDE DEF n
      <4> QED
        BY <1>1, <1>3, <2>3, <2>4, <4>1, CalloutAssumption
    <3>2. /\ sir' \in BOOLEAN /\ running' \in BOOLEAN /\ panicked' \in BOOLEAN
          /\ firing' \subseteq Func /\ revoked' \subseteq Func
      BY <1>1, <2>3 DEF TypeOK
    <3> QED
      BY <2>4, <3>1, <3>2 DEF TypeOK
  <2>6. CancelInv'
    <3>1. (firing' # {} => running') /\ firing' \cap revoked' = {}
      BY <1>1 DEF CancelInv
    <3>2. ASSUME NEW i \in 1 .. n + 1 PROVE calltodo'[i].func \notin revoked'
      BY <1>1, <2>4 DEF CancelInv
    <3> QED
      BY <2>4, <3>1, <3>2 DEF CancelInv
  <2> QED
    BY <2>4, <2>5, <2>6 DEF CalloutInv, QueueInv
<1> QED
  BY <1>2, <1>3

\* untimeout(): when a process removes the only entry of a pair, nothing of it is left,
\* neither in the queue nor in the hands of softclock().
LEMMA UntimeoutStep ==
  ASSUME CalloutInv, NEW f \in Func, NEW process \in BOOLEAN, untimeout(f, process)
  PROVE  CalloutInv'
<1> DEFINE n == Len(calltodo)
<1>1. /\ TypeOK /\ QueueInv /\ CancelInv
      /\ n \in Nat /\ DOMAIN calltodo = 1 .. n
  BY QueueType DEF CalloutInv
<1>2. PICK k \in InQueue(f) : calltodo' = Removed(k)
  BY DEF untimeout
<1>3. /\ process => ~running
      /\ callfree' = callfree + 1
      /\ revoked' = IF process /\ Cardinality(InQueue(f)) = 1 THEN revoked \cup {f} ELSE revoked
      /\ UNCHANGED <<sir, running, firing, panicked>>
  BY DEF untimeout
<1>4. k \in 1 .. n /\ calltodo[k].func = f
  BY <1>1, <1>2 DEF InQueue
<1>5. /\ calltodo' \in Seq(Entry) /\ Len(calltodo') = n - 1
      /\ Exact(calltodo') /\ Ordered(calltodo')
      /\ \A i \in 1 .. n - 1 :
           \E j \in 1 .. n : j # k /\ calltodo'[i].func = calltodo[j].func
  BY <1>1, <1>2, <1>4, RemovedFacts
<1>6. TypeOK'
  <2>1. callfree' \in 0 .. NCallout /\ callfree' + Len(calltodo') = NCallout
    <3>1. callfree \in 0 .. NCallout /\ callfree + n = NCallout
      BY <1>1 DEF TypeOK
    <3> HIDE DEF n
    <3> QED
      BY <1>1, <1>3, <1>4, <1>5, <3>1, CalloutAssumption
  <2>2. /\ sir' \in BOOLEAN /\ running' \in BOOLEAN /\ panicked' \in BOOLEAN
        /\ firing' \subseteq Func /\ revoked' \subseteq Func
    BY <1>1, <1>3 DEF TypeOK
  <2> QED
    BY <1>5, <2>1, <2>2 DEF TypeOK
<1>7. CancelInv'
  <2>1. CASE process /\ Cardinality(InQueue(f)) = 1
    <3>1. revoked' = revoked \cup {f} /\ firing' = {} /\ running' = running
      BY <1>1, <1>3, <2>1 DEF CancelInv
    <3>2. \A j \in 1 .. n : j # k => calltodo[j].func # f
      <4>1. IsFiniteSet(InQueue(f))
        <5>1. IsFiniteSet(1 .. n)
          BY <1>1, FS_Interval
        <5>2. InQueue(f) \subseteq 1 .. n
          BY <1>1 DEF InQueue
        <5> QED
          BY <5>1, <5>2, FS_Subset
      <4>2. PICK x : InQueue(f) = {x}
        BY <2>1, <4>1, FS_Singleton
      <4>3. \A j \in 1 .. n : calltodo[j].func = f => j \in InQueue(f)
        BY <1>1 DEF InQueue
      <4> QED
        BY <1>2, <4>2, <4>3
    <3>3. ASSUME NEW i \in 1 .. n - 1 PROVE calltodo'[i].func \notin revoked'
      BY <1>1, <1>5, <3>1, <3>2 DEF CancelInv
    <3> QED
      BY <1>5, <3>1, <3>3 DEF CancelInv
  <2>2. CASE ~(process /\ Cardinality(InQueue(f)) = 1)
    <3>1. revoked' = revoked /\ firing' = firing /\ running' = running
      BY <1>3, <2>2
    <3>2. ASSUME NEW i \in 1 .. n - 1 PROVE calltodo'[i].func \notin revoked'
      BY <1>1, <1>5, <3>1 DEF CancelInv
    <3> QED
      BY <1>1, <1>5, <3>1, <3>2 DEF CancelInv
  <2> QED
    BY <2>1, <2>2
<1> QED
  BY <1>5, <1>6, <1>7 DEF CalloutInv, QueueInv
-----------------------------------------------------------------------------
(* The invariant and what follows from it.                                 *)

LEMMA InitInv == Init => CalloutInv
<1> SUFFICES ASSUME Init PROVE CalloutInv
  OBVIOUS
<1>1. calltodo \in Seq(Entry) /\ Len(calltodo) = 0
  BY DEF Init
<1>2. TypeOK
  <2>1. callfree \in 0 .. NCallout /\ callfree + Len(calltodo) = NCallout
    BY <1>1, CalloutAssumption DEF Init
  <2>2. /\ sir \in BOOLEAN /\ running \in BOOLEAN /\ panicked \in BOOLEAN
        /\ firing \subseteq Func /\ revoked \subseteq Func
    BY DEF Init
  <2> QED
    BY <1>1, <2>1, <2>2 DEF TypeOK
<1>3. QueueInv
  BY <1>1 DEF QueueInv, Exact, Ordered
<1>4. CancelInv
  BY <1>1 DEF CancelInv, Init
<1> QED
  BY <1>2, <1>3, <1>4 DEF CalloutInv

LEMMA StepInv == CalloutInv /\ [Next]_vars => CalloutInv'
<1> SUFFICES ASSUME CalloutInv, [Next]_vars PROVE CalloutInv'
  OBVIOUS
<1>1. CASE UNCHANGED vars
  BY <1>1 DEF vars, CalloutInv, TypeOK, QueueInv, CancelInv
<1>2. CASE \E basepri \in BOOLEAN : hardclock(basepri)
  BY <1>2, TickStep
<1>3. CASE softclock_take
  BY <1>3, TakeStep
<1>4. CASE softclock_enter \/ softclock_call \/ softclock_exit
  BY <1>4, SoftStep
<1>5. CASE \E f \in Func : \E process \in BOOLEAN : untimeout(f, process)
  BY <1>5, UntimeoutStep
<1>6. CASE \E f \in Func : \E t \in 0 .. MaxTime : timeout(f, t)
  BY <1>6, TimeoutStep
<1> QED
  BY <1>1, <1>2, <1>3, <1>4, <1>5, <1>6 DEF Next

\* The relative times that hardclock(), timeout() and untimeout() keep up denote the times
\* asked for, and no entry of the table is lost: for any functions, any size of the table
\* and any time asked for.
THEOREM RelativeTimesAreExact == Spec => []TimesExact
<1>1. CalloutInv => TimesExact
  <2> SUFFICES ASSUME CalloutInv PROVE TimesExact
    OBVIOUS
  <2>1. /\ TypeOK /\ QueueInv
        /\ Len(calltodo) \in Nat /\ DOMAIN calltodo = 1 .. Len(calltodo)
        /\ \A i \in 1 .. Len(calltodo) : calltodo[i].left \in Int /\ calltodo[i].c_time \in Int
    BY QueueType DEF CalloutInv
  <2>2. ASSUME NEW i \in 1 .. Len(calltodo)
        PROVE  calltodo[i].left = IF i \in DuePrefix THEN calltodo[i].c_time ELSE Elapsed[i]
    <3>1. CASE calltodo[i].left <= 0
      <4>1. i \in DuePrefix
        BY <2>1, <3>1, DueIsLate
      <4>2. Before(calltodo, i) = 0
        BY <2>1, <3>1 DEF Before
      <4>3. calltodo[i].c_time = calltodo[i].left
        BY <2>1, <4>2 DEF QueueInv, Exact
      <4> QED
        BY <4>1, <4>3
    <3>2. CASE ~(calltodo[i].left <= 0)
      <4>1. i \notin DuePrefix
        BY <2>1, <3>2, DueIsLate
      <4>2. Elapsed[i] = Upto(i)
        <5>1. i \in 0 .. Len(calltodo)
          BY <2>1
        <5> QED
          BY <2>1, <5>1, ElapsedIs
      <4>3. Upto(i) = calltodo[i].left
        BY <2>1, <3>2 DEF Upto
      <4> QED
        BY <4>1, <4>2, <4>3
    <3> QED
      BY <3>1, <3>2
  <2> QED
    BY <2>1, <2>2 DEF TimesExact
<1> QED
  BY InitInv, StepInv, <1>1, PTL DEF Spec

\* softclock() calls nothing before its time, and of what is due it takes what has been due
\* for longest.
THEOREM TakenInOrder == Spec => FiredInOrder
<1>1. ASSUME CalloutInv, [Next]_vars
      PROVE  [softclock_take =>
                /\ Head(calltodo).left <= 0
                /\ \A i \in DOMAIN calltodo : Head(calltodo).left <= calltodo[i].left]_vars
  BY <1>1, TakeStep
<1> QED
  BY InitInv, StepInv, <1>1, PTL DEF Spec, FiredInOrder

\* What a process cancelled with untimeout() and nobody armed again is not called.
THEOREM CancelledIsNotCalled == Spec => []CancelIsFinal
<1>1. CalloutInv => CancelIsFinal
  BY DEF CalloutInv, CancelInv, CancelIsFinal
<1> QED
  BY InitInv, StepInv, <1>1, PTL DEF Spec
=============================================================================
