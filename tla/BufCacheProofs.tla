--------------------------- MODULE BufCacheProofs ---------------------------
(***************************************************************************)
(* The buffer cache for any processes, buffers, blocks and vnodes: every   *)
(* buffer, write and unit of memory is accounted for, whoever sleeps will  *)
(* be woken, and not everyone sleeps.  With blocks of one size, the cache  *)
(* is coherent, no version is lost, and a synchronous flush reaches the    *)
(* disk.                                                                   *)
(*                                                                         *)
(* The invariant has a part for each buffer (whose it is, in each of the   *)
(* states that its flags describe) and one for each process (what it has   *)
(* in its hands at each place where it may wait).                          *)
(***************************************************************************)
EXTENDS BufCache, FiniteSetTheorems, FunctionTheorems, SequenceTheorems, WellFoundedInduction, TLAPS

-----------------------------------------------------------------------------
(* The invariant.                                                          *)

\* The places where a process has a buffer.
Holding == {"alloc", "reada", "reada_hit", "biowait", "held"}

BufType ==
  /\ b_flags \in [Buf -> SUBSET Flags] /\ b_blk \in [Buf -> Block \cup {none}]
  /\ b_list \in [Buf -> {"none", "clean", "dirty"}]
  /\ io \in SUBSET Buf
  /\ pc \in [Proc -> Places] /\ req \in [Proc -> Request]
  /\ held \in [Proc -> Buf \cup {none}] /\ nbp \in [Proc -> Buf \cup {none}]

\* No buffer is on the free lists twice.
Once(l) == l \in Seq(Buf) /\ \A i, j \in 1 .. Len(l) : l[i] = l[j] => i = j
OnceEach(e, a, l) ==
  /\ Once(e) /\ Once(a) /\ Once(l)
  /\ Range(e) \cap Range(a) = {} /\ Range(e) \cap Range(l) = {} /\ Range(a) \cap Range(l) = {}
ListsFit == OnceEach(empty, age, lru)
OnLists == Range(empty) \cup Range(age) \cup Range(lru)

\* A buffer is free, in the hands of a process, or of the I/O that will release it;
\* what is on the empty list has no block, what is on the LRU list is not to be aged,
\* what is free is good or has no block, and what is under way is neither delayed nor done.
Owned(b) == \E p \in Proc : held[p] = b
BufFits(b) ==
  /\ b \in OnLists <=> "BUSY" \notin b_flags[b]
  /\ Owned(b) <=> "BUSY" \in b_flags[b] /\ "ASYNC" \notin b_flags[b]
  /\ "ASYNC" \in b_flags[b] => b \in io
  /\ b \in Range(empty) => b_blk[b] = none
  /\ b \in Range(lru) => "AGE" \notin b_flags[b]
  /\ "BUSY" \notin b_flags[b] /\ b_blk[b] # none => ~Bad(b_flags[b])
  /\ b \in io => /\ "BUSY" \in b_flags[b] /\ b_blk[b] # none
                 /\ b_flags[b] \cap {"INVAL", "ERROR", "DELWRI", "DONE"} = {}
                 /\ b_flags[b] \cap {"READ", "DIRTY"} # {}
  /\ Delayed(b) => b_blk[b] # none
  /\ b_list[b] = (IF b_blk[b] = none THEN "none" ELSE IF Delayed(b) THEN "dirty" ELSE "clean")

\* The request of a process, at each place.
ReqFits(p) ==
  /\ held[p] # none <=> pc[p] \in Holding
  /\ pc[p] = "idle" => req[p] = NoReq
  /\ pc[p] \in Holding \cup {"getblk"} => req[p].blk \in Block
  /\ pc[p] \in {"getblk", "alloc"} => req[p].use \in {"bread", "breada", "getblk"}
  /\ pc[p] \in {"reada", "reada_hit"} => req[p].use = "breada"
  /\ pc[p] = "biowait" => req[p].use \in {"bread", "breada", "bwrite", "ibwrite"}
  /\ pc[p] = "held" => req[p].use \in {"bread", "breada", "getblk", "bad"}
  /\ pc[p] \in {"flush", "flushw", "inval"} => req[p].blk \in Vnode
  /\ pc[p] \in {"flush", "flushw"} => req[p].use \in {"flush", "sync"}
  /\ pc[p] = "inval" => req[p].use \in {"inval", "save"}

\* The buffer it holds is that of its block, but for the one it waits for memory
\* with; it waits for I/O that is under way or done, and has no I/O otherwise.
HeldFits(p) ==
  held[p] # none =>
    /\ pc[p] = "alloc" => b_flags[held[p]] = {"INVAL", "BUSY"} /\ b_blk[held[p]] = none
    /\ pc[p] # "alloc" => b_blk[held[p]] = req[p].blk
    /\ pc[p] \in {"reada", "biowait"} =>
         /\ held[p] \in io \/ "DONE" \in b_flags[held[p]]
         /\ b_flags[held[p]] \cap {"INVAL", "DELWRI"} = {}
    /\ pc[p] \in {"reada_hit", "held"} => held[p] \notin io
    /\ pc[p] = "reada_hit" \/ (pc[p] = "held" /\ req[p].use # "bad") => ~Bad(b_flags[held[p]])

OneOwner == \A p, q \in Proc : held[p] = held[q] /\ held[p] # none => p = q

BufInv ==
  /\ BufType /\ ListsFit /\ OneOwner
  /\ \A b \in Buf : BufFits(b)
  /\ \A p \in Proc : ReqFits(p) /\ HeldFits(p)

\* Where a process sleeps for what; "wanted" is only set while no list has a buffer with
\* contents.
Chans == Buf \cup Vnode \cup {"bfreelist", none}
SleepFits(p) ==
  /\ asleep[p] = "bfreelist" => pc[p] \in {"getblk", "reada", "reada_hit"}
  /\ asleep[p] \in Buf => pc[p] \in {"getblk", "inval", "biowait"}
  /\ asleep[p] \in Buf /\ pc[p] = "biowait" => asleep[p] = held[p]
  /\ asleep[p] \in Vnode => pc[p] = "flushw"

\* What SleepersCovered says of one process.
Covered(p) ==
  /\ asleep[p] = "bfreelist" => wanted
  /\ asleep[p] \in Buf /\ pc[p] \in {"getblk", "inval"} =>
        {"BUSY", "WANTED"} \subseteq b_flags[asleep[p]]
  /\ asleep[p] \in Buf /\ pc[p] = "biowait" => asleep[p] \in io
  /\ asleep[p] \in Vnode => asleep[p] \in VBWAIT /\ v_numoutput[asleep[p]] # 0

WaitInv ==
  /\ v_numoutput \in [Vnode -> Nat] /\ VBWAIT \in SUBSET Vnode /\ OutputCounted
  /\ asleep \in [Proc -> Chans] /\ wanted \in BOOLEAN
  /\ wanted => age = <<>> /\ lru = <<>>
  /\ \A p \in Proc : SleepFits(p) /\ Covered(p)

-----------------------------------------------------------------------------
(* The free lists.                                                         *)

\* A set of numbers that is not empty has a least one.
LEMMA Least ==
  ASSUME NEW T \in SUBSET Nat, T # {}
  PROVE  \E i \in T : \A j \in T : i <= j
<1> DEFINE R == OpToRel(<, Nat)
<1>1. IsWellFoundedOn(R, Nat)
  BY NatLessThanWellFounded
<1>2. \A x, y \in Nat : <<y, x>> \in R <=> y < x
  BY DEF OpToRel
<1> HIDE DEF R
<1>3. PICK i \in T : \A j \in T : ~(<<j, i>> \in R)
  BY <1>1, WFMin
<1>4. \A j \in T : i <= j
  <2> TAKE j \in T
  <2>1. ~(j < i)
    BY <1>2, <1>3
  <2> QED
    BY <2>1
<1> QED
  BY <1>4

\* The buffers on a list.
LEMMA RangeIs ==
  ASSUME NEW l \in Seq(Buf)
  PROVE  /\ Len(l) \in Nat /\ DOMAIN l = 1 .. Len(l)
         /\ \A i \in 1 .. Len(l) : l[i] \in Buf
         /\ Range(l) \in SUBSET Buf
         /\ \A b : b \in Range(l) <=> \E i \in 1 .. Len(l) : l[i] = b
<1>1. Len(l) \in Nat /\ DOMAIN l = 1 .. Len(l) /\ \A i \in 1 .. Len(l) : l[i] \in Buf
  BY LenProperties, ElementOfSeq
<1> QED
  BY <1>1 DEF Range

LEMMA NothingOnList ==
  ASSUME NEW l \in Seq(Buf) PROVE Range(l) = {} <=> l = <<>>
<1>1. Len(<<>>) = 0 /\ (l # <<>> => Len(l) \in Nat \ {0})
  BY EmptySeq
<1>2. l # <<>> => 1 \in 1 .. Len(l)
  BY <1>1
<1>3. \A i \in 1 .. 0 : FALSE
  OBVIOUS
<1> QED
  BY <1>1, <1>2, <1>3, RangeIs

LEMMA AppendIs ==
  ASSUME NEW l, Once(l), NEW b \in Buf \ Range(l)
  PROVE  Once(Append(l, b)) /\ Range(Append(l, b)) = Range(l) \cup {b}
<1> DEFINE m == Append(l, b)
<1>1. l \in Seq(Buf) /\ \A i, j \in 1 .. Len(l) : l[i] = l[j] => i = j
  BY DEF Once
<1>2. /\ Len(l) \in Nat /\ m \in Seq(Buf) /\ Len(m) = Len(l) + 1
      /\ \A i \in 1 .. Len(l) : m[i] = l[i] /\ m[i] # b
      /\ m[Len(l) + 1] = b
  BY <1>1, AppendProperties, RangeIs
<1>3. \A i \in 1 .. Len(m) : i \in 1 .. Len(l) \/ i = Len(l) + 1
  BY <1>2
<1>4. Len(l) + 1 \in 1 .. Len(m) /\ \A i \in 1 .. Len(l) : i \in 1 .. Len(m)
  BY <1>2
<1> HIDE DEF m
<1>5. Once(m)
  BY <1>1, <1>2, <1>3 DEF Once
<1>6. \A c : c \in Range(m) <=> c \in Range(l) \/ c = b
  BY <1>1, <1>2, <1>3, <1>4, RangeIs
<1>7. Range(m) = Range(l) \cup {b}
  BY <1>6
<1> QED
  BY <1>5, <1>7 DEF m

\* Two lists one after the other, as getnewbuf() searches them.
LEMMA ConcatIs ==
  ASSUME NEW k, NEW l, Once(k), Once(l), Range(k) \cap Range(l) = {}
  PROVE  Once(k \o l) /\ Range(k \o l) = Range(k) \cup Range(l)
<1> DEFINE m == k \o l
<1>1. /\ k \in Seq(Buf) /\ \A i, j \in 1 .. Len(k) : k[i] = k[j] => i = j
      /\ l \in Seq(Buf) /\ \A i, j \in 1 .. Len(l) : l[i] = l[j] => i = j
  BY DEF Once
<1>2. /\ Len(k) \in Nat /\ Len(l) \in Nat /\ m \in Seq(Buf) /\ Len(m) = Len(k) + Len(l)
      /\ \A i \in 1 .. Len(k) + Len(l) : m[i] = IF i <= Len(k) THEN k[i] ELSE l[i - Len(k)]
  BY <1>1, ConcatProperties, LenProperties
<1> HIDE DEF m
<1>3. \A i \in 1 .. Len(m) : \/ i \in 1 .. Len(k) /\ m[i] = k[i]
                             \/ i - Len(k) \in 1 .. Len(l) /\ i \notin 1 .. Len(k) /\ m[i] = l[i - Len(k)]
  BY <1>2
<1>4. /\ \A i \in 1 .. Len(k) : i \in 1 .. Len(m) /\ m[i] = k[i]
      /\ \A i \in 1 .. Len(l) : i + Len(k) \in 1 .. Len(m) /\ m[i + Len(k)] = l[i]
  BY <1>2
<1>5. \A i \in 1 .. Len(k), j \in 1 .. Len(l) : k[i] # l[j]
  BY <1>1, RangeIs
<1>6. Once(m)
  <2> SUFFICES ASSUME NEW i \in 1 .. Len(m), NEW j \in 1 .. Len(m), m[i] = m[j] PROVE i = j
    BY <1>2 DEF Once
  <2>1. CASE i \in 1 .. Len(k) /\ j \in 1 .. Len(k)
    BY <1>1, <1>4, <2>1
  <2>2. CASE i \notin 1 .. Len(k) /\ j \notin 1 .. Len(k)
    <3>1. i - Len(k) = j - Len(k)
      BY <1>1, <1>3, <2>2
    <3> QED
      BY <1>2, <3>1
  <2>3. CASE (i \in 1 .. Len(k)) # (j \in 1 .. Len(k))
    BY <1>3, <1>4, <1>5, <2>3
  <2> QED
    BY <2>1, <2>2, <2>3
<1>7. \A c : c \in Range(m) <=> c \in Range(k) \/ c \in Range(l)
  <2>1. ASSUME NEW c, c \in Range(m) PROVE c \in Range(k) \/ c \in Range(l)
    <3>1. PICK i \in 1 .. Len(m) : m[i] = c
      BY <1>2, <2>1, RangeIs
    <3> QED
      BY <1>1, <1>3, <3>1, RangeIs
  <2>2. ASSUME NEW c, c \in Range(k) PROVE c \in Range(m)
    <3>1. PICK i \in 1 .. Len(k) : k[i] = c
      BY <1>1, <2>2, RangeIs
    <3>2. i \in 1 .. Len(m) /\ m[i] = c
      BY <1>4, <3>1
    <3> QED
      BY <1>2, <3>2, RangeIs
  <2>3. ASSUME NEW c, c \in Range(l) PROVE c \in Range(m)
    <3>1. PICK i \in 1 .. Len(l) : l[i] = c
      BY <1>1, <2>3, RangeIs
    <3>2. i + Len(k) \in 1 .. Len(m) /\ m[i + Len(k)] = c
      BY <1>4, <3>1
    <3> QED
      BY <1>2, <3>2, RangeIs
  <2> QED
    BY <2>1, <2>2, <2>3
<1>8. Range(m) = Range(k) \cup Range(l)
  BY <1>7
<1> QED
  BY <1>6, <1>8 DEF m

\* binsheadfree().
LEMMA ConsIs ==
  ASSUME NEW l, Once(l), NEW b \in Buf \ Range(l)
  PROVE  Once(<<b>> \o l) /\ Range(<<b>> \o l) = Range(l) \cup {b}
<1> DEFINE k == <<b>>
<1>1. k \in Seq(Buf) /\ Len(k) = 1 /\ k[1] = b
  OBVIOUS
<1> HIDE DEF k
<1>2. \A i \in 1 .. Len(k) : i = 1
  BY <1>1
<1>3. Once(k)
  BY <1>1, <1>2 DEF Once
<1>4. Range(k) = {b}
  <2>1. \A c : c \in Range(k) <=> c = b
    BY <1>1, <1>2, RangeIs
  <2> QED
    BY <2>1
<1>5. Range(k) \cap Range(l) = {}
  BY <1>4
<1>6. Once(k \o l) /\ Range(k \o l) = Range(k) \cup Range(l)
  BY <1>3, <1>5, ConcatIs
<1> QED
  BY <1>4, <1>6 DEF k

LEMMA TailIs ==
  ASSUME NEW l, Once(l), l # <<>>
  PROVE  /\ Head(l) \in Range(l) /\ Once(Tail(l))
         /\ Range(Tail(l)) = Range(l) \ {Head(l)}
<1> DEFINE m == Tail(l)
           h == Head(l)
<1>1. l \in Seq(Buf) /\ \A i, j \in 1 .. Len(l) : l[i] = l[j] => i = j
  BY DEF Once
<1>2. Len(l) \in Nat \ {0}
  BY <1>1, EmptySeq
<1>3. /\ m \in Seq(Buf) /\ Len(m) = Len(l) - 1
      /\ \A i \in 1 .. Len(m) : m[i] = l[i + 1]
  BY <1>1, HeadTailProperties
<1>4. h = l[1]
  BY <1>1
<1> HIDE DEF m, h
<1>5. /\ \A i \in 1 .. Len(m) : i + 1 \in 1 .. Len(l) /\ i + 1 # 1
      /\ \A i \in 1 .. Len(l) : i = 1 \/ (i - 1 \in 1 .. Len(m) /\ (i - 1) + 1 = i)
      /\ 1 \in 1 .. Len(l)
  BY <1>2, <1>3
<1>6. Once(m)
  <2> SUFFICES ASSUME NEW i \in 1 .. Len(m), NEW j \in 1 .. Len(m), m[i] = m[j] PROVE i = j
    BY <1>3 DEF Once
  <2>1. i + 1 = j + 1
    BY <1>1, <1>3, <1>5
  <2> QED
    BY <2>1
<1>7. h \in Range(l)
  BY <1>1, <1>4, <1>5, RangeIs
<1>8. \A c : c \in Range(m) <=> c \in Range(l) /\ c # h
  <2>1. ASSUME NEW c, c \in Range(m) PROVE c \in Range(l) /\ c # h
    <3>1. PICK i \in 1 .. Len(m) : m[i] = c
      BY <1>3, <2>1, RangeIs
    <3> QED
      BY <1>1, <1>3, <1>4, <1>5, <3>1, RangeIs
  <2>2. ASSUME NEW c, c \in Range(l), c # h PROVE c \in Range(m)
    <3>1. PICK i \in 1 .. Len(l) : l[i] = c
      BY <1>1, <2>2, RangeIs
    <3>2. i - 1 \in 1 .. Len(m) /\ (i - 1) + 1 = i
      BY <1>4, <1>5, <2>2, <3>1
    <3>3. m[i - 1] = c
      BY <1>3, <3>1, <3>2
    <3> QED
      BY <1>3, <3>2, <3>3, RangeIs
  <2> QED
    BY <2>1, <2>2
<1>9. Range(m) = Range(l) \ {h}
  BY <1>8
<1> QED
  BY <1>6, <1>7, <1>9 DEF m, h

\* Taking buffers off a list leaves the others on it, once.
LEMMA WithoutIs ==
  ASSUME NEW l, Once(l), NEW S
  PROVE  Once(Without(l, S)) /\ Range(Without(l, S)) = Range(l) \ S
<1> DEFINE Steps(g, n) == g = [i \in 0 .. n |-> IF i = 0 THEN <<>> ELSE
                                 IF l[i] \in S THEN g[i - 1] ELSE Append(g[i - 1], l[i])]
           rest == CHOOSE g : Steps(g, Len(l))
           Kept(n) == {l[i] : i \in 1 .. n} \ S
           Good(n) == Once(rest[n]) /\ Range(rest[n]) = Kept(n)
<1>1. /\ l \in Seq(Buf) /\ Len(l) \in Nat /\ \A i, j \in 1 .. Len(l) : l[i] = l[j] => i = j
      /\ \A i \in 1 .. Len(l) : l[i] \in Buf
  BY RangeIs DEF Once
<1>2. \A n \in 0 .. Len(l) : \E g : Steps(g, n)
  <2> DEFINE T == {n \in 0 .. Len(l) : ~\E g : Steps(g, n)}
  <2> SUFFICES ASSUME T # {} PROVE FALSE
    OBVIOUS
  <2>1. T \in SUBSET Nat
    BY <1>1
  <2>2. PICK m \in T : \A j \in T : m <= j
    BY <2>1, Least
  <2>3. m # 0
    <3> SUFFICES ASSUME m = 0 PROVE FALSE
      OBVIOUS
    <3>1. Steps([i \in 0 .. 0 |-> <<>>], 0)
      OBVIOUS
    <3> QED
      BY <3>1
  <2>4. m - 1 \in 0 .. Len(l) /\ m \in 1 .. Len(l)
    BY <1>1, <2>3
  <2>5. m - 1 \notin T
    <3>1. m - 1 \in T => m <= m - 1
      BY <2>2
    <3>2. ~(m <= m - 1)
      BY <2>4
    <3> QED
      BY <3>1, <3>2
  <2>6. PICK g : Steps(g, m - 1)
    BY <2>4, <2>5
  <2> DEFINE h == [i \in 0 .. m |-> IF i = m THEN IF l[m] \in S THEN g[m - 1] ELSE Append(g[m - 1], l[m])
                                    ELSE g[i]]
  <2>7. \A i \in 0 .. m : h[i] = IF i = 0 THEN <<>> ELSE
                                   IF l[i] \in S THEN h[i - 1] ELSE Append(h[i - 1], l[i])
    <3> TAKE i \in 0 .. m
    <3>1. CASE i = m
      BY <2>4, <3>1
    <3>2. CASE i = 0
      <4>1. 0 \in 0 .. m - 1
        BY <2>4
      <4>2. g[0] = <<>>
        BY <2>6, <4>1
      <4> QED
        BY <2>3, <3>2, <4>2
    <3>3. CASE i \in 1 .. m - 1
      <4>1. i \in 0 .. m - 1 /\ i # 0 /\ i # m /\ i - 1 \in 0 .. m /\ i - 1 # m
        BY <2>4, <3>3
      <4>2. g[i] = IF l[i] \in S THEN g[i - 1] ELSE Append(g[i - 1], l[i])
        BY <2>6, <4>1
      <4> QED
        BY <4>1, <4>2
    <3> QED
      BY <2>4, <3>1, <3>2, <3>3
  <2>8. Steps(h, m)
    BY <2>7
  <2> QED
    BY <2>2, <2>8
<1>3. Steps(rest, Len(l)) /\ Without(l, S) = rest[Len(l)]
  <2>1. \E g : Steps(g, Len(l))
    <3>1. Len(l) \in 0 .. Len(l)
      BY <1>1
    <3> HIDE DEF Steps
    <3> QED
      BY <1>2, <3>1
  <2>2. Steps(rest, Len(l))
    BY <2>1
  <2> QED
    BY <2>2 DEF Without
<1>4. /\ rest[0] = <<>>
      /\ \A n \in 1 .. Len(l) : /\ n - 1 \in 0 .. Len(l)
                                /\ l[n] \in S => rest[n] = rest[n - 1]
                                /\ l[n] \notin S => rest[n] = Append(rest[n - 1], l[n])
  <2>1. 0 \in 0 .. Len(l) /\ \A n \in 1 .. Len(l) : n \in 0 .. Len(l) /\ n # 0 /\ n - 1 \in 0 .. Len(l)
    BY <1>1
  <2> HIDE DEF rest
  <2> QED
    BY <1>3, <2>1
<1> HIDE DEF rest
<1>5. ASSUME NEW n \in 1 .. Len(l), Good(n - 1) PROVE Good(n)
  <2>1. /\ \A i \in 1 .. n : i \in 1 .. n - 1 \/ i = n
        /\ \A i \in 1 .. n - 1 : i \in 1 .. n /\ i \in 1 .. Len(l) /\ i # n
        /\ n \in 1 .. n
    BY <1>1
  <2>2. {l[i] : i \in 1 .. n} = {l[i] : i \in 1 .. n - 1} \cup {l[n]}
    BY <2>1
  <2>3. CASE l[n] \in S
    BY <1>4, <1>5, <2>2, <2>3
  <2>4. CASE l[n] \notin S
    <3>1. Kept(n) = Kept(n - 1) \cup {l[n]}
      BY <2>2, <2>4
    <3>2. l[n] \in Buf \ Range(rest[n - 1])
      BY <1>1, <1>5, <2>1
    <3> HIDE DEF Kept
    <3>3. rest[n] = Append(rest[n - 1], l[n])
      BY <1>4, <2>4
    <3> QED
      BY <1>5, <3>1, <3>2, <3>3, AppendIs
  <2> QED
    BY <2>3, <2>4
<1>6. Good(0)
  <2>1. <<>> \in Seq(Buf) /\ Len(<<>>) = 0 /\ Range(<<>>) = {}
    BY EmptySeq, NothingOnList
  <2>2. Once(<<>>)
    BY <2>1 DEF Once
  <2>3. Kept(0) = {}
    OBVIOUS
  <2> QED
    BY <1>4, <2>1, <2>2, <2>3
<1> HIDE DEF Good
<1>7. Good(Len(l))
  <2> DEFINE T == {n \in 0 .. Len(l) : ~Good(n)}
  <2> SUFFICES ASSUME Len(l) \in T PROVE FALSE
    BY <1>1
  <2>1. T \in SUBSET Nat /\ T # {}
    BY <1>1
  <2>2. PICK m \in T : \A j \in T : m <= j
    BY <2>1, Least
  <2>3. m \in 1 .. Len(l) /\ m - 1 \in 0 .. Len(l)
    BY <1>1, <1>6, <2>2
  <2>4. m - 1 \notin T
    <3>1. m - 1 \in T => m <= m - 1
      BY <2>2
    <3>2. ~(m <= m - 1)
      BY <2>3
    <3> QED
      BY <3>1, <3>2
  <2> QED
    BY <1>5, <2>2, <2>3, <2>4
<1>8. Kept(Len(l)) = Range(l) \ S
  <2>1. \A c : c \in {l[i] : i \in 1 .. Len(l)} <=> c \in Range(l)
    BY <1>1, RangeIs
  <2> QED
    BY <2>1
<1> QED
  BY <1>3, <1>7, <1>8 DEF Good

\* The step takes the buffers of S off the lists.
TakenOff(S) ==
  /\ ListsFit' /\ OnLists' = OnLists \ S
  /\ Range(empty') \subseteq Range(empty) \ S
  /\ Range(age') \subseteq Range(age) /\ Range(lru') \subseteq Range(lru)

LEMMA WithoutBoth ==
  ASSUME ListsFit, NEW S \in SUBSET Buf, S \cap Range(empty) = {},
         empty' = empty, age' = Without(age, S), lru' = Without(lru, S)
  PROVE  TakenOff(S)
<1>1. Once(empty) /\ Once(age) /\ Once(lru)
  BY DEF ListsFit, OnceEach
<1>2. /\ Once(age') /\ Range(age') = Range(age) \ S
      /\ Once(lru') /\ Range(lru') = Range(lru) \ S
  BY <1>1, WithoutIs
<1>3. Once(empty') /\ Range(empty') = Range(empty)
  BY <1>1
<1>4. ListsFit'
  BY <1>2, <1>3 DEF ListsFit, OnceEach
<1>5. OnLists' = OnLists \ S
  BY <1>2, <1>3 DEF OnLists
<1> QED
  BY <1>2, <1>3, <1>4, <1>5 DEF TakenOff

\* The queue that getnewbuf() searches.
LEMMA QueueIs ==
  ASSUME ListsFit
  PROVE  Once(Queue) /\ Range(Queue) = Range(age) \cup Range(lru)
BY ConcatIs DEF ListsFit, OnceEach, Queue

\* The delayed writes that getnewbuf() starts are free buffers with contents.
LEMMA PushedAre ==
  ASSUME ListsFit, NEW n
  PROVE  /\ PushedBy(n) \in SUBSET (Range(age) \cup Range(lru))
         /\ PushedBy(n) \in SUBSET Buf
         /\ \A c \in PushedBy(n) : Delayed(c)
<1>1. /\ Queue \in Seq(Buf) /\ DOMAIN Queue = 1 .. Len(Queue) /\ Len(Queue) \in Nat
      /\ Range(Queue) \in SUBSET Buf
      /\ \A i \in 1 .. Len(Queue) : Queue[i] \in Range(Queue)
  BY QueueIs, RangeIs DEF Once
<1>2. ASSUME NEW c \in PushedBy(n) PROVE c \in Range(Queue) /\ Delayed(c)
  <2>1. PICK i \in DOMAIN Queue : c = Queue[i] /\ i <= n /\ \A j \in 1 .. i : Delayed(Queue[j])
    BY DEF PushedBy
  <2>2. i \in 1 .. i
    BY <1>1, <2>1
  <2> QED
    BY <1>1, <2>1, <2>2
<1> QED
  BY <1>1, <1>2, QueueIs

\* Where there is no victim everything in the queue is delayed, and pushed out.
LEMMA AllPushed ==
  ASSUME ListsFit, Victims = {}
  PROVE  Pushed = Range(age) \cup Range(lru)
<1>1. /\ Queue \in Seq(Buf) /\ DOMAIN Queue = 1 .. Len(Queue) /\ Len(Queue) \in Nat
      /\ \A c : c \in Range(Queue) <=> \E i \in 1 .. Len(Queue) : Queue[i] = c
  BY QueueIs, RangeIs DEF Once
<1>2. ASSUME NEW i \in 1 .. Len(Queue) PROVE Delayed(Queue[i])
  <2> DEFINE T == {j \in 1 .. Len(Queue) : ~Delayed(Queue[j])}
  <2> SUFFICES ASSUME i \in T PROVE FALSE
    OBVIOUS
  <2>1. T \in SUBSET Nat
    BY <1>1
  <2>2. PICK m \in T : \A j \in T : m <= j
    BY <2>1, Least
  <2>3. \A j \in 1 .. m - 1 : Delayed(Queue[j])
    BY <1>1, <2>1, <2>2
  <2>4. m \in Victims
    BY <1>1, <2>2, <2>3 DEF Victims
  <2> QED
    BY <2>4
<1>3. \A c : c \in Pushed <=> c \in Range(Queue)
  <2>1. \A i \in 1 .. Len(Queue) : i <= Len(Queue) /\ \A j \in 1 .. i : j \in 1 .. Len(Queue)
    BY <1>1
  <2> QED
    BY <1>1, <1>2, <2>1 DEF Pushed, PushedBy
<1> QED
  BY <1>3, QueueIs

\* What getnewbuf() comes back with is a free buffer that is not delayed, off the lists
\* like the writes that were started.
LEMMA NewBufIs ==
  ASSUME BufInv, NEW b \in Buf, NEW n, NEW sz, NewBuf(b, PushedBy(n), sz)
  PROVE  /\ "BUSY" \notin b_flags[b] /\ ~Delayed(b) /\ b \notin PushedBy(n)
         /\ TakenOff(PushedBy(n) \cup {b})
<1> DEFINE S == PushedBy(n)
<1>0. /\ ListsFit /\ BufFits(b) /\ Once(empty) /\ Once(age) /\ Once(lru)
      /\ Range(empty) \cap Range(age) = {} /\ Range(empty) \cap Range(lru) = {}
      /\ Range(age) \cap Range(lru) = {}
  BY DEF BufInv, ListsFit, OnceEach
<1>1. /\ S \in SUBSET (Range(age) \cup Range(lru)) /\ S \in SUBSET Buf /\ \A c \in S : Delayed(c)
  BY <1>0, PushedAre
<1> HIDE DEF S
<1>2. ASSUME empty # <<>>, b = Head(empty), empty' = Tail(empty),
             age' = Without(age, S), lru' = Without(lru, S)
      PROVE  b \in OnLists /\ ~Delayed(b) /\ b \notin S /\ TakenOff(S \cup {b})
  <2>1. b \in Range(empty) /\ Once(empty') /\ Range(empty') = Range(empty) \ {b}
    BY <1>0, <1>2, TailIs
  <2>2. b \in OnLists /\ ~Delayed(b)
    BY <1>0, <2>1 DEF OnLists, BufFits
  <2>3. /\ Once(age') /\ Range(age') = Range(age) \ S
        /\ Once(lru') /\ Range(lru') = Range(lru) \ S
    BY <1>0, <1>2, WithoutIs
  <2>4. b \notin S
    BY <1>1, <2>2
  <2>5. ListsFit'
    BY <1>0, <2>1, <2>3 DEF ListsFit, OnceEach
  <2>6. OnLists' = OnLists \ (S \cup {b})
    BY <1>0, <1>1, <2>1, <2>3 DEF OnLists
  <2>7. Range(empty') \subseteq Range(empty) \ (S \cup {b})
    BY <1>0, <1>1, <2>1
  <2> QED
    BY <2>2, <2>3, <2>4, <2>5, <2>6, <2>7 DEF TakenOff
<1>3. ASSUME NEW i \in Victims, b = Queue[i], empty' = empty,
             age' = Without(age, S \cup {b}), lru' = Without(lru, S \cup {b})
      PROVE  b \in OnLists /\ ~Delayed(b) /\ b \notin S /\ TakenOff(S \cup {b})
  <2>1. b \in Range(age) \cup Range(lru) /\ ~Delayed(b)
    <3>1. i \in DOMAIN Queue /\ ~Delayed(Queue[i])
      BY <1>3 DEF Victims
    <3>2. b \in Range(Queue)
      BY <1>3, <3>1 DEF Range
    <3> QED
      BY <1>0, <1>3, <3>1, <3>2, QueueIs
  <2>2. S \cup {b} \in SUBSET Buf /\ (S \cup {b}) \cap Range(empty) = {}
    BY <1>0, <1>1, <2>1
  <2>3. TakenOff(S \cup {b})
    BY <1>0, <1>3, <2>2, WithoutBoth
  <2> QED
    BY <1>1, <2>1, <2>3 DEF OnLists
<1>4. b \in OnLists /\ ~Delayed(b) /\ b \notin S /\ TakenOff(S \cup {b})
  <2>1. NewBuf(b, S, sz)
    BY DEF S
  <2> QED
    BY <1>2, <1>3, <2>1 DEF NewBuf, MayConstitute
<1> QED
  BY <1>0, <1>4 DEF S, BufFits

-----------------------------------------------------------------------------
(* What a step does to the buffers and processes that it is not about.     *)

\* Nothing has happened to buffer c.
Same(c) ==
  /\ b_flags'[c] = b_flags[c] /\ b_blk'[c] = b_blk[c] /\ b_list'[c] = b_list[c]
  /\ c \in io' <=> c \in io
  /\ c \in OnLists' <=> c \in OnLists
  /\ c \in Range(empty') => c \in Range(empty)
  /\ c \in Range(lru') => c \in Range(lru)

\* A delayed write was started.
Push(c) ==
  /\ b_flags'[c] = Started(b_flags[c] \cup {"BUSY"}, TRUE)
  /\ b_blk'[c] = b_blk[c] /\ b_list'[c] = "clean"
  /\ c \in io' /\ c \notin OnLists'

\* Nothing has happened to buffer c that its owner would notice.
Kept(c) ==
  /\ b_blk'[c] = b_blk[c] /\ (c \in io' <=> c \in io)
  /\ \A f \in {"INVAL", "ERROR", "DELWRI", "DONE"} : f \in b_flags'[c] <=> f \in b_flags[c]
  /\ b_blk[c] = none => b_flags'[c] = b_flags[c]

LEMMA SameFits ==
  ASSUME NEW c \in Buf, BufFits(c), Same(c), Owned(c)' <=> Owned(c)
  PROVE  BufFits(c)'
BY DEF BufFits, Same, Delayed, Bad

LEMMA PushFits ==
  ASSUME NEW c \in Buf, BufFits(c), Push(c), Owned(c)' <=> Owned(c), Delayed(c), "BUSY" \notin b_flags[c]
  PROVE  BufFits(c)'
<1>1. /\ {"BUSY", "ASYNC", "DIRTY"} \subseteq b_flags'[c]
      /\ b_flags'[c] \cap {"INVAL", "ERROR", "DELWRI", "DONE"} = {}
  BY DEF BufFits, Push, Started, Delayed, Bad
<1>2. c \notin Range(empty') /\ c \notin Range(lru')
  BY DEF Push, OnLists
<1>3. b_blk[c] # none /\ b_blk'[c] # none /\ c \in io' /\ c \notin OnLists' /\ b_list'[c] = "clean" /\ ~Owned(c)'
  BY DEF BufFits, Push
<1> QED
  BY <1>1, <1>2, <1>3 DEF BufFits, Delayed

LEMMA KeptFits ==
  ASSUME NEW q \in Proc, ReqFits(q), HeldFits(q),
         pc'[q] = pc[q], req'[q] = req[q], held'[q] = held[q],
         held[q] # none => Kept(held[q])
  PROVE  ReqFits(q)' /\ HeldFits(q)'
<1>1. ReqFits(q)'
  BY DEF ReqFits
<1>2. HeldFits(q)'
  BY DEF HeldFits, Kept, Bad
<1> QED
  BY <1>1, <1>2

\* A step of process p about the buffers of B that starts the writes of S.
LEMMA BufStep ==
  ASSUME BufInv, NEW p \in Proc, NEW B \in SUBSET Buf, NEW S \in SUBSET (Buf \ B),
         BufType', ListsFit',
         \A c \in S : Delayed(c) /\ "BUSY" \notin b_flags[c] /\ Push(c),
         \A c \in Buf \ (S \cup B) : Same(c),
         \A q \in Proc \ {p} : pc'[q] = pc[q] /\ req'[q] = req[q] /\ held'[q] = held[q],
         \A c \in Buf \ B : held'[p] = c <=> held[p] = c,
         held'[p] \in B => \A q \in Proc \ {p} : held[q] # held'[p],
         \A b \in B : Kept(b) \/ \A q \in Proc \ {p} : held[q] # b,
         \A b \in B : BufFits(b)',
         ReqFits(p)', HeldFits(p)'
  PROVE  BufInv'
<1>0. BufType /\ OneOwner /\ \A c \in Buf : BufFits(c)
  BY DEF BufInv
<1>1. \A c \in Buf \ B : Owned(c)' <=> Owned(c)
  BY DEF Owned
<1>2. ASSUME NEW c \in Buf PROVE BufFits(c)'
  <2>1. CASE c \in B
    BY <2>1
  <2>2. CASE c \in S
    BY <1>0, <1>1, <2>2, PushFits
  <2>3. CASE c \notin S \cup B
    BY <1>0, <1>1, <2>3, SameFits
  <2> QED
    BY <2>1, <2>2, <2>3
<1>3. ASSUME NEW q \in Proc PROVE ReqFits(q)' /\ HeldFits(q)'
  <2>1. CASE q = p
    BY <2>1
  <2>2. CASE q # p /\ held[q] # none
    <3>1. PICK c \in Buf : c = held[q]
      BY <1>0, <2>2 DEF BufType
    <3>2. Kept(c)
      <4>1. CASE c \in B
        BY <2>2, <3>1, <4>1
      <4>2. CASE c \notin B
        <5>1. Owned(c)
          BY <3>1 DEF Owned
        <5>2. c \notin S
          BY <1>0, <5>1 DEF BufFits
        <5>3. Same(c)
          BY <4>2, <5>2
        <5> QED
          BY <5>3 DEF Same, Kept
      <4> QED
        BY <4>1, <4>2
    <3>3. ReqFits(q) /\ HeldFits(q) /\ pc'[q] = pc[q] /\ req'[q] = req[q] /\ held'[q] = held[q]
      BY <2>2 DEF BufInv
    <3> QED
      BY <3>1, <3>2, <3>3, KeptFits
  <2>3. CASE q # p /\ held[q] = none
    <3>1. ReqFits(q) /\ HeldFits(q) /\ pc'[q] = pc[q] /\ req'[q] = req[q] /\ held'[q] = held[q]
      BY <2>3 DEF BufInv
    <3> QED
      BY <2>3, <3>1, KeptFits
  <2> QED
    BY <2>1, <2>2, <2>3
<1>4. OneOwner'
  <2> SUFFICES ASSUME NEW q \in Proc, NEW r \in Proc, held'[q] = held'[r], held'[q] # none, q # r
               PROVE  FALSE
    BY DEF OneOwner
  <2>1. CASE q # p /\ r # p
    BY <1>0, <2>1 DEF OneOwner
  <2>2. ASSUME NEW s \in Proc \ {p}, held'[s] = held'[p], held'[p] # none PROVE FALSE
    <3>1. held[s] = held'[p]
      BY <2>2
    <3>2. CASE held'[p] \in B
      BY <3>1, <3>2
    <3>3. CASE held'[p] \notin B
      <4>1. held'[p] \in Buf
        BY <2>2 DEF BufType
      <4>2. held[p] = held'[p]
        BY <3>3, <4>1
      <4> QED
        BY <1>0, <2>2, <3>1, <4>2 DEF OneOwner
    <3> QED
      BY <3>2, <3>3
  <2> QED
    BY <2>1, <2>2
<1> QED
  BY <1>2, <1>3, <1>4 DEF BufInv

\* The same, for one buffer and no pushed writes.
LEMMA OneBufStep ==
  ASSUME BufInv, NEW p \in Proc, NEW b \in Buf,
         BufType', ListsFit',
         \A c \in Buf \ {b} : Same(c),
         \A q \in Proc \ {p} : pc'[q] = pc[q] /\ req'[q] = req[q] /\ held'[q] = held[q],
         \A c \in Buf \ {b} : held'[p] = c <=> held[p] = c,
         held'[p] = b => \A q \in Proc \ {p} : held[q] # b,
         Kept(b) \/ \A q \in Proc \ {p} : held[q] # b,
         BufFits(b)',
         ReqFits(p)', HeldFits(p)'
  PROVE  BufInv'
<1> DEFINE B == {b}
           S == {}
<1>1. B \in SUBSET Buf /\ S \in SUBSET (Buf \ B)
  OBVIOUS
<1>2. \A c \in S : Delayed(c) /\ "BUSY" \notin b_flags[c] /\ Push(c)
  OBVIOUS
<1>3. \A c \in Buf \ (S \cup B) : Same(c)
  OBVIOUS
<1>4. \A c \in Buf \ B : held'[p] = c <=> held[p] = c
  OBVIOUS
<1>5. held'[p] \in B => \A q \in Proc \ {p} : held[q] # held'[p]
  OBVIOUS
<1>6. \A c \in B : Kept(c) \/ \A q \in Proc \ {p} : held[q] # c
  OBVIOUS
<1>7. \A c \in B : BufFits(c)'
  OBVIOUS
<1> HIDE DEF B, S
<1> QED
  BY <1>1, <1>2, <1>3, <1>4, <1>5, <1>6, <1>7, BufStep

\* A step of process p that leaves the buffers alone.
LEMMA NoBufStep ==
  ASSUME BufInv, NEW p \in Proc,
         UNCHANGED <<b_flags, b_blk, b_list, io, lists, held>>,
         \A q \in Proc \ {p} : pc'[q] = pc[q] /\ req'[q] = req[q],
         BufType', ReqFits(p)', HeldFits(p)'
  PROVE  BufInv'
<1> DEFINE B == {}
           S == {}
<1>0. ListsFit /\ OnLists' = OnLists /\ empty' = empty /\ lru' = lru
  BY DEF BufInv, OnLists, lists
<1>1. B \in SUBSET Buf /\ S \in SUBSET (Buf \ B) /\ ListsFit'
  BY <1>0 DEF ListsFit, OnceEach, lists
<1>2. \A c \in S : Delayed(c) /\ "BUSY" \notin b_flags[c] /\ Push(c)
  OBVIOUS
<1>3. \A c \in Buf \ (S \cup B) : Same(c)
  BY <1>0 DEF Same
<1>4. \A q \in Proc \ {p} : pc'[q] = pc[q] /\ req'[q] = req[q] /\ held'[q] = held[q]
  OBVIOUS
<1>5. \A c \in Buf \ B : held'[p] = c <=> held[p] = c
  OBVIOUS
<1>6. held'[p] \in B => \A q \in Proc \ {p} : held[q] # held'[p]
  OBVIOUS
<1>7. /\ \A c \in B : Kept(c) \/ \A q \in Proc \ {p} : held[q] # c
      /\ \A c \in B : BufFits(c)'
  OBVIOUS
<1> HIDE DEF B, S
<1> QED
  BY <1>1, <1>2, <1>3, <1>4, <1>5, <1>6, <1>7, BufStep

-----------------------------------------------------------------------------
(* The steps keep BufInv.                                                  *)

\* Someone marks a buffer that is valid or on a vnode, as wanted or as used.
LEMMA MarkStep ==
  ASSUME BufInv, NEW p \in Proc, NEW b \in Buf, NEW F \in SUBSET Flags,
         \A f \in F : f \in b_flags[b] \/ f \in {"WANTED", "CACHE"},
         \A f \in b_flags[b] : f \in F \/ f = "AGE",
         b_blk[b] # none, b_flags' = [b_flags EXCEPT ![b] = F],
         UNCHANGED <<b_blk, b_list, lists, io, held>>,
         \A q \in Proc \ {p} : pc'[q] = pc[q] /\ req'[q] = req[q],
         BufType', ReqFits(p)',
         held[p] # none => /\ req'[p] = req[p] /\ pc[p] \in {"reada", "reada_hit"}
                           /\ pc'[p] = IF pc[p] = "reada" THEN "biowait" ELSE "held"
  PROVE  BufInv'
<1>0. /\ BufType /\ BufFits(b) /\ ListsFit /\ OneOwner
      /\ ReqFits(p) /\ HeldFits(p) /\ b_flags[b] \in SUBSET Flags
  BY DEF BufInv, BufType
<1>1. b_flags'[b] = F /\ \A c \in Buf \ {b} : b_flags'[c] = b_flags[c]
  BY <1>0 DEF BufType
<1>2. OnLists' = OnLists /\ ListsFit' /\ empty' = empty /\ lru' = lru
  BY <1>0 DEF OnLists, ListsFit, OnceEach, lists
<1>3. \A c \in Buf \ {b} : Same(c)
  BY <1>1, <1>2 DEF Same
<1>4. Kept(b)
  BY <1>1 DEF Kept
<1>5. BufFits(b)'
  <2>1. \A f \in Flags \ {"WANTED", "CACHE", "AGE"} : f \in F <=> f \in b_flags[b]
    BY <1>0
  <2>2. Owned(b)' <=> Owned(b)
    BY DEF Owned
  <2> QED
    BY <1>0, <1>1, <1>2, <2>1, <2>2 DEF BufFits, Delayed, Bad, Flags
<1>6. HeldFits(p)'
  <2> SUFFICES ASSUME held[p] # none PROVE HeldFits(p)'
    BY DEF HeldFits
  <2>1. PICK c \in Buf : c = held[p]
    BY <1>0 DEF BufType
  <2>2. /\ \A f \in {"INVAL", "ERROR", "DELWRI", "DONE"} : f \in b_flags'[c] <=> f \in b_flags[c]
        /\ b_blk'[c] = b_blk[c] /\ (c \in io' <=> c \in io)
    BY <1>3, <1>4 DEF Kept, Same
  <2> QED
    BY <1>0, <2>1, <2>2 DEF HeldFits, Bad
<1>7. \A c \in Buf \ {b} : held'[p] = c <=> held[p] = c
  OBVIOUS
<1>8. held'[p] = b => \A q \in Proc \ {p} : held[q] # b
  BY <1>0, BufAssumption DEF OneOwner
<1>9. \A q \in Proc \ {p} : pc'[q] = pc[q] /\ req'[q] = req[q] /\ held'[q] = held[q]
  OBVIOUS
<1> QED
  BY <1>2, <1>3, <1>4, <1>5, <1>6, <1>7, <1>8, <1>9, OneBufStep

\* Only process p's place and request change.
LEMMA OthersStay ==
  ASSUME BufType, NEW p \in Proc, NEW x, NEW r, NEW h,
         pc' = [pc EXCEPT ![p] = x], req' = [req EXCEPT ![p] = r], held' = [held EXCEPT ![p] = h]
  PROVE  /\ pc'[p] = x /\ req'[p] = r /\ held'[p] = h
         /\ \A q \in Proc \ {p} : pc'[q] = pc[q] /\ req'[q] = req[q] /\ held'[q] = held[q]
BY DEF BufType

\* Nobody has a buffer that is free.
LEMMA FreeUnowned ==
  ASSUME BufInv, NEW b \in Buf, "BUSY" \notin b_flags[b]
  PROVE  /\ \A q \in Proc : held[q] # b
         /\ b \in OnLists /\ b \notin io /\ "ASYNC" \notin b_flags[b]
         /\ b_blk[b] # none => ~Bad(b_flags[b])
         /\ Delayed(b) => b_blk[b] # none
BY DEF BufInv, BufFits, Owned

\* Nobody else has the buffer of p.
LEMMA OwnerOnly ==
  ASSUME BufInv, NEW p \in Proc, held[p] # none
  PROVE  /\ held[p] \in Buf /\ \A q \in Proc \ {p} : held[q] # held[p]
         /\ "BUSY" \in b_flags[held[p]] /\ "ASYNC" \notin b_flags[held[p]]
         /\ held[p] \notin OnLists /\ BufFits(held[p])
BY DEF BufInv, BufType, OneOwner, BufFits, Owned

\* getblk() finds the block in a busy buffer.
LEMMA HitBusyStep ==
  ASSUME BufInv, NEW p \in Proc, NEW k \in Block, NEW use \in {"bread", "breada", "getblk"},
         pc[p] \in {"idle", "getblk"}, hit_busy(p, k),
         req' = [req EXCEPT ![p] = [use |-> use, blk |-> k]], nbp' = nbp
  PROVE  BufInv'
<1>0. BufType /\ ReqFits(p) /\ held[p] = none
  BY DEF BufInv, ReqFits, Holding
<1>1. PICK b \in Buf : /\ b_blk[b] = k /\ k # none
                       /\ b_flags' = [b_flags EXCEPT ![b] = (@ \ {"AGE"}) \cup {"WANTED", "CACHE"}]
                       /\ pc' = [pc EXCEPT ![p] = "getblk"]
                       /\ UNCHANGED <<b_blk, b_list, lists, io, held>>
  BY BufAssumption DEF hit_busy, incore, Go
<1> DEFINE F == (b_flags[b] \ {"AGE"}) \cup {"WANTED", "CACHE"}
<1>2. F \in SUBSET Flags /\ b_flags' = [b_flags EXCEPT ![b] = F]
  BY <1>0, <1>1 DEF BufType, Flags
<1>3. /\ pc'[p] = "getblk" /\ req'[p] = [use |-> use, blk |-> k]
      /\ \A q \in Proc \ {p} : pc'[q] = pc[q] /\ req'[q] = req[q]
  BY <1>0, <1>1 DEF BufType
<1>4. BufType'
  BY <1>0, <1>1, <1>2 DEF BufType, Places, Request
<1>5. ReqFits(p)'
  BY <1>0, <1>1, <1>3 DEF ReqFits, Holding
<1>6. /\ \A f \in F : f \in b_flags[b] \/ f \in {"WANTED", "CACHE"}
      /\ \A f \in b_flags[b] : f \in F \/ f = "AGE"
  OBVIOUS
<1> HIDE DEF F
<1> QED
  BY <1>0, <1>1, <1>2, <1>3, <1>4, <1>5, <1>6, MarkStep

\* getblk() finds it in a free buffer.
HitFreeDoes(p, k, use, b, F) ==
  /\ b_blk[b] = k /\ "BUSY" \notin b_flags[b] /\ b \notin io /\ ~Bad(b_flags[b]) /\ "ASYNC" \notin b_flags[b]
  /\ F = (b_flags[b] \ {"AGE"}) \cup {"BUSY", "CACHE"}
  /\ b_flags' = [b_flags EXCEPT ![b] = F] /\ io' = io
  /\ held' = [held EXCEPT ![p] = b]
  /\ pc' = [pc EXCEPT ![p] = IF use = "breada" THEN "reada_hit" ELSE "held"]
  /\ UNCHANGED <<b_blk, b_list, empty, wanted, v_numoutput, asleep>>
  /\ \A q \in Proc : held[q] # b
  /\ TakenOff({b})

LEMMA HitFreeIs ==
  ASSUME BufInv, NEW p \in Proc, NEW k \in Block, NEW use \in {"bread", "breada", "getblk"},
         hit_free(p, k, use)
  PROVE  \E b \in Buf, F \in SUBSET Flags : HitFreeDoes(p, k, use, b, F)
<1>0. BufType /\ ListsFit /\ k # none
  BY BufAssumption DEF BufInv
<1>1. PICK b \in incore(k) :
        /\ "BUSY" \notin b_flags[b]
        /\ Deliver(p, b, (b_flags[b] \ {"AGE"}) \cup {"BUSY", "CACHE"}, {}, use)
        /\ age' = Without(age, {b}) /\ lru' = Without(lru, {b})
        /\ UNCHANGED <<b_blk, b_list, empty, wanted, v_numoutput, asleep>>
  BY DEF hit_free
<1>2. b \in Buf /\ b_blk[b] = k /\ "INVAL" \notin b_flags[b] /\ BufFits(b)
  BY <1>1 DEF incore, BufInv
<1>3. (\A q \in Proc : held[q] # b) /\ b \in OnLists /\ b \notin io /\ "ASYNC" \notin b_flags[b] /\ ~Bad(b_flags[b])
  BY <1>0, <1>1, <1>2, FreeUnowned
<1> DEFINE F == (b_flags[b] \ {"AGE"}) \cup {"BUSY", "CACHE"}
<1>4. ~Reads(use, F)
  BY <1>2 DEF Reads
<1>5. PushedFlags({}) = b_flags
  BY <1>0 DEF PushedFlags, BufType
<1>6. /\ b_flags' = [b_flags EXCEPT ![b] = F] /\ io' = io
      /\ held' = [held EXCEPT ![p] = b]
      /\ pc' = [pc EXCEPT ![p] = IF use = "breada" THEN "reada_hit" ELSE "held"]
  BY <1>1, <1>4, <1>5 DEF Deliver, Go
<1>7. F \in SUBSET Flags
  BY <1>0, <1>2 DEF BufType, Flags
<1>8. TakenOff({b})
  <2> DEFINE S == {b}
  <2>1. b \notin Range(empty)
    BY <1>0, <1>2 DEF BufFits
  <2>2. /\ S \in SUBSET Buf /\ S \cap Range(empty) = {} /\ empty' = empty
        /\ age' = Without(age, S) /\ lru' = Without(lru, S)
    BY <1>1, <1>2, <2>1
  <2> HIDE DEF S
  <2>3. TakenOff(S)
    BY <1>0, <2>2, WithoutBoth
  <2> QED
    BY <2>3 DEF S
<1>9. HitFreeDoes(p, k, use, b, F)
  BY <1>1, <1>2, <1>3, <1>6, <1>8 DEF HitFreeDoes
<1> HIDE DEF F
<1> QED
  BY <1>2, <1>7, <1>9

LEMMA HitFreeStep ==
  ASSUME BufInv, NEW p \in Proc, NEW k \in Block, NEW use \in {"bread", "breada", "getblk"},
         pc[p] \in {"idle", "getblk"}, hit_free(p, k, use),
         req' = [req EXCEPT ![p] = [use |-> use, blk |-> k]], nbp' = nbp
  PROVE  BufInv'
<1>0. BufType /\ ReqFits(p) /\ held[p] = none /\ k # none
  BY BufAssumption DEF BufInv, ReqFits, Holding
<1>1. PICK b \in Buf, F \in SUBSET Flags : HitFreeDoes(p, k, use, b, F)
  BY HitFreeIs
<1> DEFINE place == IF use = "breada" THEN "reada_hit" ELSE "held"
<1>2. BufFits(b) /\ "BUSY" \notin b_flags[b] /\ b_blk[b] = k /\ \A q \in Proc : held[q] # b
  BY <1>1 DEF BufInv, HitFreeDoes
<1>3. /\ b_flags'[b] = F /\ (\A c \in Buf \ {b} : b_flags'[c] = b_flags[c]) /\ b_flags' \in [Buf -> SUBSET Flags]
      /\ io' = io /\ b_blk' = b_blk /\ b_list' = b_list
  BY <1>0, <1>1 DEF BufType, HitFreeDoes
<1>4. held' = [held EXCEPT ![p] = b] /\ pc' = [pc EXCEPT ![p] = place]
  BY <1>1 DEF HitFreeDoes
<1>5. /\ pc'[p] = place /\ req'[p] = [use |-> use, blk |-> k] /\ held'[p] = b
      /\ \A q \in Proc \ {p} : pc'[q] = pc[q] /\ req'[q] = req[q] /\ held'[q] = held[q]
  BY <1>0, <1>4 DEF BufType
<1>6. ListsFit' /\ OnLists' = OnLists \ {b} /\ (\A c \in Buf : c \in Range(empty') => c \in Range(empty))
      /\ (\A c \in Buf : c \in Range(lru') => c \in Range(lru))
  BY <1>1 DEF HitFreeDoes, TakenOff
<1>7. BufType'
  BY <1>0, <1>3, <1>4 DEF BufType, Places, Request
<1>8. \A c \in Buf \ {b} : Same(c)
  BY <1>3, <1>6 DEF Same
<1>9. /\ "BUSY" \in F /\ "ASYNC" \notin F /\ ~Bad(F) /\ ("DELWRI" \in F <=> Delayed(b)) /\ b \notin io
  BY <1>1 DEF HitFreeDoes, Bad, Delayed
<1>10. BufFits(b)'
  <2>1. b \notin OnLists' /\ b \notin Range(empty') /\ b \notin Range(lru') /\ b \notin io' /\ Owned(b)'
    BY <1>3, <1>5, <1>6, <1>9 DEF Owned, OnLists
  <2> QED
    BY <1>0, <1>2, <1>3, <1>9, <2>1 DEF BufFits, Delayed
<1>11. ReqFits(p)'
  BY <1>0, <1>5, BufAssumption DEF ReqFits, Holding
<1>12. HeldFits(p)'
  BY <1>2, <1>3, <1>5, <1>9 DEF HeldFits, Bad
<1>13. \A c \in Buf \ {b} : held'[p] = c <=> held[p] = c
  BY <1>0, <1>5, BufAssumption
<1> QED
  BY <1>2, <1>5, <1>6, <1>7, <1>8, <1>10, <1>11, <1>12, <1>13, OneBufStep

\* Buffer b is taken and the writes of S are started.
Takes(b, S, F, x, y, I) ==
  /\ "BUSY" \notin b_flags[b] /\ b \notin S
  /\ S \subseteq OnLists /\ \A c \in S : Delayed(c)
  /\ TakenOff(S \cup {b})
  /\ b_flags' = [PushedFlags(S) EXCEPT ![b] = F]
  /\ b_list' = [PushedList(S) EXCEPT ![b] = x]
  /\ b_blk' = [b_blk EXCEPT ![b] = y]
  /\ io' = (io \cup S) \cup I

\* What that means, buffer by buffer.
Taken(b, S, F, x, y, I) ==
  /\ b \notin S /\ \A c \in S : Delayed(c) /\ "BUSY" \notin b_flags[c] /\ c \notin io /\ Push(c)
  /\ \A c \in Buf \ (S \cup {b}) : Same(c)
  /\ b_flags'[b] = F /\ b_list'[b] = x /\ b_blk'[b] = y
  /\ "BUSY" \notin b_flags[b] /\ b \notin io
  /\ (b \in io' <=> b \in I) /\ b \notin OnLists' /\ b \notin Range(empty') /\ b \notin Range(lru')
  /\ ListsFit' /\ \A q \in Proc : held[q] # b
  /\ b_flags' \in [Buf -> SUBSET Flags] /\ b_blk' \in [Buf -> Block \cup {none}]
  /\ b_list' \in [Buf -> {"none", "clean", "dirty"}] /\ io' \in SUBSET Buf

LEMMA TakeFacts ==
  ASSUME BufInv, NEW b \in Buf, NEW S \in SUBSET Buf, NEW F \in SUBSET Flags,
         NEW x \in {"none", "clean"}, NEW y \in Block \cup {none}, NEW I \in SUBSET {b},
         Takes(b, S, F, x, y, I)
  PROVE  Taken(b, S, F, x, y, I)
<1>0. /\ BufType /\ \A c \in Buf : BufFits(c)
      /\ "BUSY" \notin b_flags[b] /\ b \notin S
      /\ S \subseteq OnLists /\ \A c \in S : Delayed(c)
      /\ TakenOff(S \cup {b})
      /\ b_flags' = [PushedFlags(S) EXCEPT ![b] = F] /\ b_list' = [PushedList(S) EXCEPT ![b] = x]
      /\ b_blk' = [b_blk EXCEPT ![b] = y] /\ io' = (io \cup S) \cup I
  BY DEF BufInv, Takes
<1>1. (\A q \in Proc : held[q] # b) /\ b \notin io
  BY <1>0, FreeUnowned
<1>2. PushedFlags(S) \in [Buf -> SUBSET Flags]
  <2>1. \A c \in Buf : Started(b_flags[c] \cup {"BUSY"}, TRUE) \in SUBSET Flags
    BY <1>0 DEF BufType, Started, Flags
  <2> QED
    BY <1>0, <2>1 DEF PushedFlags, BufType
<1>3. PushedList(S) \in [Buf -> {"none", "clean", "dirty"}]
  BY <1>0 DEF PushedList, BufType
<1>4. /\ b_flags'[b] = F /\ b_list'[b] = x /\ b_blk'[b] = y
      /\ \A c \in Buf \ {b} : /\ b_flags'[c] = PushedFlags(S)[c] /\ b_list'[c] = PushedList(S)[c]
                              /\ b_blk'[c] = b_blk[c]
  BY <1>0, <1>2, <1>3 DEF BufType
<1>5. /\ b_flags' \in [Buf -> SUBSET Flags] /\ b_blk' \in [Buf -> Block \cup {none}]
      /\ b_list' \in [Buf -> {"none", "clean", "dirty"}] /\ io' \in SUBSET Buf
  BY <1>0, <1>2, <1>3 DEF BufType
<1>6. ASSUME NEW c \in S PROVE Delayed(c) /\ "BUSY" \notin b_flags[c] /\ c \notin io /\ Push(c)
  <2>1. "BUSY" \notin b_flags[c] /\ c \notin io
    BY <1>0 DEF BufFits
  <2> QED
    BY <1>0, <1>4, <2>1 DEF Push, PushedFlags, PushedList, TakenOff
<1>7. ASSUME NEW c \in Buf \ (S \cup {b}) PROVE Same(c)
  BY <1>0, <1>4 DEF Same, PushedFlags, PushedList, TakenOff
<1>8. ListsFit' /\ b \notin OnLists' /\ b \notin Range(empty') /\ b \notin Range(lru') /\ (b \in io' <=> b \in I)
  BY <1>0, <1>1 DEF TakenOff, OnLists
<1> QED
  BY <1>0, <1>1, <1>4, <1>5, <1>6, <1>7, <1>8 DEF Taken

\* One buffer goes to process p, in its new state.
Moves(p, place, r, b) ==
  /\ pc' = [pc EXCEPT ![p] = place] /\ req' = [req EXCEPT ![p] = r] /\ held' = [held EXCEPT ![p] = b]
  /\ nbp' = nbp

LEMMA TakeStep ==
  ASSUME BufInv, NEW p \in Proc, held[p] = none,
         NEW b \in Buf, NEW S \in SUBSET Buf, NEW F \in SUBSET Flags,
         NEW x \in {"none", "clean"}, NEW y \in Block \cup {none}, NEW I \in SUBSET {b},
         Takes(b, S, F, x, y, I),
         NEW place \in Places, NEW r \in Request, Moves(p, place, r, b),
         "BUSY" \in F, F \cap {"ASYNC", "DELWRI", "DONE", "ERROR"} = {},
         x = (IF y = none THEN "none" ELSE "clean"),
         I # {} => "READ" \in F /\ "INVAL" \notin F /\ y # none,
         ReqFits(p)', HeldFits(p)'
  PROVE  BufInv'
<1>0. /\ BufType
      /\ pc' = [pc EXCEPT ![p] = place] /\ req' = [req EXCEPT ![p] = r] /\ held' = [held EXCEPT ![p] = b]
      /\ nbp' = nbp
  BY DEF BufInv, Takes, Moves
<1>1. Taken(b, S, F, x, y, I)
  BY TakeFacts
<1>10. \A c \in S : Delayed(c) /\ "BUSY" \notin b_flags[c] /\ Push(c)
  BY <1>1 DEF Taken
<1>2. /\ pc'[p] = place /\ req'[p] = r /\ held'[p] = b
      /\ \A q \in Proc \ {p} : pc'[q] = pc[q] /\ req'[q] = req[q] /\ held'[q] = held[q]
  BY <1>0 DEF BufType
<1>3. BufType'
  BY <1>0, <1>1 DEF BufType, Taken
<1>4. BufFits(b)'
  <2>1. Owned(b)'
    BY <1>2 DEF Owned
  <2> QED
    BY <1>1, <2>1 DEF BufFits, Delayed, Bad, Taken
<1> DEFINE B == {b}
<1>5. B \in SUBSET Buf /\ S \in SUBSET (Buf \ B) /\ ListsFit'
  BY <1>1 DEF Taken
<1>6. \A c \in Buf \ (S \cup B) : Same(c)
  BY <1>1 DEF Taken
<1>7. \A c \in Buf \ B : held'[p] = c <=> held[p] = c
  BY <1>2, BufAssumption
<1>8. held'[p] \in B => \A q \in Proc \ {p} : held[q] # held'[p]
  BY <1>1 DEF Taken
<1>9. /\ \A c \in B : Kept(c) \/ \A q \in Proc \ {p} : held[q] # c
      /\ \A c \in B : BufFits(c)'
  BY <1>1, <1>4 DEF Taken
<1> HIDE DEF B
<1> QED
  BY <1>2, <1>3, <1>5, <1>6, <1>7, <1>8, <1>9, <1>10, BufStep

\* getblk() does not find it and takes another buffer.
GetnewbufDoes(p, k, use, b, S, F, x, y, I, place) ==
  /\ ~Delayed(b) /\ Takes(b, S, F, x, y, I)
  /\ pc' = [pc EXCEPT ![p] = place] /\ held' = [held EXCEPT ![p] = b]
  /\ v_numoutput' = MoreOutput(S) /\ wanted' = wanted /\ asleep' = asleep
  /\ \/ /\ use # "getblk" /\ F = {"BUSY", "READ"} /\ I = {b} /\ y = k /\ x = "clean"
        /\ place = IF use = "breada" THEN "reada" ELSE "biowait"
     \/ use = "getblk" /\ F = {"BUSY"} /\ I = {} /\ y = k /\ x = "clean" /\ place = "held"
     \/ /\ MaySleep(b, k)
        /\ F = {"INVAL", "BUSY"} /\ I = {} /\ y = none /\ x = "none" /\ place = "alloc"

LEMMA GetnewbufIs ==
  ASSUME BufInv, NEW p \in Proc, NEW k \in Block, NEW use \in {"bread", "breada", "getblk"},
         getnewbuf(p, k, use)
  PROVE  \E b \in Buf, S \in SUBSET Buf, F \in SUBSET Flags, x \in {"none", "clean"}, y \in Block \cup {none} :
           \E I \in SUBSET {b}, place \in Places : GetnewbufDoes(p, k, use, b, S, F, x, y, I, place)
<1>0. ListsFit
  BY DEF BufInv
<1>1. PICK b \in Buf, n \in 0 .. Len(Queue) :
        /\ NewBuf(b, PushedBy(n), SizeOf[k])
        /\ v_numoutput' = MoreOutput(PushedBy(n)) /\ wanted' = wanted /\ asleep' = asleep
        /\ \/ Deliver(p, b, {"BUSY"}, PushedBy(n), use) /\ Assign(b, k, PushedBy(n))
           \/ /\ MaySleep(b, k)
              /\ b_flags' = [PushedFlags(PushedBy(n)) EXCEPT ![b] = {"INVAL", "BUSY"}]
              /\ b_blk' = [b_blk EXCEPT ![b] = none]
              /\ b_list' = [PushedList(PushedBy(n)) EXCEPT ![b] = "none"]
              /\ io' = io \cup PushedBy(n)
              /\ held' = [held EXCEPT ![p] = b]
              /\ Go(p, "alloc")
  BY DEF getnewbuf
<1> DEFINE S == PushedBy(n)
<1>2. /\ "BUSY" \notin b_flags[b] /\ ~Delayed(b) /\ b \notin S /\ TakenOff(S \cup {b})
      /\ S \in SUBSET Buf /\ S \subseteq OnLists /\ \A c \in S : Delayed(c)
      /\ v_numoutput' = MoreOutput(S) /\ wanted' = wanted /\ asleep' = asleep
  BY <1>0, <1>1, NewBufIs, PushedAre DEF OnLists
<1> HIDE DEF S
<1>3. ASSUME Deliver(p, b, {"BUSY"}, S, use), Assign(b, k, S)
      PROVE  \E F \in SUBSET Flags, x \in {"none", "clean"}, y \in Block \cup {none}, I \in SUBSET {b}, place \in Places :
               GetnewbufDoes(p, k, use, b, S, F, x, y, I, place)
  <2> DEFINE reads == use # "getblk"
             F == IF reads THEN {"BUSY", "READ"} ELSE {"BUSY"}
             I == IF reads THEN {b} ELSE {}
             place == IF use = "breada" THEN "reada" ELSE IF reads THEN "biowait" ELSE "held"
  <2>1. Reads(use, {"BUSY"}) <=> reads
    BY DEF Reads
  <2>2. ({"BUSY"} \cup {"READ"}) \ {"DONE", "ERROR", "INVAL"} = {"BUSY", "READ"}
    OBVIOUS
  <2>3. /\ b_flags' = [PushedFlags(S) EXCEPT ![b] = F] /\ io' = (io \cup S) \cup I
        /\ held' = [held EXCEPT ![p] = b] /\ pc' = [pc EXCEPT ![p] = place]
    BY <1>3, <2>1, <2>2 DEF Deliver, Go
  <2>4. b_blk' = [b_blk EXCEPT ![b] = k] /\ b_list' = [PushedList(S) EXCEPT ![b] = "clean"]
    BY <1>3 DEF Assign
  <2>5. F \in SUBSET Flags /\ I \in SUBSET {b} /\ place \in Places
    BY DEF Flags, Places
  <2>6. \/ use # "getblk" /\ F = {"BUSY", "READ"} /\ I = {b} /\ place = IF use = "breada" THEN "reada" ELSE "biowait"
        \/ use = "getblk" /\ F = {"BUSY"} /\ I = {} /\ place = "held"
    OBVIOUS
  <2> HIDE DEF reads, F, I, place
  <2>7. GetnewbufDoes(p, k, use, b, S, F, "clean", k, I, place)
    BY <1>2, <2>3, <2>4, <2>6 DEF GetnewbufDoes, Takes
  <2> QED
    BY <2>5, <2>7
<1>4. ASSUME MaySleep(b, k),
             b_flags' = [PushedFlags(S) EXCEPT ![b] = {"INVAL", "BUSY"}],
             b_blk' = [b_blk EXCEPT ![b] = none],
             b_list' = [PushedList(S) EXCEPT ![b] = "none"],
             io' = io \cup S, held' = [held EXCEPT ![p] = b], Go(p, "alloc")
      PROVE  \E F \in SUBSET Flags, x \in {"none", "clean"}, y \in Block \cup {none}, I \in SUBSET {b}, place \in Places :
               GetnewbufDoes(p, k, use, b, S, F, x, y, I, place)
  <2> DEFINE F == {"INVAL", "BUSY"}
             I == {}
  <2>1. /\ b_flags' = [PushedFlags(S) EXCEPT ![b] = F] /\ io' = (io \cup S) \cup I
        /\ pc' = [pc EXCEPT ![p] = "alloc"]
    BY <1>4 DEF Go
  <2>2. F \in SUBSET Flags /\ I \in SUBSET {b} /\ "alloc" \in Places
    BY DEF Flags, Places
  <2>3. GetnewbufDoes(p, k, use, b, S, F, "none", none, I, "alloc")
    BY <1>2, <1>4, <2>1 DEF GetnewbufDoes, Takes
  <2> HIDE DEF F, I
  <2> QED
    BY <2>2, <2>3
<1>5. S \in SUBSET Buf
  BY <1>2
<1> QED
  BY <1>1, <1>3, <1>4, <1>5 DEF S

LEMMA GetnewbufStep ==
  ASSUME BufInv, NEW p \in Proc, NEW k \in Block, NEW use \in {"bread", "breada", "getblk"},
         pc[p] \in {"idle", "getblk"}, getnewbuf(p, k, use),
         req' = [req EXCEPT ![p] = [use |-> use, blk |-> k]], nbp' = nbp
  PROVE  BufInv'
<1>0. BufType /\ ReqFits(p) /\ held[p] = none /\ k # none
  BY BufAssumption DEF BufInv, ReqFits, Holding
<1>1. PICK b \in Buf, S \in SUBSET Buf, F \in SUBSET Flags, x \in {"none", "clean"}, y \in Block \cup {none} :
        \E I \in SUBSET {b}, place \in Places : GetnewbufDoes(p, k, use, b, S, F, x, y, I, place)
  BY GetnewbufIs
<1>2. PICK I \in SUBSET {b}, place \in Places : GetnewbufDoes(p, k, use, b, S, F, x, y, I, place)
  BY <1>1
<1>3. /\ Takes(b, S, F, x, y, I)
      /\ pc' = [pc EXCEPT ![p] = place] /\ held' = [held EXCEPT ![p] = b]
  BY <1>2 DEF GetnewbufDoes
<1>4. \/ /\ use # "getblk" /\ F = {"BUSY", "READ"} /\ I = {b} /\ y = k /\ x = "clean"
         /\ place = IF use = "breada" THEN "reada" ELSE "biowait"
      \/ use = "getblk" /\ F = {"BUSY"} /\ I = {} /\ y = k /\ x = "clean" /\ place = "held"
      \/ F = {"INVAL", "BUSY"} /\ I = {} /\ y = none /\ x = "none" /\ place = "alloc"
  BY <1>2 DEF GetnewbufDoes
<1> DEFINE r == [use |-> use, blk |-> k]
<1>5. r \in Request
  BY DEF Request
<1> HIDE DEF r
<1>6. Moves(p, place, r, b)
  BY <1>3 DEF r, Moves
<1>7. Taken(b, S, F, x, y, I)
  BY <1>3, TakeFacts
<1>8. pc'[p] = place /\ req'[p] = r /\ held'[p] = b
  BY <1>0, <1>6 DEF BufType, Moves
<1>9. ReqFits(p)'
  BY <1>4, <1>8, BufAssumption DEF ReqFits, Holding, r
<1>10. HeldFits(p)'
  BY <1>4, <1>7, <1>8 DEF HeldFits, Bad, r, Taken
<1>11. /\ "BUSY" \in F /\ F \cap {"ASYNC", "DELWRI", "DONE", "ERROR"} = {}
       /\ x = (IF y = none THEN "none" ELSE "clean")
       /\ I # {} => "READ" \in F /\ "INVAL" \notin F /\ y # none
  BY <1>0, <1>4
<1> QED
  BY <1>0, <1>3, <1>5, <1>6, <1>9, <1>10, <1>11, TakeStep

\* Writes are started and no buffer is taken.
LEMMA PushOnlyStep ==
  ASSUME BufInv, NEW p \in Proc, NEW S \in SUBSET Buf,
         S \subseteq OnLists, \A c \in S : Delayed(c), TakenOff(S),
         b_flags' = PushedFlags(S), b_list' = PushedList(S), io' = io \cup S,
         UNCHANGED <<b_blk, held, nbp>>,
         pc' \in [Proc -> Places], req' \in [Proc -> Request],
         \A q \in Proc \ {p} : pc'[q] = pc[q] /\ req'[q] = req[q],
         ReqFits(p)',
         held[p] = none \/ (pc'[p] = pc[p] /\ req'[p] = req[p])
  PROVE  BufInv'
<1>0. BufType /\ ReqFits(p) /\ HeldFits(p) /\ \A c \in Buf : BufFits(c)
  BY DEF BufInv
<1>1. \A c \in S : Started(b_flags[c] \cup {"BUSY"}, TRUE) \in SUBSET Flags
  BY <1>0 DEF BufType, Started, Flags
<1>2. /\ b_flags' \in [Buf -> SUBSET Flags] /\ b_list' \in [Buf -> {"none", "clean", "dirty"}]
      /\ io' \in SUBSET Buf
  BY <1>0, <1>1 DEF PushedFlags, PushedList, BufType
<1>3. BufType'
  BY <1>0, <1>2 DEF BufType
<1>4. ASSUME NEW c \in S PROVE Delayed(c) /\ "BUSY" \notin b_flags[c] /\ Push(c)
  BY <1>0 DEF BufFits, Push, PushedFlags, PushedList, TakenOff
<1>5. ASSUME NEW c \in Buf \ S PROVE Same(c)
  BY DEF Same, PushedFlags, PushedList, TakenOff
<1>6. HeldFits(p)'
  <2>1. CASE held[p] = none
    BY <2>1 DEF HeldFits
  <2>2. CASE held[p] # none
    <3>1. PICK c \in Buf : c = held[p]
      BY <1>0, <2>2 DEF BufType
    <3>2. c \notin S
      BY <1>4, <2>2, <3>1, OwnerOnly
    <3>3. Kept(c)
      BY <1>5, <3>2 DEF Same, Kept
    <3> QED
      BY <1>0, <2>2, <3>1, <3>3, KeptFits
  <2> QED
    BY <2>1, <2>2
<1> DEFINE B == {}
<1>7. /\ B \in SUBSET Buf /\ S \in SUBSET (Buf \ B) /\ ListsFit'
      /\ \A c \in Buf \ (S \cup B) : Same(c)
  BY <1>5 DEF TakenOff
<1>8. /\ \A q \in Proc \ {p} : pc'[q] = pc[q] /\ req'[q] = req[q] /\ held'[q] = held[q]
      /\ \A c \in Buf \ B : held'[p] = c <=> held[p] = c
  OBVIOUS
<1>9. /\ held'[p] \in B => \A q \in Proc \ {p} : held[q] # held'[p]
      /\ \A c \in B : Kept(c) \/ \A q \in Proc \ {p} : held[q] # c
      /\ \A c \in B : BufFits(c)'
  OBVIOUS
<1> HIDE DEF B
<1> QED
  BY <1>3, <1>4, <1>6, <1>7, <1>8, <1>9, BufStep

\* There is no buffer to take.
LEMMA NobufStep ==
  ASSUME BufInv, NEW p \in Proc, NEW place \in Places, NEW sz, nobuf(p, place, sz),
         req' \in [Proc -> Request], \A q \in Proc \ {p} : req'[q] = req[q], nbp' = nbp,
         ReqFits(p)', held[p] = none \/ (place = pc[p] /\ req'[p] = req[p])
  PROVE  BufInv' /\ age' = <<>> /\ lru' = <<>>
<1>0. BufType /\ ListsFit /\ Once(age) /\ Once(lru)
  BY DEF BufInv, ListsFit, OnceEach
<1> DEFINE S == Pushed
<1>1. /\ S = Range(age) \cup Range(lru) /\ S \in SUBSET Buf /\ \A c \in S : Delayed(c)
      /\ S \cap Range(empty) = {}
  <2>1. Victims = {}
    BY DEF nobuf
  <2>2. S = Range(age) \cup Range(lru)
    BY <1>0, <2>1, AllPushed
  <2>3. S \in SUBSET Buf /\ \A c \in S : Delayed(c)
    BY <1>0, PushedAre DEF Pushed
  <2> QED
    BY <1>0, <2>2, <2>3 DEF ListsFit, OnceEach
<1>2. /\ b_flags' = PushedFlags(S) /\ b_list' = PushedList(S) /\ io' = io \cup S
      /\ empty' = empty /\ age' = Without(age, S) /\ lru' = Without(lru, S)
      /\ pc' = [pc EXCEPT ![p] = place] /\ UNCHANGED <<b_blk, held>>
  BY DEF nobuf, Go
<1> HIDE DEF S
<1>3. TakenOff(S)
  BY <1>0, <1>1, <1>2, WithoutBoth
<1>4. age' = <<>> /\ lru' = <<>>
  <2>1. /\ Once(Without(age, S)) /\ Range(Without(age, S)) = {}
        /\ Once(Without(lru, S)) /\ Range(Without(lru, S)) = {}
    BY <1>0, <1>1, WithoutIs
  <2> QED
    BY <1>2, <2>1, NothingOnList DEF Once
<1>5. /\ pc' \in [Proc -> Places] /\ pc'[p] = place /\ \A q \in Proc \ {p} : pc'[q] = pc[q]
  BY <1>0, <1>2 DEF BufType
<1>6. S \subseteq OnLists
  BY <1>1 DEF OnLists
<1> QED
  BY <1>1, <1>2, <1>3, <1>4, <1>5, <1>6, PushOnlyStep

LEMMA GetblkStep ==
  ASSUME BufInv, NEW p \in Proc, NEW k \in Block, NEW use \in {"bread", "breada", "getblk"},
         pc[p] \in {"idle", "getblk"}, getblk(p, k, use)
  PROVE  BufInv'
<1>0. BufType /\ ReqFits(p) /\ held[p] = none
  BY DEF BufInv, ReqFits, Holding
<1>1. req' = [req EXCEPT ![p] = [use |-> use, blk |-> k]] /\ nbp' = nbp
  BY DEF getblk
<1>2. CASE nobuf(p, "getblk", SizeOf[k])
  <2>1. "getblk" \in Places
    BY DEF Places
  <2>2. [use |-> use, blk |-> k] \in Request
    BY DEF Request
  <2>3. /\ req' \in [Proc -> Request] /\ \A q \in Proc \ {p} : req'[q] = req[q]
        /\ req'[p] = [use |-> use, blk |-> k]
    BY <1>0, <1>1, <2>2 DEF BufType
  <2>4. pc'[p] = "getblk" /\ held'[p] = none
    BY <1>0, <1>2 DEF nobuf, Go, BufType
  <2>5. ReqFits(p)'
    BY <2>3, <2>4 DEF ReqFits, Holding
  <2> QED
    BY <1>0, <1>1, <1>2, <2>1, <2>3, <2>5, NobufStep
<1> QED
  BY <1>1, <1>2, HitBusyStep, HitFreeStep, GetnewbufStep DEF getblk

\* Back from allocbuf().
LEMMA AllocStep ==
  ASSUME BufInv, NEW p \in Proc, getblk_alloc(p)
  PROVE  BufInv'
<1> DEFINE k == req[p].blk
           use == req[p].use
           reads == use # "getblk"
           F == IF reads THEN {"BUSY", "READ"} ELSE {"BUSY"}
           place == IF use = "breada" THEN "reada" ELSE IF reads THEN "biowait" ELSE "held"
<1>0. /\ BufType /\ ListsFit /\ ReqFits(p) /\ HeldFits(p) /\ pc[p] = "alloc" /\ held[p] # none
      /\ k \in Block /\ k # none /\ use \in {"bread", "breada", "getblk"}
  BY BufAssumption DEF BufInv, getblk_alloc, At, ReqFits, Holding
<1>1. PICK b \in Buf : b = held[p]
  BY <1>0 DEF BufType
<1>2. /\ \A q \in Proc \ {p} : held[q] # b
      /\ b \notin OnLists /\ BufFits(b) /\ b_flags[b] = {"INVAL", "BUSY"}
  BY <1>0, <1>1, OwnerOnly DEF HeldFits
<1>3. b \notin io
  BY <1>2 DEF BufFits
<1>4. Deliver(p, b, {"BUSY"}, {}, use) /\ Assign(b, k, {})
  BY <1>1 DEF getblk_alloc
<1>5. Reads(use, {"BUSY"}) <=> reads
  BY DEF Reads
<1>6. ({"BUSY"} \cup {"READ"}) \ {"DONE", "ERROR", "INVAL"} = {"BUSY", "READ"}
  OBVIOUS
<1>7. /\ b_flags' = [PushedFlags({}) EXCEPT ![b] = F] /\ (io' = io \cup (IF reads THEN {b} ELSE {}))
      /\ held' = [held EXCEPT ![p] = b] /\ pc' = [pc EXCEPT ![p] = place]
  BY <1>4, <1>5, <1>6 DEF Deliver, Go
<1>8. b_blk' = [b_blk EXCEPT ![b] = k] /\ b_list' = [PushedList({}) EXCEPT ![b] = "clean"]
  BY <1>4 DEF Assign
<1>9. PushedFlags({}) = b_flags /\ PushedList({}) = b_list
  BY <1>0 DEF PushedFlags, PushedList, BufType
<1>10. F \in SUBSET Flags /\ place \in Places
  BY DEF Flags, Places
<1>11. req' = req /\ nbp' = nbp /\ lists' = lists
  BY DEF getblk_alloc
<1>12. OnLists' = OnLists /\ ListsFit' /\ empty' = empty /\ lru' = lru
  BY <1>0, <1>11 DEF OnLists, ListsFit, OnceEach, lists
<1> HIDE DEF F
<1>13. /\ b_flags'[b] = F /\ b_blk'[b] = k /\ b_list'[b] = "clean"
       /\ \A c \in Buf \ {b} : b_flags'[c] = b_flags[c] /\ b_blk'[c] = b_blk[c] /\ b_list'[c] = b_list[c]
  BY <1>0, <1>7, <1>8, <1>9 DEF BufType
<1> HIDE DEF place
<1>14. BufType'
  <2> HIDE DEF k, use
  <2> QED
    BY <1>0, <1>7, <1>8, <1>9, <1>10, <1>11 DEF BufType
<1>15. /\ pc'[p] = place /\ held'[p] = b
       /\ \A q \in Proc \ {p} : pc'[q] = pc[q] /\ req'[q] = req[q] /\ held'[q] = held[q]
  BY <1>0, <1>7, <1>11 DEF BufType
<1>16. \A c \in Buf \ {b} : Same(c)
  BY <1>7, <1>12, <1>13 DEF Same
<1>17. Owned(b)' /\ ~(b \in Range(empty)) /\ ~(b \in Range(lru))
  BY <1>2, <1>15 DEF Owned, OnLists
<1>18. b \in io' <=> reads
  BY <1>3, <1>7
<1>19. BufFits(b)'
  BY <1>0, <1>2, <1>12, <1>13, <1>17, <1>18 DEF BufFits, Delayed, Bad, F
<1>20. ReqFits(p)'
  BY <1>0, <1>11, <1>15, BufAssumption DEF ReqFits, Holding, place
<1>21. HeldFits(p)'
  BY <1>0, <1>11, <1>13, <1>15, <1>18 DEF HeldFits, Bad, place, F
<1>22. \A c \in Buf \ {b} : held'[p] = c <=> held[p] = c
  BY <1>1, <1>15
<1> QED
  BY <1>2, <1>12, <1>14, <1>15, <1>16, <1>19, <1>20, <1>21, <1>22, OneBufStep

\* breada() goes on to wait for the first block, or returns it.
LEMMA AdvanceFits ==
  ASSUME BufInv, NEW p \in Proc, pc[p] \in {"reada", "reada_hit"},
         pc'[p] = Waits(p), req'[p] = req[p], held'[p] = held[p], Kept(held[p])
  PROVE  ReqFits(p)' /\ HeldFits(p)'
<1>0. ReqFits(p) /\ HeldFits(p)
  BY DEF BufInv
<1>1. ReqFits(p)'
  BY <1>0 DEF ReqFits, Holding, Waits
<1>2. HeldFits(p)'
  BY <1>0 DEF HeldFits, Kept, Bad, Waits, ReqFits
<1> QED
  BY <1>1, <1>2

\* breada() takes a buffer to read ahead.
RaMissDoes(p, k, b, S) ==
  /\ ~Delayed(b) /\ Takes(b, S, {"BUSY", "READ", "ASYNC", "AGE"}, "clean", k, {b})
  /\ pc' = [pc EXCEPT ![p] = Waits(p)]
  /\ v_numoutput' = MoreOutput(S) /\ wanted' = wanted /\ held' = held /\ asleep' = asleep

LEMMA RaMissIs ==
  ASSUME BufInv, NEW p \in Proc, NEW k \in Block, ra_miss(p, k)
  PROVE  \E b \in Buf, S \in SUBSET Buf : RaMissDoes(p, k, b, S)
<1>1. PICK b \in Buf, n \in 0 .. Len(Queue) :
        /\ NewBuf(b, PushedBy(n), SizeOf[req[p].blk])
        /\ b_flags' = [PushedFlags(PushedBy(n)) EXCEPT ![b] = {"BUSY", "READ", "ASYNC", "AGE"}]
        /\ io' = (io \cup PushedBy(n)) \cup {b}
        /\ b_blk' = [b_blk EXCEPT ![b] = k]
        /\ b_list' = [PushedList(PushedBy(n)) EXCEPT ![b] = "clean"]
        /\ pc' = [pc EXCEPT ![p] = Waits(p)]
        /\ v_numoutput' = MoreOutput(PushedBy(n)) /\ wanted' = wanted /\ held' = held /\ asleep' = asleep
  BY ZenonT(30) DEF ra_miss, Go
<1> DEFINE S == PushedBy(n)
<1>2. ListsFit
  BY DEF BufInv
<1>3. /\ "BUSY" \notin b_flags[b] /\ ~Delayed(b) /\ b \notin S /\ TakenOff(S \cup {b})
      /\ S \in SUBSET Buf /\ S \subseteq OnLists /\ \A c \in S : Delayed(c)
  BY <1>1, <1>2, NewBufIs, PushedAre DEF OnLists
<1>4. RaMissDoes(p, k, b, S)
  BY <1>1, <1>3 DEF RaMissDoes, Takes
<1> HIDE DEF S
<1> QED
  BY <1>3, <1>4

LEMMA RaMissStep ==
  ASSUME BufInv, NEW p \in Proc, NEW k \in Block,
         pc[p] \in {"reada", "reada_hit"}, ra_miss(p, k), req' = req, nbp' = nbp
  PROVE  BufInv'
<1>0. /\ BufType /\ ReqFits(p) /\ held[p] # none /\ k # none
      /\ held[p] \in Buf /\ "BUSY" \in b_flags[held[p]]
  BY OwnerOnly, BufAssumption DEF BufInv, ReqFits, Holding
<1>1. PICK b \in Buf, S \in SUBSET Buf : RaMissDoes(p, k, b, S)
  BY RaMissIs
<1> DEFINE F == {"BUSY", "READ", "ASYNC", "AGE"}
           x == "clean"
           I == {b}
           B == {b}
<1>2. Takes(b, S, F, x, k, I) /\ pc' = [pc EXCEPT ![p] = Waits(p)] /\ held' = held
  BY <1>1 DEF RaMissDoes
<1>3. F \in SUBSET Flags /\ I \in SUBSET {b} /\ x \in {"none", "clean"} /\ k \in Block \cup {none}
  BY DEF Flags
<1> HIDE DEF F, x, I
<1>4. Taken(b, S, F, x, k, I)
  BY <1>2, <1>3, TakeFacts
<1>5. /\ B \in SUBSET Buf /\ S \in SUBSET (Buf \ B) /\ ListsFit'
      /\ \A c \in S : Delayed(c) /\ "BUSY" \notin b_flags[c] /\ Push(c)
  BY <1>4 DEF Taken
<1>6. /\ pc'[p] = Waits(p) /\ pc' \in [Proc -> Places]
      /\ \A q \in Proc \ {p} : pc'[q] = pc[q] /\ req'[q] = req[q] /\ held'[q] = held[q]
  BY <1>0, <1>2 DEF BufType, Waits, Places
<1>7. BufType'
  BY <1>0, <1>2, <1>4, <1>6 DEF BufType, Taken
<1>8. BufFits(b)'
  <2>1. ~Owned(b)'
    BY <1>2, <1>4 DEF Owned, Taken
  <2> QED
    BY <1>0, <1>4, <2>1 DEF BufFits, Delayed, Bad, F, I, x, Taken
<1>9. ReqFits(p)' /\ HeldFits(p)'
  <2>1. Same(held[p])
    BY <1>0, <1>4 DEF Taken
  <2>2. Kept(held[p])
    BY <2>1 DEF Same, Kept
  <2> QED
    BY <1>2, <1>6, <2>2, AdvanceFits
<1>10. \A c \in Buf \ (S \cup B) : Same(c)
  BY <1>4 DEF Taken
<1>11. /\ \A c \in Buf \ B : held'[p] = c <=> held[p] = c
       /\ held'[p] \in B => \A q \in Proc \ {p} : held[q] # held'[p]
  BY <1>2, <1>4 DEF Taken
<1>12. /\ \A c \in B : Kept(c) \/ \A q \in Proc \ {p} : held[q] # c
       /\ \A c \in B : BufFits(c)'
  BY <1>4, <1>8 DEF Taken
<1> HIDE DEF B
<1> QED
  BY <1>5, <1>6, <1>7, <1>9, <1>10, <1>11, <1>12, BufStep

\* breada() finds the block in the cache.
LEMMA RaHitStep ==
  ASSUME BufInv, NEW p \in Proc, NEW k \in Block,
         pc[p] \in {"reada", "reada_hit"}, ra_hit(p, k), req' = req, nbp' = nbp
  PROVE  BufInv'
<1>0. BufType /\ ListsFit /\ ReqFits(p) /\ k # none /\ held[p] # none
  BY BufAssumption DEF BufInv, ReqFits, Holding
<1>1. PICK b \in incore(k) :
        /\ IF "AGE" \in b_flags[b] /\ "BUSY" \notin b_flags[b]
             THEN /\ b_flags' = [b_flags EXCEPT ![b] = RelFlags(@)]
                  /\ age' = Append(Without(age, {b}), b) /\ lru' = lru
             ELSE /\ b_flags' = [b_flags EXCEPT ![b] = @ \ {"AGE"}]
                  /\ UNCHANGED <<age, lru>>
        /\ pc' = [pc EXCEPT ![p] = Waits(p)]
        /\ UNCHANGED <<b_blk, b_list, empty, io, held>>
  BY DEF ra_hit, Go
<1>2. b \in Buf /\ b_blk[b] = k /\ BufFits(b)
  BY <1>1 DEF incore, BufInv
<1>3. /\ pc'[p] = Waits(p) /\ pc' \in [Proc -> Places]
      /\ \A q \in Proc \ {p} : pc'[q] = pc[q] /\ req'[q] = req[q] /\ held'[q] = held[q]
  BY <1>0, <1>1 DEF BufType, Waits, Places
<1>4. CASE ~("AGE" \in b_flags[b] /\ "BUSY" \notin b_flags[b])
  <2> DEFINE F == b_flags[b] \ {"AGE"}
  <2>1. b_flags' = [b_flags EXCEPT ![b] = F] /\ lists' = lists
    BY <1>1, <1>4 DEF lists
  <2>2. /\ F \in SUBSET Flags
        /\ \A f \in F : f \in b_flags[b] \/ f \in {"WANTED", "CACHE"}
        /\ \A f \in b_flags[b] : f \in F \/ f = "AGE"
    BY <1>0, <1>2 DEF BufType
  <2> HIDE DEF F
  <2>3. BufType'
    BY <1>0, <1>1, <1>2, <1>3, <2>1, <2>2 DEF BufType
  <2>4. ReqFits(p)'
    BY <1>0, <1>1, <1>3 DEF ReqFits, Holding, Waits
  <2>5. /\ pc'[p] = (IF pc[p] = "reada" THEN "biowait" ELSE "held")
        /\ req'[p] = req[p] /\ b_blk[b] # none
    BY <1>0, <1>2, <1>3 DEF Waits
  <2> QED
    BY <1>1, <1>2, <1>3, <2>1, <2>2, <2>3, <2>4, <2>5, MarkStep
<1>5. CASE "AGE" \in b_flags[b] /\ "BUSY" \notin b_flags[b]
  <2> DEFINE F == RelFlags(b_flags[b])
  <2>1. /\ b_flags' = [b_flags EXCEPT ![b] = F]
        /\ age' = Append(Without(age, {b}), b) /\ lru' = lru /\ empty' = empty
    BY <1>1, <1>5
  <2>2. (\A q \in Proc : held[q] # b) /\ b \in OnLists /\ b \notin io /\ ~Bad(b_flags[b])
    BY <1>0, <1>2, <1>5, FreeUnowned
  <2>3. /\ F \in SUBSET Flags /\ "BUSY" \notin F
        /\ \A f \in {"INVAL", "ERROR", "DELWRI", "DONE", "ASYNC"} : f \in F <=> f \in b_flags[b]
    BY <1>0, <1>2, <2>2 DEF BufType, RelFlags
  <2> HIDE DEF F
  <2>4. b_flags' \in [Buf -> SUBSET Flags] /\ b_flags'[b] = F /\ \A c \in Buf \ {b} : b_flags'[c] = b_flags[c]
    BY <1>0, <1>2, <2>1, <2>3 DEF BufType
  <2>5. b \in Range(age) /\ b \notin Range(lru) /\ b \notin Range(empty)
    BY <1>0, <1>2, <1>5, <2>2 DEF BufFits, OnLists
  <2>6. ListsFit' /\ OnLists' = OnLists
    <3>1. /\ Once(empty) /\ Once(age) /\ Once(lru)
          /\ Range(empty) \cap Range(age) = {} /\ Range(empty) \cap Range(lru) = {}
          /\ Range(age) \cap Range(lru) = {}
      BY <1>0 DEF ListsFit, OnceEach
    <3> DEFINE m == Without(age, {b})
    <3>2. Once(m) /\ Range(m) = Range(age) \ {b}
      BY <3>1, WithoutIs
    <3> HIDE DEF m
    <3>3. Once(Append(m, b)) /\ Range(Append(m, b)) = Range(m) \cup {b}
      BY <1>2, <3>2, AppendIs
    <3>4. Once(age') /\ Range(age') = Range(age)
      BY <2>1, <2>5, <3>2, <3>3 DEF m
    <3>5. Once(empty') /\ Once(lru') /\ Range(empty') = Range(empty) /\ Range(lru') = Range(lru)
      BY <2>1, <3>1
    <3> QED
      BY <3>1, <3>4, <3>5 DEF ListsFit, OnceEach, OnLists
  <2>7. \A c \in Buf \ {b} : Same(c)
    BY <1>1, <2>1, <2>4, <2>6 DEF Same
  <2>8. Kept(b)
    BY <1>0, <1>1, <1>2, <2>3, <2>4 DEF Kept
  <2>9. BufType'
    BY <1>0, <1>1, <1>3, <2>4 DEF BufType
  <2>10. BufFits(b)'
    <3>1. ~Owned(b)'
      BY <1>1, <2>2 DEF Owned
    <3> QED
      BY <1>0, <1>1, <1>2, <1>5, <2>1, <2>2, <2>3, <2>4, <2>5, <2>6, <3>1 DEF BufFits, Delayed, Bad
  <2>11. ReqFits(p)' /\ HeldFits(p)'
    <3>1. held[p] \in Buf /\ held[p] # b
      BY <1>0, <2>2, OwnerOnly
    <3>2. Kept(held[p])
      BY <2>7, <3>1 DEF Same, Kept
    <3> QED
      BY <1>1, <1>3, <3>2, AdvanceFits
  <2>12. /\ \A c \in Buf \ {b} : held'[p] = c <=> held[p] = c
         /\ held'[p] = b => \A q \in Proc \ {p} : held[q] # b
    BY <1>1, <2>2
  <2> QED
    BY <1>2, <1>3, <2>6, <2>7, <2>8, <2>9, <2>10, <2>11, <2>12, OneBufStep
<1> QED
  BY <1>4, <1>5

LEMMA BreadaStep ==
  ASSUME BufInv, NEW p \in Proc, NEW k \in Block, breada(p, k)
  PROVE  BufInv'
<1>0. BufType /\ ReqFits(p) /\ pc[p] \in {"reada", "reada_hit"} /\ req' = req /\ nbp' = nbp
  BY DEF BufInv, breada, At
<1>1. CASE nobuf(p, pc[p], SizeOf[req[p].blk])
  <2>1. req' \in [Proc -> Request] /\ \A q \in Proc \ {p} : req'[q] = req[q]
    BY <1>0 DEF BufType
  <2>2. pc'[p] = pc[p] /\ held' = held /\ pc[p] \in Places
    BY <1>0, <1>1 DEF nobuf, Go, BufType
  <2>3. ReqFits(p)'
    BY <1>0, <2>2 DEF ReqFits, Holding
  <2> QED
    BY <1>0, <1>1, <2>1, <2>2, <2>3, NobufStep
<1> QED
  BY <1>0, <1>1, RaMissStep, RaHitStep DEF breada

\* A process that has no buffer goes on to another place.
LEMMA PlaceStep ==
  ASSUME BufInv, NEW p \in Proc, held[p] = none,
         UNCHANGED <<b_flags, b_blk, b_list, io, lists, nbp>>,
         held' = [held EXCEPT ![p] = none] \/ held' = held,
         NEW place \in Places, pc' = [pc EXCEPT ![p] = place],
         NEW r \in Request, req' = [req EXCEPT ![p] = r] \/ (req' = req /\ r = req[p]),
         place \in {"flush", "flushw", "inval"} => r.blk \in Vnode,
         place \in {"flush", "flushw"} => r.use \in {"flush", "sync"},
         place = "inval" => r.use \in {"inval", "save"},
         place \in {"idle", "flush", "flushw", "inval"}, place = "idle" => r = NoReq
  PROVE  BufInv'
<1>0. BufType
  BY DEF BufInv
<1>1. held' = held
  BY <1>0 DEF BufType
<1>2. /\ pc'[p] = place /\ req'[p] = r /\ pc' \in [Proc -> Places] /\ req' \in [Proc -> Request]
      /\ \A q \in Proc \ {p} : pc'[q] = pc[q] /\ req'[q] = req[q]
  BY <1>0 DEF BufType
<1>3. BufType'
  BY <1>0, <1>1, <1>2 DEF BufType
<1>4. ReqFits(p)' /\ HeldFits(p)'
  BY <1>1, <1>2 DEF ReqFits, HeldFits, Holding
<1> QED
  BY <1>1, <1>2, <1>3, <1>4, NoBufStep

LEMMA NoneHeld ==
  ASSUME BufInv, NEW p \in Proc, pc[p] \in {"idle", "getblk", "flush", "flushw", "inval"}
  PROVE  held[p] = none /\ BufType /\ ReqFits(p) /\ req[p] \in Request
BY DEF BufInv, BufType, ReqFits, Holding

LEMMA VflushbufStep ==
  ASSUME BufInv, NEW p \in Proc, NEW v \in Vnode, NEW use \in {"flush", "sync"}, vflushbuf(p, v, use)
  PROVE  BufInv'
<1> DEFINE r == [use |-> use, blk |-> v]
<1>1. r \in Request /\ r.use = use /\ r.blk = v /\ "flush" \in Places
  BY DEF Request, Places
<1>2. /\ pc' = [pc EXCEPT ![p] = "flush"] /\ req' = [req EXCEPT ![p] = r]
      /\ UNCHANGED <<b_flags, b_blk, b_list, io, lists, nbp>> /\ held' = held
  BY DEF vflushbuf, Go, bufs
<1>3. held[p] = none
  BY NoneHeld DEF vflushbuf, At
<1> HIDE DEF r
<1> QED
  BY <1>1, <1>2, <1>3, PlaceStep

LEMMA VinvalbufStep ==
  ASSUME BufInv, NEW p \in Proc, NEW v \in Vnode, NEW use \in {"inval", "save"}, vinvalbuf(p, v, use)
  PROVE  BufInv'
<1> DEFINE r == [use |-> use, blk |-> v]
<1>1. r \in Request /\ r.use = use /\ r.blk = v /\ "inval" \in Places
  BY DEF Request, Places
<1>2. /\ pc' = [pc EXCEPT ![p] = "inval"] /\ req' = [req EXCEPT ![p] = r]
      /\ UNCHANGED <<b_flags, b_blk, b_list, io, lists, nbp>> /\ held' = held
  BY DEF vinvalbuf, Go, bufs
<1>3. held[p] = none
  BY NoneHeld DEF vinvalbuf, At
<1> HIDE DEF r
<1> QED
  BY <1>1, <1>2, <1>3, PlaceStep

LEMMA DoneStep ==
  ASSUME BufInv, NEW p \in Proc, pc[p] \in {"flush", "flushw", "inval"}, Done(p),
         UNCHANGED <<b_flags, b_blk, b_list, io, lists, nbp>>
  PROVE  BufInv'
<1>1. NoReq \in Request /\ "idle" \in Places
  BY DEF NoReq, Request, Places
<1>2. held[p] = none
  BY NoneHeld
<1>3. /\ pc' = [pc EXCEPT ![p] = "idle"] /\ req' = [req EXCEPT ![p] = NoReq]
      /\ held' = [held EXCEPT ![p] = none]
  BY DEF Done, Go
<1> HIDE DEF Done
<1> QED
  BY <1>1, <1>2, <1>3, PlaceStep

LEMMA FlushReturnStep ==
  ASSUME BufInv, NEW p \in Proc, flush_return(p) PROVE BufInv'
BY DoneStep DEF flush_return, Return, At, bufs

LEMMA InvalReturnStep ==
  ASSUME BufInv, NEW p \in Proc, inval_return(p) PROVE BufInv'
BY DoneStep DEF inval_return, At, bufs

LEMMA FlushWaitStep ==
  ASSUME BufInv, NEW p \in Proc, flush_wait(p) PROVE BufInv'
<1>1. pc[p] \in {"flush", "flushw"} /\ "flushw" \in Places
  BY DEF flush_wait, At, Places
<1>2. held[p] = none /\ req[p] \in Request /\ req[p].blk \in Vnode /\ req[p].use \in {"flush", "sync"}
  BY <1>1, NoneHeld DEF ReqFits
<1>3. /\ pc' = [pc EXCEPT ![p] = "flushw"] /\ req' = req
      /\ UNCHANGED <<b_flags, b_blk, b_list, io, lists, nbp>> /\ held' = held
  BY DEF flush_wait, Go, bufs
<1> DEFINE r == req[p]
<1>4. r \in Request /\ r.blk \in Vnode /\ r.use \in {"flush", "sync"} /\ r = req[p]
  BY <1>2
<1> HIDE DEF r
<1> QED
  BY <1>1, <1>2, <1>3, <1>4, PlaceStep

LEMMA FlushCheckStep ==
  ASSUME BufInv, NEW p \in Proc, flush_check(p) PROVE BufInv'
<1>1. pc[p] \in {"flush", "flushw"} /\ "flush" \in Places
  BY DEF flush_check, At, Places
<1>2. held[p] = none /\ req[p] \in Request /\ req[p].blk \in Vnode /\ req[p].use \in {"flush", "sync"}
  BY <1>1, NoneHeld DEF ReqFits
<1>3. UNCHANGED <<b_flags, b_blk, b_list, io, lists, nbp>>
  BY DEF flush_check, bufs
<1>4. CASE Return(p)
  BY <1>1, <1>3, <1>4, DoneStep DEF Return
<1>5. CASE Go(p, "flush") /\ req' = req /\ held' = held
  <2>1. pc' = [pc EXCEPT ![p] = "flush"] /\ req' = req /\ held' = held
    BY <1>5 DEF Go
  <2> DEFINE r == req[p]
  <2>2. r \in Request /\ r.blk \in Vnode /\ r.use \in {"flush", "sync"} /\ r = req[p]
    BY <1>2
  <2> HIDE DEF r
  <2> QED
    BY <1>1, <1>2, <1>3, <2>1, <2>2, PlaceStep
<1> QED
  BY <1>4, <1>5 DEF flush_check

LEMMA UnchangedStep ==
  ASSUME BufInv, UNCHANGED <<b_flags, b_blk, b_list, io, lists, pc, req, held, nbp>>
  PROVE  BufInv'
<1>1. PICK p \in Proc : TRUE
  BY BufAssumption
<1>2. BufType /\ ReqFits(p) /\ HeldFits(p)
  BY DEF BufInv
<1>3. BufType' /\ ReqFits(p)' /\ HeldFits(p)'
  BY <1>2 DEF BufType, ReqFits, HeldFits, Bad
<1> QED
  BY <1>3, NoBufStep

\* brelse() puts a buffer on the lists.
LEMMA Requeued ==
  ASSUME ListsFit, NEW b \in Buf \ OnLists, NEW fl,
         age' = RelAge(b, fl), lru' = RelLru(b, fl), empty' = empty
  PROVE  /\ ListsFit' /\ OnLists' = OnLists \cup {b}
         /\ b \in Range(lru') => ~Bad(fl) /\ ~Stale(fl)
         /\ \A c \in Buf \ {b} : c \in Range(lru') => c \in Range(lru)
<1>1. /\ Once(empty) /\ Once(age) /\ Once(lru)
      /\ Range(empty) \cap Range(age) = {} /\ Range(empty) \cap Range(lru) = {}
      /\ Range(age) \cap Range(lru) = {}
      /\ b \notin Range(empty) /\ b \notin Range(age) /\ b \notin Range(lru)
  BY DEF ListsFit, OnceEach, OnLists
<1>2. /\ Once(<<b>> \o age) /\ Range(<<b>> \o age) = Range(age) \cup {b}
      /\ Once(Append(age, b)) /\ Range(Append(age, b)) = Range(age) \cup {b}
      /\ Once(Append(lru, b)) /\ Range(Append(lru, b)) = Range(lru) \cup {b}
  BY <1>1, ConsIs, AppendIs
<1>3. CASE Bad(fl) \/ Stale(fl)
  <2>1. age' \in {<<b>> \o age, Append(age, b)} /\ lru' = lru
    BY <1>3 DEF RelAge, RelLru
  <2>2. Once(age') /\ Range(age') = Range(age) \cup {b}
    BY <1>2, <2>1
  <2> HIDE <1>2
  <2> QED
    BY <1>1, <2>1, <2>2 DEF ListsFit, OnceEach, OnLists
<1>4. CASE ~Bad(fl) /\ ~Stale(fl)
  <2>1. age' = age /\ lru' = Append(lru, b)
    BY <1>4 DEF RelAge, RelLru
  <2>2. Once(lru') /\ Range(lru') = Range(lru) \cup {b}
    BY <1>2, <2>1
  <2> HIDE <1>2
  <2> QED
    BY <1>1, <1>4, <2>1, <2>2 DEF ListsFit, OnceEach, OnLists
<1> QED
  BY <1>3, <1>4

\* What is true of a buffer that brelse() has put on the lists.
LEMMA ReleasedFits ==
  ASSUME BufType, NEW b \in Buf, b \notin Range(empty), empty' = empty, NEW fl \in SUBSET Flags,
         b \in OnLists', b \in Range(lru') => ~Bad(fl) /\ ~Stale(fl),
         NEW G \in SUBSET Flags, b_flags'[b] = G, "ASYNC" \notin G,
         \A f \in {"BUSY", "AGE", "INVAL", "ERROR", "DELWRI"} : f \in G <=> f \in RelFlags(fl),
         b \notin io', ~Owned(b)', b_blk[b] # none,
         b_blk'[b] = IF Bad(fl) THEN none ELSE b_blk[b],
         b_list'[b] = IF Bad(fl) THEN "none" ELSE IF "DELWRI" \in fl THEN "dirty" ELSE "clean"
  PROVE  BufFits(b)'
<1>1. CASE Bad(fl)
  <2>1. RelFlags(fl) = {"INVAL"}
    BY <1>1 DEF RelFlags
  <2>2. b_blk'[b] = none /\ b_list'[b] = "none" /\ "BUSY" \notin G /\ "DELWRI" \notin G /\ "AGE" \notin G
    BY <1>1, <2>1
  <2> QED
    BY <2>2 DEF BufFits, Delayed
<1>2. CASE ~Bad(fl)
  <2>1. /\ RelFlags(fl) \cap {"BUSY", "INVAL", "ERROR"} = {}
        /\ ("DELWRI" \in RelFlags(fl) <=> "DELWRI" \in fl)
        /\ ~Stale(fl) => "AGE" \notin RelFlags(fl)
    BY <1>2 DEF RelFlags, Bad
  <2>2. /\ "BUSY" \notin G /\ ~Bad(G) /\ ("DELWRI" \in G <=> "DELWRI" \in fl)
        /\ b \in Range(lru') => "AGE" \notin G
    BY <2>1 DEF Bad
  <2>3. b_blk'[b] # none /\ b_list'[b] = (IF "DELWRI" \in fl THEN "dirty" ELSE "clean")
    BY <1>2
  <2> QED
    BY <2>2, <2>3 DEF BufFits, Delayed
<1> QED
  BY <1>1, <1>2

LEMMA RelFlagsAre ==
  ASSUME NEW fl \in SUBSET Flags PROVE RelFlags(fl) \in SUBSET Flags
BY DEF RelFlags, Flags

\* A process gives back the buffer in its hands.
LEMMA GiveStep ==
  ASSUME BufInv, NEW p \in Proc, pc[p] \in {"held", "biowait"}, held[p] \notin io,
         NEW fl \in SUBSET Flags, "ASYNC" \notin fl,
         "DELWRI" \in b_flags[held[p]] => "DELWRI" \in fl,
         age' = RelAge(held[p], fl), lru' = RelLru(held[p], fl), empty' = empty,
         b_flags' = [b_flags EXCEPT ![held[p]] = RelFlags(fl)],
         b_blk' = IF Bad(fl) THEN [b_blk EXCEPT ![held[p]] = none] ELSE b_blk,
         b_list' = IF Bad(fl) THEN [b_list EXCEPT ![held[p]] = "none"]
                   ELSE IF "DELWRI" \in fl THEN [b_list EXCEPT ![held[p]] = "dirty"] ELSE b_list,
         held' = [held EXCEPT ![p] = none], io' = io, nbp' = nbp,
         NEW place \in {"idle", "inval"}, pc' = [pc EXCEPT ![p] = place],
         NEW r \in Request, req' = [req EXCEPT ![p] = r],
         place = "idle" => r = NoReq,
         place = "inval" => r.blk \in Vnode /\ r.use \in {"inval", "save"}
  PROVE  BufInv'
<1>0. BufType /\ ListsFit /\ ReqFits(p) /\ HeldFits(p) /\ held[p] # none /\ req[p].blk # none
  BY BufAssumption DEF BufInv, ReqFits, Holding
<1>1. PICK b \in Buf : b = held[p]
  BY <1>0 DEF BufType
<1>2. /\ \A q \in Proc \ {p} : held[q] # b
      /\ b \notin OnLists /\ BufFits(b) /\ b \notin io /\ b_blk[b] # none
  BY <1>0, <1>1, OwnerOnly DEF HeldFits
<1> DEFINE G == RelFlags(fl)
<1>3. G \in SUBSET Flags /\ "ASYNC" \notin G
  BY RelFlagsAre DEF RelFlags
<1>4. /\ ListsFit' /\ OnLists' = OnLists \cup {b}
      /\ b \in Range(lru') => ~Bad(fl) /\ ~Stale(fl)
      /\ \A c \in Buf \ {b} : c \in Range(lru') => c \in Range(lru)
  BY <1>0, <1>1, <1>2, Requeued
<1> DEFINE x == IF Bad(fl) THEN "none" ELSE IF "DELWRI" \in fl THEN "dirty" ELSE "clean"
           y == IF Bad(fl) THEN none ELSE b_blk[b]
<1>5. /\ b_flags'[b] = G /\ b_blk'[b] = y /\ b_list'[b] = x
      /\ \A c \in Buf \ {b} : b_flags'[c] = b_flags[c] /\ b_blk'[c] = b_blk[c] /\ b_list'[c] = b_list[c]
  <2>1. b_flags'[b] = G /\ \A c \in Buf \ {b} : b_flags'[c] = b_flags[c]
    BY <1>0, <1>1 DEF BufType
  <2>2. b_blk'[b] = y /\ \A c \in Buf \ {b} : b_blk'[c] = b_blk[c]
    BY <1>0, <1>1 DEF BufType
  <2>3. b_list'[b] = x /\ \A c \in Buf \ {b} : b_list'[c] = b_list[c]
    <3>1. CASE Bad(fl)
      BY <1>0, <1>1, <3>1 DEF BufType
    <3>2. CASE ~Bad(fl) /\ "DELWRI" \in fl
      BY <1>0, <1>1, <3>2 DEF BufType
    <3>3. CASE ~Bad(fl) /\ "DELWRI" \notin fl
      <4>1. b_list' = b_list /\ b_list[b] = "clean"
        BY <1>1, <1>2, <3>3 DEF BufFits, Delayed
      <4> QED
        BY <3>3, <4>1
    <3> QED
      BY <3>1, <3>2, <3>3
  <2> QED
    BY <2>1, <2>2, <2>3
<1>6. /\ b_flags' \in [Buf -> SUBSET Flags] /\ b_blk' \in [Buf -> Block \cup {none}]
      /\ b_list' \in [Buf -> {"none", "clean", "dirty"}]
  <2> HIDE DEF G
  <2>1. b_flags' \in [Buf -> SUBSET Flags]
    BY <1>0, <1>3 DEF BufType, G
  <2> QED
    BY <1>0, <2>1 DEF BufType
<1>7. /\ pc'[p] = place /\ req'[p] = r /\ held'[p] = none
      /\ \A q \in Proc \ {p} : pc'[q] = pc[q] /\ req'[q] = req[q] /\ held'[q] = held[q]
  BY <1>0, OthersStay
<1>8. BufType'
  BY <1>0, <1>6 DEF BufType, Places
<1>9. \A c \in Buf \ {b} : Same(c)
  BY <1>4, <1>5 DEF Same
<1>10. BufFits(b)'
  <2>1. ~Owned(b)'
    BY <1>2, <1>7, BufAssumption DEF Owned
  <2>2. b \notin Range(empty) /\ b \in OnLists' /\ b \notin io'
    BY <1>2, <1>4 DEF OnLists
  <2>3. \A f \in {"BUSY", "AGE", "INVAL", "ERROR", "DELWRI"} : f \in G <=> f \in RelFlags(fl)
    OBVIOUS
  <2> HIDE DEF G
  <2> QED
    BY <1>0, <1>2, <1>3, <1>4, <1>5, <2>1, <2>2, <2>3, ReleasedFits
<1>11. ReqFits(p)' /\ HeldFits(p)'
  BY <1>7 DEF ReqFits, HeldFits, Holding
<1>12. /\ \A c \in Buf \ {b} : held'[p] = c <=> held[p] = c
       /\ held'[p] = b => \A q \in Proc \ {p} : held[q] # b
  BY <1>1, <1>7, BufAssumption
<1> QED
  BY <1>2, <1>4, <1>7, <1>8, <1>9, <1>10, <1>11, <1>12, OneBufStep

LEMMA BwriteDoneStep ==
  ASSUME BufInv, NEW p \in Proc, bwrite_done(p) PROVE BufInv'
<1>0. /\ BufType /\ ReqFits(p) /\ HeldFits(p) /\ pc[p] = "biowait" /\ held[p] # none
      /\ req[p].blk \in Block /\ req[p].use \in {"bwrite", "ibwrite"} /\ "DONE" \in b_flags[held[p]]
  BY DEF BufInv, bwrite_done, At, ReqFits, Holding
<1>1. PICK b \in Buf : b = held[p]
  BY <1>0 DEF BufType
<1>2. b \notin io /\ "ASYNC" \notin b_flags[b] /\ "DELWRI" \notin b_flags[b] /\ BufFits(b)
  <2>1. "ASYNC" \notin b_flags[b] /\ BufFits(b)
    BY <1>0, <1>1, OwnerOnly
  <2> QED
    BY <1>0, <1>1, <2>1 DEF BufFits, HeldFits
<1> DEFINE fl == Result(b)
           place == IF req[p].use = "bwrite" THEN "idle" ELSE "inval"
           r == IF req[p].use = "bwrite" THEN NoReq ELSE [use |-> "save", blk |-> VnodeOf[req[p].blk]]
<1>3. fl \in SUBSET Flags /\ "ASYNC" \notin fl /\ "DELWRI" \notin fl
  BY <1>0, <1>1, <1>2 DEF Result, BufType, Flags
<1>4. brelse(b, fl) /\ Go(p, place) /\ req' = [req EXCEPT ![p] = r] /\ held' = [held EXCEPT ![p] = none]
      /\ io' = io /\ nbp' = nbp
  BY <1>0, <1>1 DEF bwrite_done, BufType
<1>5. VnodeOf[req[p].blk] \in Vnode
  BY <1>0, BufAssumption
<1>6. /\ r \in Request /\ place \in {"idle", "inval"}
      /\ place = "idle" => r = NoReq
      /\ place = "inval" => r.blk \in Vnode /\ r.use \in {"inval", "save"}
  BY <1>5 DEF Request, NoReq
<1> HIDE DEF fl, place, r
<1>7. /\ age' = RelAge(b, fl) /\ lru' = RelLru(b, fl) /\ empty' = empty
      /\ b_flags' = [b_flags EXCEPT ![b] = RelFlags(fl)]
      /\ b_blk' = (IF Bad(fl) THEN [b_blk EXCEPT ![b] = none] ELSE b_blk)
      /\ b_list' = (IF Bad(fl) THEN [b_list EXCEPT ![b] = "none"]
                    ELSE IF "DELWRI" \in fl THEN [b_list EXCEPT ![b] = "dirty"] ELSE b_list)
  BY <1>3, <1>4 DEF brelse, Requeue
<1>8. pc' = [pc EXCEPT ![p] = place]
  BY <1>4 DEF Go
<1>9. pc[p] \in {"held", "biowait"}
  BY <1>0
<1> QED
  BY <1>1, <1>2, <1>3, <1>4, <1>6, <1>7, <1>8, <1>9, GiveStep

\* Who has a buffer in its hands gives it back and is done.
LEMMA HeldIs ==
  ASSUME BufInv, NEW p \in Proc, pc[p] = "held"
  PROVE  /\ held[p] \in Buf /\ held[p] \notin io /\ "ASYNC" \notin b_flags[held[p]]
         /\ b_blk[held[p]] = req[p].blk /\ req[p].blk \in Block /\ b_blk[held[p]] # none
         /\ BufFits(held[p]) /\ b_flags[held[p]] \in SUBSET Flags
<1>1. ReqFits(p) /\ HeldFits(p) /\ held[p] # none /\ req[p].blk \in Block
  BY DEF BufInv, ReqFits, Holding
<1>2. held[p] \in Buf /\ "ASYNC" \notin b_flags[held[p]] /\ BufFits(held[p])
  BY <1>1, OwnerOnly
<1>3. b_flags[held[p]] \in SUBSET Flags
  BY <1>2 DEF BufInv, BufType
<1> QED
  BY <1>1, <1>2, <1>3, BufAssumption DEF HeldFits

LEMMA DoneGivesBack ==
  ASSUME BufInv, NEW p \in Proc, pc[p] = "held",
         NEW fl \in SUBSET Flags, "ASYNC" \notin fl,
         "DELWRI" \in b_flags[held[p]] => "DELWRI" \in fl,
         age' = RelAge(held[p], fl), lru' = RelLru(held[p], fl), empty' = empty,
         b_flags' = [b_flags EXCEPT ![held[p]] = RelFlags(fl)],
         b_blk' = IF Bad(fl) THEN [b_blk EXCEPT ![held[p]] = none] ELSE b_blk,
         b_list' = IF Bad(fl) THEN [b_list EXCEPT ![held[p]] = "none"]
                   ELSE IF "DELWRI" \in fl THEN [b_list EXCEPT ![held[p]] = "dirty"] ELSE b_list,
         Done(p), io' = io, nbp' = nbp
  PROVE  BufInv'
<1> DEFINE place == "idle"
           r == NoReq
<1>1. place \in {"idle", "inval"} /\ r \in Request /\ r = NoReq
  BY DEF NoReq, Request
<1>2. /\ pc' = [pc EXCEPT ![p] = place] /\ req' = [req EXCEPT ![p] = r]
      /\ held' = [held EXCEPT ![p] = none]
  BY DEF Done, Go
<1>3. place # "inval" /\ held[p] \notin io /\ pc[p] \in {"held", "biowait"}
  BY HeldIs
<1> HIDE DEF place, r
<1> QED
  BY <1>1, <1>2, <1>3, GiveStep

LEMMA BrelseHeldStep ==
  ASSUME BufInv, NEW p \in Proc, NEW inval \in BOOLEAN, brelse_held(p, inval) PROVE BufInv'
<1>0. pc[p] = "held"
  BY DEF brelse_held, At
<1> DEFINE b == held[p]
           fl == b_flags[b] \cup (IF inval THEN {"INVAL"} ELSE {})
<1>1. /\ b \in Buf /\ "ASYNC" \notin b_flags[b] /\ b_blk[b] # none /\ BufFits(b)
      /\ b_flags[b] \in SUBSET Flags /\ BufType
  BY <1>0, HeldIs DEF BufInv
<1>2. fl \in SUBSET Flags /\ "ASYNC" \notin fl /\ ("DELWRI" \in fl <=> "DELWRI" \in b_flags[b])
  BY <1>1 DEF Flags
<1>3. brelse(b, fl) /\ Done(p) /\ io' = io /\ nbp' = nbp
  BY DEF brelse_held
<1> HIDE DEF fl
<1>4. /\ age' = RelAge(b, fl) /\ lru' = RelLru(b, fl) /\ empty' = empty
      /\ b_flags' = [b_flags EXCEPT ![b] = RelFlags(fl)]
      /\ b_blk' = (IF Bad(fl) THEN [b_blk EXCEPT ![b] = none] ELSE b_blk)
      /\ b_list' = (IF Bad(fl) THEN [b_list EXCEPT ![b] = "none"] ELSE b_list)
  BY <1>3 DEF brelse, Requeue
<1>5. b_list' = (IF Bad(fl) THEN [b_list EXCEPT ![b] = "none"]
                 ELSE IF "DELWRI" \in fl THEN [b_list EXCEPT ![b] = "dirty"] ELSE b_list)
  <2>1. "DELWRI" \in fl => b_list[b] = "dirty"
    BY <1>1, <1>2 DEF BufFits, Delayed
  <2>2. "DELWRI" \in fl => [b_list EXCEPT ![b] = "dirty"] = b_list
    BY <1>1, <2>1 DEF BufType
  <2> QED
    BY <1>4, <2>2
<1> QED
  BY <1>0, <1>2, <1>3, <1>4, <1>5, DoneGivesBack

LEMMA BdwriteStep ==
  ASSUME BufInv, NEW p \in Proc, bdwrite(p) PROVE BufInv'
<1>0. pc[p] = "held" /\ req[p].use # "bad"
  BY DEF bdwrite, MayWrite, At
<1> DEFINE b == held[p]
           fl == (b_flags[b] \ {"READ", "DONE"}) \cup {"DIRTY", "DELWRI"}
<1>1. /\ b \in Buf /\ "ASYNC" \notin b_flags[b] /\ b_flags[b] \in SUBSET Flags /\ ~Bad(b_flags[b])
  <2>1. HeldFits(p) /\ held[p] # none
    BY <1>0 DEF BufInv, ReqFits, Holding
  <2> QED
    BY <1>0, <2>1, HeldIs DEF HeldFits
<1>2. fl \in SUBSET Flags /\ "ASYNC" \notin fl /\ "DELWRI" \in fl /\ ~Bad(fl)
  BY <1>1 DEF Flags, Bad
<1>3. /\ age' = RelAge(b, fl) /\ lru' = RelLru(b, fl) /\ empty' = empty
      /\ b_flags' = [b_flags EXCEPT ![b] = RelFlags(fl)] /\ b_blk' = b_blk
      /\ b_list' = [b_list EXCEPT ![b] = "dirty"]
      /\ Done(p) /\ io' = io /\ nbp' = nbp
  BY DEF bdwrite
<1> HIDE DEF fl
<1>4. /\ b_blk' = (IF Bad(fl) THEN [b_blk EXCEPT ![b] = none] ELSE b_blk)
      /\ b_list' = (IF Bad(fl) THEN [b_list EXCEPT ![b] = "none"]
                    ELSE IF "DELWRI" \in fl THEN [b_list EXCEPT ![b] = "dirty"] ELSE b_list)
  BY <1>2, <1>3
<1> QED
  BY <1>0, <1>2, <1>3, <1>4, DoneGivesBack

\* bread() returns the buffer.
LEMMA BreadDoneStep ==
  ASSUME BufInv, NEW p \in Proc, bread_done(p) PROVE BufInv'
<1>0. /\ BufType /\ ListsFit /\ ReqFits(p) /\ HeldFits(p) /\ pc[p] = "biowait" /\ held[p] # none
      /\ req[p].blk \in Block /\ req[p].use \in {"bread", "breada"} /\ "DONE" \in b_flags[held[p]]
  BY DEF BufInv, bread_done, At, ReqFits, Holding
<1>1. PICK b \in Buf : b = held[p]
  BY <1>0 DEF BufType
<1>2. /\ b \notin io /\ b_flags[b] \cap {"ASYNC", "DELWRI", "INVAL"} = {} /\ "BUSY" \in b_flags[b] /\ b_blk[b] # none
      /\ BufFits(b) /\ (\A q \in Proc \ {p} : held[q] # b) /\ b \notin OnLists
  <2>1. /\ "ASYNC" \notin b_flags[b] /\ BufFits(b) /\ (\A q \in Proc \ {p} : held[q] # b)
        /\ b \notin OnLists /\ "BUSY" \in b_flags[b]
    BY <1>0, <1>1, OwnerOnly
  <2> QED
    BY <1>0, <1>1, <2>1, BufAssumption DEF BufFits, HeldFits
<1> DEFINE F == Result(b)
           r == IF Failed(b) THEN [req[p] EXCEPT !.use = "bad"] ELSE req[p]
<1>3. F \in SUBSET Flags /\ (\A f \in {"BUSY", "ASYNC", "DELWRI", "DONE", "AGE"} : f \in F <=> f \in b_flags[b])
  BY <1>0 DEF Result, BufType, Flags
<1>4. r \in Request /\ r.blk = req[p].blk /\ r.use \in {"bread", "breada", "bad"}
      /\ (r.use # "bad" => ~Bad(F))
  <2>1. req[p] \in Request
    BY <1>0 DEF BufType
  <2> QED
    BY <1>0, <1>2, <2>1 DEF Request, Bad, Result, Failed
<1>5. /\ b_flags' = [b_flags EXCEPT ![b] = F] /\ pc' = [pc EXCEPT ![p] = "held"]
      /\ UNCHANGED <<b_blk, b_list, lists, io, held, nbp>>
  BY <1>1 DEF bread_done, Go
<1>6. req' = [req EXCEPT ![p] = r]
  <2>1. req' = IF Failed(b) THEN [req EXCEPT ![p].use = "bad"] ELSE req
    BY <1>1 DEF bread_done
  <2> QED
    BY <1>0, <2>1 DEF BufType
<1> HIDE DEF F, r
<1>7. b_flags'[b] = F /\ (\A c \in Buf \ {b} : b_flags'[c] = b_flags[c]) /\ b_flags' \in [Buf -> SUBSET Flags]
  BY <1>0, <1>3, <1>5 DEF BufType
<1>8. /\ pc'[p] = "held" /\ req'[p] = r /\ held'[p] = b
      /\ \A q \in Proc \ {p} : pc'[q] = pc[q] /\ req'[q] = req[q] /\ held'[q] = held[q]
  BY <1>0, <1>1, <1>5, <1>6 DEF BufType
<1>9. ListsFit' /\ OnLists' = OnLists /\ empty' = empty /\ lru' = lru
  BY <1>0, <1>5 DEF ListsFit, OnceEach, OnLists, lists
<1>10. BufType'
  BY <1>0, <1>4, <1>5, <1>6, <1>7 DEF BufType, Places
<1>11. \A c \in Buf \ {b} : Same(c)
  BY <1>5, <1>7, <1>9 DEF Same
<1>12. BufFits(b)'
  <2>1. Owned(b)'
    BY <1>8 DEF Owned
  <2>2. b \notin Range(empty) /\ b \notin Range(lru)
    BY <1>2 DEF OnLists
  <2> QED
    BY <1>2, <1>3, <1>5, <1>7, <1>9, <2>1, <2>2 DEF BufFits, Delayed
<1>13. ReqFits(p)'
  BY <1>0, <1>4, <1>8, BufAssumption DEF ReqFits, Holding
<1>14. HeldFits(p)'
  BY <1>0, <1>1, <1>2, <1>4, <1>5, <1>7, <1>8 DEF HeldFits
<1>15. /\ \A c \in Buf \ {b} : held'[p] = c <=> held[p] = c
       /\ held'[p] = b => \A q \in Proc \ {p} : held[q] # b
  BY <1>1, <1>2, <1>8
<1> QED
  BY <1>2, <1>8, <1>9, <1>10, <1>11, <1>12, <1>13, <1>14, <1>15, OneBufStep

\* What is true of a buffer whose write was started.
LEMMA StartedFits ==
  ASSUME NEW b \in Buf, b_blk[b] # none, b_blk'[b] = b_blk[b], ~Bad(b_flags[b]), NEW async \in BOOLEAN,
         b_flags'[b] = Started(b_flags[b] \cup {"BUSY"}, async),
         b \in io', b \notin OnLists', b_list'[b] = "clean", Owned(b)' <=> ~async
  PROVE  BufFits(b)'
<1>1. /\ {"BUSY", "DIRTY"} \subseteq b_flags'[b] /\ ("ASYNC" \in b_flags'[b] <=> async)
      /\ b_flags'[b] \cap {"INVAL", "ERROR", "DELWRI", "DONE"} = {}
  BY DEF Started, Bad
<1>2. b \notin Range(empty') /\ b \notin Range(lru')
  BY DEF OnLists
<1> QED
  BY <1>1, <1>2 DEF BufFits, Delayed

LEMMA StartedAre ==
  ASSUME NEW fl \in SUBSET Flags, NEW async \in BOOLEAN PROVE Started(fl, async) \in SUBSET Flags
BY DEF Started, Flags

\* A process starts the write of the buffer in its hands.
LEMMA StartStep ==
  ASSUME BufInv, NEW p \in Proc, pc[p] = "held", req[p].use # "bad", NEW async \in BOOLEAN,
         StartWrite(held[p], async), UNCHANGED <<b_blk, lists, nbp>>,
         IF async THEN Done(p)
         ELSE held' = held /\ pc' = [pc EXCEPT ![p] = "biowait"] /\ req' = [req EXCEPT ![p].use = "bwrite"]
  PROVE  BufInv'
<1>0. BufType /\ ListsFit /\ HeldFits(p) /\ held[p] # none /\ req[p] \in Request
  BY DEF BufInv, BufType, ReqFits, Holding
<1>1. PICK b \in Buf : b = held[p]
  BY <1>0 DEF BufType
<1>2. /\ b \notin io /\ b_blk[b] = req[p].blk /\ req[p].blk \in Block /\ b_blk[b] # none
      /\ BufFits(b) /\ b_flags[b] \in SUBSET Flags
      /\ (\A q \in Proc \ {p} : held[q] # b) /\ b \notin OnLists /\ "BUSY" \in b_flags[b]
      /\ ~Bad(b_flags[b])
  BY <1>0, <1>1, HeldIs, OwnerOnly DEF HeldFits
<1> DEFINE F == Started(b_flags[b], async)
<1>3. F \in SUBSET Flags /\ F = Started(b_flags[b] \cup {"BUSY"}, async)
  <2>1. b_flags[b] \cup {"BUSY"} = b_flags[b]
    BY <1>2
  <2> QED
    BY <1>2, <2>1, StartedAre
<1>4. /\ b_flags' = [b_flags EXCEPT ![b] = F] /\ io' = io \cup {b}
      /\ b_list' = [b_list EXCEPT ![b] = IF Delayed(b) THEN "clean" ELSE @]
  BY <1>1 DEF StartWrite
<1> HIDE DEF F
<1>5. /\ b_flags'[b] = F /\ b_list'[b] = "clean"
      /\ \A c \in Buf \ {b} : b_flags'[c] = b_flags[c] /\ b_list'[c] = b_list[c]
      /\ b_flags' \in [Buf -> SUBSET Flags] /\ b_list' \in [Buf -> {"none", "clean", "dirty"}]
  <2>1. ~Delayed(b) => b_list[b] = "clean"
    BY <1>2 DEF BufFits
  <2> QED
    BY <1>0, <1>3, <1>4, <2>1 DEF BufType
<1>6. ListsFit' /\ OnLists' = OnLists /\ empty' = empty /\ lru' = lru
  BY <1>0 DEF ListsFit, OnceEach, OnLists, lists
<1> DEFINE r == IF async THEN NoReq ELSE [req[p] EXCEPT !.use = "bwrite"]
           h == IF async THEN none ELSE b
           place == IF async THEN "idle" ELSE "biowait"
<1>7. req' = [req EXCEPT ![p] = r] /\ pc' = [pc EXCEPT ![p] = place] /\ held' = [held EXCEPT ![p] = h]
  <2>1. CASE async
    BY <2>1 DEF Done, Go
  <2>2. CASE ~async
    BY <1>0, <1>1, <2>2 DEF BufType
  <2> QED
    BY <2>1, <2>2
<1>8. /\ place \in Places /\ r \in Request
      /\ (async => r = NoReq) /\ (~async => r.blk = req[p].blk /\ r.use = "bwrite")
  BY <1>0 DEF Places, Request, NoReq
<1> HIDE DEF r
<1>9. /\ pc'[p] = place /\ req'[p] = r /\ held'[p] = h
      /\ \A q \in Proc \ {p} : pc'[q] = pc[q] /\ req'[q] = req[q] /\ held'[q] = held[q]
  BY <1>0, <1>7 DEF BufType
<1>10. BufType'
  BY <1>0, <1>4, <1>5, <1>7, <1>8 DEF BufType
<1>11. \A c \in Buf \ {b} : Same(c)
  BY <1>4, <1>5, <1>6 DEF Same
<1>12. BufFits(b)'
  <2>1. Owned(b)' <=> ~async
    BY <1>2, <1>9, BufAssumption DEF Owned
  <2> QED
    BY <1>2, <1>3, <1>4, <1>5, <1>6, <2>1, StartedFits
<1>13. ReqFits(p)'
  BY <1>2, <1>8, <1>9, BufAssumption DEF ReqFits, Holding
<1>14. HeldFits(p)'
  <2>1. F \cap {"INVAL", "DELWRI"} = {}
    BY <1>2 DEF F, Started, Bad
  <2> QED
    BY <1>2, <1>4, <1>5, <1>8, <1>9, <2>1 DEF HeldFits
<1>15. /\ \A c \in Buf \ {b} : held'[p] = c <=> held[p] = c
       /\ held'[p] = b => \A q \in Proc \ {p} : held[q] # b
  BY <1>1, <1>2, <1>9, BufAssumption
<1> QED
  BY <1>2, <1>6, <1>9, <1>10, <1>11, <1>12, <1>13, <1>14, <1>15, OneBufStep

LEMMA BwriteStep ==
  ASSUME BufInv, NEW p \in Proc, bwrite(p) PROVE BufInv'
<1> DEFINE async == FALSE
<1>1. /\ pc[p] = "held" /\ req[p].use # "bad" /\ async \in BOOLEAN
      /\ StartWrite(held[p], async) /\ UNCHANGED <<b_blk, lists, nbp>>
      /\ IF async THEN Done(p)
         ELSE held' = held /\ pc' = [pc EXCEPT ![p] = "biowait"] /\ req' = [req EXCEPT ![p].use = "bwrite"]
  BY DEF bwrite, MayWrite, At, Go
<1> HIDE DEF async
<1> QED
  BY <1>1, StartStep

LEMMA BawriteStep ==
  ASSUME BufInv, NEW p \in Proc, bawrite(p) PROVE BufInv'
<1> DEFINE async == TRUE
<1>1. /\ pc[p] = "held" /\ req[p].use # "bad" /\ async \in BOOLEAN
      /\ StartWrite(held[p], async) /\ UNCHANGED <<b_blk, lists, nbp>>
      /\ IF async THEN Done(p)
         ELSE held' = held /\ pc' = [pc EXCEPT ![p] = "biowait"] /\ req' = [req EXCEPT ![p].use = "bwrite"]
  BY DEF bawrite, MayWrite, At
<1> HIDE DEF async
<1> QED
  BY <1>1, StartStep

LEMMA FlushOneStep ==
  ASSUME BufInv, NEW p \in Proc, flush_one(p) PROVE BufInv'
<1>0. BufType /\ ListsFit /\ pc[p] = "flush" /\ held[p] = none /\ ReqFits(p)
  BY NoneHeld DEF BufInv, flush_one, At
<1>1. PICK b \in Idle(OnVnode(req[p].blk, "dirty")) :
        /\ age' = Without(age, {b}) /\ lru' = Without(lru, {b})
        /\ b_flags' = PushedFlags({b}) /\ b_list' = PushedList({b})
        /\ io' = io \cup {b}
        /\ UNCHANGED <<b_blk, empty, pc, req, held, nbp>>
  BY DEF flush_one
<1>2. b \in Buf /\ b_list[b] = "dirty" /\ "BUSY" \notin b_flags[b] /\ BufFits(b)
  BY <1>1 DEF Idle, OnVnode, BufInv
<1> DEFINE S == {b}
<1>3. S \in SUBSET Buf /\ S \subseteq OnLists /\ (\A c \in S : Delayed(c)) /\ S \cap Range(empty) = {}
  BY <1>2 DEF BufFits
<1>4. /\ empty' = empty /\ age' = Without(age, S) /\ lru' = Without(lru, S)
      /\ b_flags' = PushedFlags(S) /\ b_list' = PushedList(S) /\ io' = io \cup S
      /\ UNCHANGED <<b_blk, held, nbp>>
      /\ pc' \in [Proc -> Places] /\ req' \in [Proc -> Request]
      /\ \A q \in Proc \ {p} : pc'[q] = pc[q] /\ req'[q] = req[q]
  BY <1>0, <1>1 DEF BufType
<1> HIDE DEF S
<1>5. TakenOff(S)
  BY <1>0, <1>3, <1>4, WithoutBoth
<1>6. ReqFits(p)'
  BY <1>0, <1>1 DEF ReqFits
<1> QED
  BY <1>0, <1>3, <1>4, <1>5, <1>6, PushOnlyStep

\* The buffer of the turn of vinvalbuf() has a block.
LEMMA TurnIs ==
  ASSUME BufInv, NEW p \in Proc, pc[p] = "inval", NEW b \in Turn(p)
  PROVE  b \in Buf /\ b_blk[b] # none /\ b_list[b] # "none" /\ BufFits(b)
<1>1. b \in Buf /\ b_blk[b] # none /\ b_list[b] # "none"
  BY DEF Turn, Remaining, OnVnode
<1> QED
  BY <1>1 DEF BufInv

LEMMA InvalBusyStep ==
  ASSUME BufInv, NEW p \in Proc, inval_busy(p) PROVE BufInv'
<1>0. BufType /\ pc[p] = "inval" /\ held[p] = none /\ ReqFits(p)
  BY NoneHeld DEF inval_busy, At
<1>1. PICK b \in Turn(p) :
        /\ b_flags' = [b_flags EXCEPT ![b] = @ \cup {"WANTED"}]
        /\ nbp' = [nbp EXCEPT ![p] = none]
        /\ UNCHANGED <<b_blk, b_list, lists, io, pc, req, held>>
  BY DEF inval_busy
<1>2. b \in Buf /\ b_blk[b] # none
  BY <1>0, TurnIs
<1> DEFINE F == b_flags[b] \cup {"WANTED"}
<1>3. /\ F \in SUBSET Flags
      /\ \A f \in F : f \in b_flags[b] \/ f \in {"WANTED", "CACHE"}
      /\ \A f \in b_flags[b] : f \in F \/ f = "AGE"
      /\ b_flags' = [b_flags EXCEPT ![b] = F]
  BY <1>0, <1>1, <1>2 DEF BufType, Flags
<1> HIDE DEF F
<1>4. BufType'
  BY <1>0, <1>1, <1>2, <1>3 DEF BufType
<1>5. ReqFits(p)' /\ \A q \in Proc \ {p} : pc'[q] = pc[q] /\ req'[q] = req[q]
  BY <1>0, <1>1 DEF ReqFits
<1> QED
  BY <1>0, <1>1, <1>2, <1>3, <1>4, <1>5, MarkStep

\* vinvalbuf() writes the buffer.
LEMMA InvalSaveStep ==
  ASSUME BufInv, NEW p \in Proc, inval_save(p) PROVE BufInv'
<1>0. BufType /\ ListsFit /\ pc[p] = "inval" /\ held[p] = none
  BY NoneHeld DEF BufInv, inval_save, At
<1>1. PICK b \in Idle(Turn(p)) :
        /\ age' = Without(age, {b}) /\ lru' = Without(lru, {b})
        /\ b_flags' = [b_flags EXCEPT ![b] = Started(@ \cup {"BUSY"}, FALSE)]
        /\ b_list' = [b_list EXCEPT ![b] = "clean"]
        /\ io' = io \cup {b}
        /\ held' = [held EXCEPT ![p] = b]
        /\ pc' = [pc EXCEPT ![p] = "biowait"]
        /\ req' = [req EXCEPT ![p] = [use |-> "ibwrite", blk |-> b_blk[b]]]
        /\ nbp' = [nbp EXCEPT ![p] = none]
        /\ UNCHANGED <<b_blk, empty>>
  BY DEF inval_save, Go
<1>2. b \in Buf /\ b_blk[b] # none /\ BufFits(b) /\ "BUSY" \notin b_flags[b] /\ b_blk[b] \in Block
  BY <1>0, <1>1, TurnIs DEF Idle, BufType
<1>3. (\A q \in Proc : held[q] # b) /\ ~Bad(b_flags[b])
  BY <1>2, FreeUnowned
<1> DEFINE F == Started(b_flags[b] \cup {"BUSY"}, FALSE)
           r == [use |-> "ibwrite", blk |-> b_blk[b]]
           place == "biowait"
<1>4. F \in SUBSET Flags
  <2>1. b_flags[b] \cup {"BUSY"} \in SUBSET Flags
    BY <1>0, <1>2 DEF BufType, Flags
  <2> QED
    BY <2>1, StartedAre
<1>5. r \in Request /\ r.use = "ibwrite" /\ r.blk = b_blk[b] /\ place \in Places
  BY <1>2 DEF Request, Places
<1>6. /\ b_flags' = [b_flags EXCEPT ![b] = F] /\ req' = [req EXCEPT ![p] = r]
      /\ pc' = [pc EXCEPT ![p] = place]
  BY <1>1
<1>7. F \cap {"INVAL", "DELWRI"} = {}
  BY <1>3 DEF Started, Bad
<1> HIDE DEF F, r
<1>8. /\ b_flags'[b] = F /\ b_list'[b] = "clean"
      /\ \A c \in Buf \ {b} : b_flags'[c] = b_flags[c] /\ b_list'[c] = b_list[c]
      /\ b_flags' \in [Buf -> SUBSET Flags] /\ b_list' \in [Buf -> {"none", "clean", "dirty"}]
  BY <1>0, <1>1, <1>2, <1>4, <1>6 DEF BufType
<1>9. /\ pc'[p] = place /\ req'[p] = r /\ held'[p] = b
      /\ \A q \in Proc \ {p} : pc'[q] = pc[q] /\ req'[q] = req[q] /\ held'[q] = held[q]
  <2>1. held' = [held EXCEPT ![p] = b] /\ BufType
    BY <1>0, <1>1
  <2> HIDE DEF place
  <2> QED
    BY <1>6, <2>1, OthersStay
<1>10. BufType'
  <2>1. held' \in [Proc -> Buf \cup {none}] /\ nbp' \in [Proc -> Buf \cup {none}] /\ io' \in SUBSET Buf
    BY <1>0, <1>1, <1>2 DEF BufType
  <2>2. pc' \in [Proc -> Places] /\ req' \in [Proc -> Request]
    BY <1>0, <1>5, <1>6 DEF BufType
  <2>3. b_blk' \in [Buf -> Block \cup {none}]
    BY <1>0, <1>1 DEF BufType
  <2> QED
    BY <1>8, <2>1, <2>2, <2>3 DEF BufType
<1>11. TakenOff({b})
  <2> DEFINE S == {b}
  <2>1. b \notin Range(empty)
    BY <1>2 DEF BufFits
  <2>2. /\ S \in SUBSET Buf /\ S \cap Range(empty) = {} /\ empty' = empty
        /\ age' = Without(age, S) /\ lru' = Without(lru, S)
    BY <1>1, <1>2, <2>1
  <2> HIDE DEF S
  <2>3. TakenOff(S)
    BY <1>0, <2>2, WithoutBoth
  <2> QED
    BY <2>3 DEF S
<1>12. \A c \in Buf \ {b} : Same(c)
  BY <1>1, <1>8, <1>11 DEF Same, TakenOff
<1>13. BufFits(b)'
  <2> DEFINE async == FALSE
  <2>1. (Owned(b)' <=> ~async) /\ b \notin OnLists' /\ b \in io' /\ async \in BOOLEAN
    BY <1>1, <1>9, <1>11 DEF Owned, TakenOff
  <2>2. b_flags'[b] = Started(b_flags[b] \cup {"BUSY"}, async) /\ b_blk'[b] = b_blk[b]
    BY <1>1, <1>8 DEF F
  <2> HIDE DEF async
  <2> QED
    BY <1>2, <1>3, <1>8, <2>1, <2>2, StartedFits
<1>14. ReqFits(p)'
  BY <1>2, <1>5, <1>9, BufAssumption DEF ReqFits, Holding
<1>15. HeldFits(p)'
  <2>1. b \in io' /\ b_blk'[b] = r.blk /\ b_flags'[b] \cap {"INVAL", "DELWRI"} = {} /\ r.use = "ibwrite"
    BY <1>1, <1>5, <1>7, <1>8
  <2>2. pc'[p] = "biowait" /\ req'[p] = r /\ held'[p] = b
    BY <1>9
  <2> QED
    BY <2>1, <2>2 DEF HeldFits
<1>16. /\ \A c \in Buf \ {b} : held'[p] = c <=> held[p] = c
       /\ held'[p] = b => \A q \in Proc \ {p} : held[q] # b
  BY <1>0, <1>3, <1>9, BufAssumption
<1> QED
  BY <1>2, <1>3, <1>9, <1>10, <1>11, <1>12, <1>13, <1>14, <1>15, <1>16, OneBufStep DEF TakenOff

\* vinvalbuf() throws the buffer away.
LEMMA InvalDropStep ==
  ASSUME BufInv, NEW p \in Proc, inval_drop(p) PROVE BufInv'
<1>0. BufType /\ ListsFit /\ pc[p] = "inval" /\ held[p] = none /\ ReqFits(p)
  BY NoneHeld DEF BufInv, inval_drop, At
<1>1. PICK b \in Idle(Turn(p)) :
        /\ b_blk' = [b_blk EXCEPT ![b] = none] /\ b_list' = [b_list EXCEPT ![b] = "none"]
        /\ b_flags' = [b_flags EXCEPT ![b] = {"INVAL"}]
        /\ age' = <<b>> \o Without(age, {b}) /\ lru' = Without(lru, {b})
        /\ LET rest == OnVnode(req[p].blk, b_list[b]) \ {b}
           IN \/ rest = {} /\ nbp' = [nbp EXCEPT ![p] = none]
              \/ \E n \in rest : nbp' = [nbp EXCEPT ![p] = n]
        /\ UNCHANGED <<empty, io, pc, req, held>>
  BY DEF inval_drop
<1>2. b \in Buf /\ b_blk[b] # none /\ BufFits(b) /\ "BUSY" \notin b_flags[b]
  BY <1>0, <1>1, TurnIs DEF Idle
<1>3. (\A q \in Proc : held[q] # b) /\ b \in OnLists /\ b \notin io
  BY <1>2, FreeUnowned
<1>4. nbp' \in [Proc -> Buf \cup {none}]
  <2>1. OnVnode(req[p].blk, b_list[b]) \ {b} \in SUBSET Buf
    BY DEF OnVnode
  <2>2. \E n \in Buf \cup {none} : nbp' = [nbp EXCEPT ![p] = n]
    BY <1>1, <2>1
  <2> QED
    BY <1>0, <2>2 DEF BufType
<1> DEFINE F == {"INVAL"}
<1>5. F \in SUBSET Flags /\ b_flags' = [b_flags EXCEPT ![b] = F]
  BY <1>1 DEF Flags
<1>6. F \cap {"BUSY", "ASYNC", "AGE", "DELWRI"} = {}
  OBVIOUS
<1> HIDE DEF F
<1>7. /\ b_flags'[b] = F /\ b_list'[b] = "none" /\ b_blk'[b] = none
      /\ \A c \in Buf \ {b} : b_flags'[c] = b_flags[c] /\ b_list'[c] = b_list[c] /\ b_blk'[c] = b_blk[c]
  BY <1>0, <1>1, <1>2, <1>5 DEF BufType
<1>8. BufType'
  BY <1>0, <1>1, <1>2, <1>4, <1>5 DEF BufType
<1>9. /\ ListsFit' /\ OnLists' = OnLists
      /\ b \in Range(age') /\ b \notin Range(empty') /\ b \notin Range(lru')
      /\ Range(lru') \subseteq Range(lru) /\ empty' = empty
  <2>1. /\ Once(empty) /\ Once(age) /\ Once(lru) /\ b \notin Range(empty)
        /\ Range(empty) \cap Range(age) = {} /\ Range(empty) \cap Range(lru) = {}
        /\ Range(age) \cap Range(lru) = {}
    BY <1>0, <1>2 DEF ListsFit, OnceEach, BufFits
  <2> DEFINE m == Without(age, {b})
             l == Without(lru, {b})
  <2>2. Once(m) /\ Range(m) = Range(age) \ {b} /\ Once(l) /\ Range(l) = Range(lru) \ {b}
    BY <2>1, WithoutIs
  <2>3. age' = <<b>> \o m /\ lru' = l /\ empty' = empty
    BY <1>1
  <2> HIDE DEF m, l
  <2>4. Once(age') /\ Range(age') = Range(m) \cup {b}
    BY <1>2, <2>2, <2>3, ConsIs
  <2>5. b \in Range(age) \cup Range(lru)
    BY <1>3, <2>1 DEF OnLists
  <2>6. /\ Range(age') = (Range(age) \ {b}) \cup {b} /\ Range(lru') = Range(lru) \ {b}
        /\ Range(empty') = Range(empty) /\ Once(lru') /\ Once(empty')
    BY <2>1, <2>2, <2>3, <2>4
  <2>7. ListsFit'
    BY <1>2, <2>1, <2>4, <2>6 DEF ListsFit, OnceEach
  <2>8. OnLists' = OnLists
    BY <1>2, <2>1, <2>5, <2>6 DEF OnLists
  <2> QED
    BY <2>1, <2>3, <2>6, <2>7, <2>8
<1>10. \A c \in Buf \ {b} : Same(c)
  BY <1>1, <1>7, <1>9 DEF Same
<1>11. BufFits(b)'
  <2>1. ~Owned(b)'
    BY <1>1, <1>3 DEF Owned
  <2> QED
    BY <1>1, <1>3, <1>6, <1>7, <1>9, <2>1 DEF BufFits, Delayed
<1>12. ReqFits(p)' /\ HeldFits(p)'
  BY <1>0, <1>1 DEF ReqFits, HeldFits
<1>13. /\ \A c \in Buf \ {b} : held'[p] = c <=> held[p] = c
       /\ held'[p] = b => \A q \in Proc \ {p} : held[q] # b
       /\ \A q \in Proc \ {p} : pc'[q] = pc[q] /\ req'[q] = req[q] /\ held'[q] = held[q]
  BY <1>1, <1>3
<1> QED
  BY <1>2, <1>3, <1>8, <1>9, <1>10, <1>11, <1>12, <1>13, OneBufStep

\* The flags of a buffer at the end of its I/O.
IoFlags(b, ok) ==
  (b_flags[b] \cup (IF ok THEN {} ELSE {"ERROR"}))
    \ (IF "READ" \notin b_flags[b] /\ "DIRTY" \in b_flags[b] THEN {"DIRTY"} ELSE {})

LEMMA IoFlagsAre ==
  ASSUME BufInv, NEW b \in io, NEW ok \in BOOLEAN
  PROVE  /\ b \in Buf /\ BufFits(b) /\ b_blk[b] \in Block /\ b_blk[b] # none
         /\ IoFlags(b, ok) \in SUBSET Flags
         /\ \A f \in Flags \ {"ERROR", "DIRTY"} : f \in IoFlags(b, ok) <=> f \in b_flags[b]
         /\ "ERROR" \in IoFlags(b, ok) <=> ~ok
         /\ b_flags[b] \cap {"INVAL", "ERROR", "DELWRI", "DONE"} = {}
         /\ "BUSY" \in b_flags[b] /\ b \notin OnLists
         /\ IF "READ" \in b_flags[b] THEN "READ" \in b_flags[b]
            ELSE "DIRTY" \in b_flags[b]
<1>1. b \in Buf /\ BufFits(b) /\ b_flags[b] \in SUBSET Flags /\ b_blk[b] \in Block \cup {none}
  BY DEF BufInv, BufType
<1>2. /\ b_blk[b] # none /\ "BUSY" \in b_flags[b] /\ b \notin OnLists
      /\ b_flags[b] \cap {"INVAL", "ERROR", "DELWRI", "DONE"} = {}
      /\ b_flags[b] \cap {"READ", "DIRTY"} # {}
  BY <1>1 DEF BufFits
<1>3. IoFlags(b, ok) \in SUBSET Flags
  BY <1>1 DEF IoFlags, Flags
<1>4. \A f \in Flags \ {"ERROR", "DIRTY"} : f \in IoFlags(b, ok) <=> f \in b_flags[b]
  BY DEF IoFlags
<1>5. "ERROR" \in IoFlags(b, ok) <=> ~ok
  BY <1>2 DEF IoFlags
<1> QED
  BY <1>1, <1>2, <1>3, <1>4, <1>5

\* The disk is done with a buffer that someone waits for.
LEMMA BiodoneSyncStep ==
  ASSUME BufInv, NEW b \in Buf, NEW ok \in BOOLEAN, biodone(b, ok), "ASYNC" \notin b_flags[b]
  PROVE  BufInv'
<1> DEFINE fl == IoFlags(b, ok)
           F == (fl \ {"ASYNC"}) \cup {"DONE"}
<1>0. BufType /\ ListsFit /\ b \in io
  BY DEF BufInv, biodone
<1>1. /\ BufFits(b) /\ b_blk[b] # none /\ fl \in SUBSET Flags /\ "ASYNC" \notin fl
      /\ \A f \in Flags \ {"ERROR", "DIRTY"} : f \in fl <=> f \in b_flags[b]
      /\ b_flags[b] \cap {"INVAL", "ERROR", "DELWRI", "DONE"} = {}
      /\ "BUSY" \in b_flags[b] /\ b \notin OnLists
  BY <1>0, IoFlagsAre DEF Flags
<1>2. /\ io' = io \ {b} /\ b_flags' = [b_flags EXCEPT ![b] = F]
      /\ UNCHANGED <<b_blk, b_list, lists, pc, req, held, nbp>>
  BY <1>1 DEF biodone, IoFlags
<1>3. F \in SUBSET Flags /\ {"BUSY", "DONE"} \subseteq F /\ F \cap {"ASYNC", "INVAL", "DELWRI"} = {}
  <2>1. "BUSY" \in fl /\ "INVAL" \notin fl /\ "DELWRI" \notin fl /\ "DONE" \in Flags
    BY <1>1 DEF Flags
  <2> HIDE DEF fl
  <2> QED
    BY <1>1, <2>1
<1> HIDE DEF F
<1>4. PICK p \in Proc : held[p] = b
  BY <1>1 DEF BufFits, Owned
<1>5. ReqFits(p) /\ HeldFits(p) /\ held[p] # none
  BY <1>4, BufAssumption DEF BufInv
<1>6. \A q \in Proc \ {p} : held[q] # b
  BY <1>4, <1>5, OwnerOnly
<1>7. /\ b_flags'[b] = F /\ (\A c \in Buf \ {b} : b_flags'[c] = b_flags[c])
      /\ b_flags' \in [Buf -> SUBSET Flags]
  BY <1>0, <1>2, <1>3 DEF BufType
<1>8. ListsFit' /\ OnLists' = OnLists /\ empty' = empty /\ lru' = lru
  BY <1>0, <1>2 DEF ListsFit, OnceEach, OnLists, lists
<1>9. BufType'
  BY <1>0, <1>2, <1>7 DEF BufType
<1>10. \A c \in Buf \ {b} : Same(c)
  BY <1>2, <1>7, <1>8 DEF Same
<1>11. BufFits(b)'
  <2>1. Owned(b)'
    BY <1>2, <1>4 DEF Owned
  <2>2. b \notin OnLists' /\ b \notin Range(empty') /\ b \notin Range(lru') /\ b \notin io'
    BY <1>1, <1>2, <1>8 DEF OnLists
  <2>3. b_blk'[b] = b_blk[b] /\ b_list'[b] = "clean"
    BY <1>1, <1>2 DEF BufFits, Delayed
  <2> QED
    BY <1>1, <1>3, <1>7, <2>1, <2>2, <2>3 DEF BufFits, Delayed
<1>12. ReqFits(p)'
  BY <1>2, <1>5 DEF ReqFits
<1>13. HeldFits(p)'
  <2>1. pc[p] \in {"reada", "biowait"}
    BY <1>0, <1>1, <1>4, <1>5 DEF HeldFits, ReqFits, Holding
  <2>2. b_blk[b] = req[p].blk
    BY <1>4, <1>5, <2>1 DEF HeldFits
  <2>3. pc'[p] = pc[p] /\ req'[p] = req[p] /\ held'[p] = b /\ b_blk'[b] = b_blk[b]
    BY <1>2, <1>4
  <2> QED
    BY <1>3, <1>7, <2>1, <2>2, <2>3 DEF HeldFits
<1>14. /\ \A c \in Buf \ {b} : held'[p] = c <=> held[p] = c
       /\ held'[p] = b => \A q \in Proc \ {p} : held[q] # b
       /\ \A q \in Proc \ {p} : pc'[q] = pc[q] /\ req'[q] = req[q] /\ held'[q] = held[q]
  BY <1>2, <1>6
<1> QED
  BY <1>6, <1>8, <1>9, <1>10, <1>11, <1>12, <1>13, <1>14, OneBufStep

\* The disk is done with a buffer that nobody waits for.
LEMMA BiodoneAsyncStep ==
  ASSUME BufInv, NEW b \in Buf, NEW ok \in BOOLEAN, biodone(b, ok), "ASYNC" \in b_flags[b]
  PROVE  BufInv'
<1> DEFINE fl == IoFlags(b, ok)
           G == (RelFlags(fl) \ {"ASYNC"}) \cup {"DONE"}
<1>0. BufType /\ ListsFit /\ b \in io
  BY DEF BufInv, biodone
<1>1. /\ BufFits(b) /\ b_blk[b] # none /\ fl \in SUBSET Flags /\ "ASYNC" \in fl /\ "DELWRI" \notin fl
      /\ b_flags[b] \cap {"INVAL", "ERROR", "DELWRI", "DONE"} = {}
      /\ "BUSY" \in b_flags[b] /\ b \notin OnLists
  BY <1>0, IoFlagsAre DEF Flags
<1>2. /\ io' = io \ {b} /\ b_flags' = [b_flags EXCEPT ![b] = G]
      /\ Requeue(b, fl)
      /\ UNCHANGED <<pc, req, held, nbp>>
  BY <1>1 DEF biodone, IoFlags
<1> HIDE DEF fl
<1>3. G \in SUBSET Flags /\ "ASYNC" \notin G
      /\ \A f \in {"BUSY", "AGE", "INVAL", "ERROR", "DELWRI"} : f \in G <=> f \in RelFlags(fl)
  <2>1. RelFlags(fl) \in SUBSET Flags
    BY <1>1, RelFlagsAre
  <2> QED
    BY <2>1 DEF Flags
<1> HIDE DEF G
<1>4. /\ age' = RelAge(b, fl) /\ lru' = RelLru(b, fl) /\ empty' = empty
      /\ b_blk' = (IF Bad(fl) THEN [b_blk EXCEPT ![b] = none] ELSE b_blk)
      /\ b_list' = (IF Bad(fl) THEN [b_list EXCEPT ![b] = "none"] ELSE b_list)
  BY <1>2 DEF Requeue
<1>5. /\ ListsFit' /\ OnLists' = OnLists \cup {b}
      /\ b \in Range(lru') => ~Bad(fl) /\ ~Stale(fl)
      /\ \A c \in Buf \ {b} : c \in Range(lru') => c \in Range(lru)
  BY <1>0, <1>1, <1>4, Requeued
<1>6. /\ b_flags'[b] = G
      /\ b_blk'[b] = (IF Bad(fl) THEN none ELSE b_blk[b])
      /\ b_list'[b] = (IF Bad(fl) THEN "none" ELSE "clean")
      /\ \A c \in Buf \ {b} : b_flags'[c] = b_flags[c] /\ b_blk'[c] = b_blk[c] /\ b_list'[c] = b_list[c]
  <2>1. b_list[b] = "clean"
    BY <1>1 DEF BufFits, Delayed
  <2> QED
    BY <1>0, <1>2, <1>4, <2>1 DEF BufType
<1>7. BufType'
  <2>1. b_flags' \in [Buf -> SUBSET Flags]
    BY <1>0, <1>2, <1>3 DEF BufType
  <2>2. b_blk' \in [Buf -> Block \cup {none}] /\ b_list' \in [Buf -> {"none", "clean", "dirty"}]
    BY <1>0, <1>4 DEF BufType
  <2> QED
    BY <1>0, <1>2, <2>1, <2>2 DEF BufType
<1>8. \A q \in Proc : held[q] # b
  BY <1>1 DEF BufFits, Owned
<1>9. \A c \in Buf \ {b} : Same(c)
  BY <1>2, <1>4, <1>5, <1>6 DEF Same
<1>10. BufFits(b)'
  <2>1. ~Owned(b)'
    BY <1>2, <1>8 DEF Owned
  <2>2. b \notin Range(empty) /\ b \in OnLists' /\ b \notin io'
    BY <1>1, <1>2, <1>5 DEF OnLists
  <2>3. b_list'[b] = (IF Bad(fl) THEN "none" ELSE IF "DELWRI" \in fl THEN "dirty" ELSE "clean")
    BY <1>1, <1>6
  <2> QED
    BY <1>0, <1>1, <1>3, <1>4, <1>5, <1>6, <2>1, <2>2, <2>3, ReleasedFits
<1>11. PICK p \in Proc : TRUE
  BY BufAssumption
<1>12. ReqFits(p) /\ HeldFits(p) /\ pc'[p] = pc[p] /\ req'[p] = req[p] /\ held'[p] = held[p]
  BY <1>2 DEF BufInv
<1>13. ReqFits(p)' /\ HeldFits(p)'
  <2>1. held[p] # none => Kept(held[p])
    <3> SUFFICES ASSUME held[p] # none PROVE Kept(held[p])
      OBVIOUS
    <3>1. Same(held[p])
      BY <1>0, <1>8, <1>9 DEF BufType
    <3> QED
      BY <3>1 DEF Same, Kept
  <2> QED
    BY <1>12, <2>1, KeptFits
<1>14. /\ \A c \in Buf \ {b} : held'[p] = c <=> held[p] = c
       /\ held'[p] = b => \A q \in Proc \ {p} : held[q] # b
       /\ \A q \in Proc \ {p} : pc'[q] = pc[q] /\ req'[q] = req[q] /\ held'[q] = held[q]
  BY <1>2, <1>8
<1> QED
  BY <1>5, <1>7, <1>8, <1>9, <1>10, <1>13, <1>14, OneBufStep

LEMMA BufInvInit == Init => BufInv
<1> SUFFICES ASSUME Init PROVE BufInv
  OBVIOUS
<1>1. BufType
  BY DEF Init, BufType, Flags, Places, Request, NoReq
<1>2. Once(empty) /\ Range(empty) = Buf
  <2> DEFINE n == Cardinality(Buf)
  <2>1. n \in Nat
    BY BufAssumption, FS_CardinalityType
  <2>2. empty \in [1 .. n -> Buf] /\ \A i, j \in 1 .. n : i # j => empty[i] # empty[j]
    BY DEF Init, SetToSeqs
  <2>3. Cardinality(1 .. n) = n
    BY <2>1, FS_Interval
  <2> HIDE DEF n
  <2>4. empty \in Injection(1 .. n, Buf)
    BY <2>2, Fun_IsInj
  <2>5. empty \in Surjection(1 .. n, Buf)
    BY <2>3, <2>4, FS_Injection, BufAssumption DEF n
  <2>6. empty \in Seq(Buf) /\ Len(empty) = n
    BY <2>1, <2>2
  <2>7. Once(empty)
    BY <2>2, <2>6 DEF Once
  <2>8. \A c \in Buf : c \in Range(empty)
    BY <2>5, <2>6, RangeIs, Fun_SurjectionProperties
  <2> QED
    BY <2>6, <2>7, <2>8, RangeIs
<1>3. age = <<>> /\ lru = <<>> /\ Once(<<>>) /\ Range(<<>>) = {}
  <2>1. <<>> \in Seq(Buf) /\ Len(<<>>) = 0 /\ Range(<<>>) = {}
    BY EmptySeq, NothingOnList
  <2> QED
    BY <2>1 DEF Once, Init
<1>4. ListsFit /\ OnLists = Buf
  BY <1>2, <1>3 DEF ListsFit, OnceEach, OnLists
<1>5. OneOwner
  BY DEF Init, OneOwner
<1>6. ASSUME NEW b \in Buf PROVE BufFits(b)
  <2>1. b_flags[b] = {"INVAL"} /\ b_blk[b] = none /\ b_list[b] = "none" /\ b \notin io
    BY DEF Init
  <2>2. ~Owned(b)
    BY BufAssumption DEF Init, Owned
  <2>3. b \in OnLists /\ b \notin Range(lru)
    BY <1>3, <1>4
  <2> QED
    BY <2>1, <2>2, <2>3 DEF BufFits, Delayed
<1>7. \A p \in Proc : ReqFits(p) /\ HeldFits(p)
  BY DEF Init, ReqFits, HeldFits, Holding
<1> QED
  BY <1>1, <1>4, <1>5, <1>6, <1>7 DEF BufInv

LEMMA BufInvNext ==
  ASSUME BufInv, [Next]_vars
  PROVE  BufInv'
<1>1. ASSUME NEW p \in Proc, NEW k \in Block, NEW use \in Uses \cap {"bread", "breada", "getblk"},
             getblk_start(p, k, use)
      PROVE  BufInv'
  BY <1>1, GetblkStep DEF getblk_start, At
<1>2. ASSUME NEW p \in Proc, getblk_again(p) PROVE BufInv'
  <2>1. req[p].blk \in Block /\ req[p].use \in {"bread", "breada", "getblk"} /\ pc[p] = "getblk"
    BY <1>2 DEF getblk_again, At, BufInv, ReqFits
  <2> QED
    BY <1>2, <2>1, GetblkStep DEF getblk_again
<1>3. ASSUME NEW p \in Proc, Resume(p) PROVE BufInv'
  <2>1. CASE biowait_sleep(p)
    BY <2>1, UnchangedStep DEF biowait_sleep, bufs
  <2> QED
    BY <1>2, <1>3, <2>1, AllocStep, BreadaStep, BreadDoneStep, BwriteDoneStep, FlushOneStep, FlushReturnStep,
       FlushWaitStep, FlushCheckStep, InvalBusyStep, InvalSaveStep, InvalDropStep, InvalReturnStep DEF Resume
<1>4. ASSUME NEW p \in Proc, Release(p) PROVE BufInv'
  BY <1>4, BrelseHeldStep, BwriteStep, BawriteStep, BdwriteStep DEF Release
<1>5. ASSUME NEW b \in Buf, NEW ok \in BOOLEAN, biodone(b, ok) PROVE BufInv'
  BY <1>5, BiodoneSyncStep, BiodoneAsyncStep
<1>6. CASE UNCHANGED vars
  BY <1>6, UnchangedStep DEF vars, bufs
<1> QED
  BY <1>1, <1>3, <1>4, <1>5, <1>6, VflushbufStep, VinvalbufStep DEF Next

-----------------------------------------------------------------------------
(* The writes under way are counted, and whoever sleeps is covered.        *)

Writes(v) == {b \in io : Writing(b) /\ VnodeOf[b_blk[b]] = v}

\* The step starts the writes of S, other I/O only to read, and ends none.
Starts(S) ==
  /\ \A c \in io : c \notin S /\ c \in io' /\ b_blk'[c] = b_blk[c] /\ ("READ" \in b_flags'[c] <=> "READ" \in b_flags[c])
  /\ \A c \in S : c \in io' /\ b_blk'[c] = b_blk[c] /\ "READ" \notin b_flags'[c]
  /\ \A c \in io' \ (io \cup S) : "READ" \in b_flags'[c]

LEMMA FiniteIs ==
  ASSUME NEW S \in SUBSET Buf
  PROVE  IsFiniteSet(S) /\ Cardinality(S) \in Nat
BY BufAssumption, FS_Subset, FS_CardinalityType

LEMMA OutputStep ==
  ASSUME BufType, BufType', v_numoutput \in [Vnode -> Nat], OutputCounted,
         NEW S \in SUBSET Buf, Starts(S), v_numoutput' = MoreOutput(S)
  PROVE  /\ v_numoutput' \in [Vnode -> Nat] /\ OutputCounted'
         /\ \A v \in Vnode : v_numoutput[v] # 0 => v_numoutput'[v] # 0
<1>0. io \in SUBSET Buf /\ io' \in SUBSET Buf
  BY DEF BufType
<1>1. ASSUME NEW v \in Vnode
      PROVE  /\ v_numoutput'[v] \in Nat /\ v_numoutput'[v] = Cardinality(Writes(v)')
             /\ v_numoutput[v] # 0 => v_numoutput'[v] # 0
  <2> DEFINE A == Writes(v)
             N == {b \in S : VnodeOf[b_blk[b]] = v}
  <2>1. v_numoutput[v] = Cardinality(A) /\ v_numoutput[v] \in Nat /\ v_numoutput'[v] = v_numoutput[v] + Cardinality(N)
    BY DEF OutputCounted, Writes, MoreOutput
  <2>2. Writes(v)' = A \cup N /\ A \cap N = {}
    <3>1. ASSUME NEW c \in Writes(v)' PROVE c \in A \cup N
      <4>1. c \in io' /\ "READ" \notin b_flags'[c] /\ VnodeOf[b_blk'[c]] = v
        BY DEF Writes, Writing
      <4> QED
        BY <1>0, <4>1 DEF Starts, Writes, Writing
    <3>2. ASSUME NEW c \in A PROVE c \in Writes(v)' /\ c \notin N
      <4>1. c \in io /\ "READ" \notin b_flags[c] /\ VnodeOf[b_blk[c]] = v
        BY DEF Writes, Writing
      <4> QED
        BY <4>1 DEF Starts, Writes, Writing
    <3>3. ASSUME NEW c \in N PROVE c \in Writes(v)'
      BY DEF Starts, Writes, Writing
    <3> QED
      BY <3>1, <3>2, <3>3
  <2>3. A \in SUBSET Buf /\ N \in SUBSET Buf
    BY <1>0 DEF Writes
  <2> HIDE DEF A, N
  <2>4. IsFiniteSet(A) /\ Cardinality(A) \in Nat /\ IsFiniteSet(N) /\ Cardinality(N) \in Nat
    BY <2>3, FiniteIs
  <2>5. Cardinality(A \cup N) = Cardinality(A) + Cardinality(N)
    <3>1. Cardinality(A \cup N) = Cardinality(A) + Cardinality(N) - Cardinality(A \cap N)
      BY <2>4, FS_Union
    <3>2. Cardinality(A \cap N) = 0
      BY <2>2, FS_EmptySet
    <3> QED
      BY <2>4, <3>1, <3>2
  <2> QED
    BY <2>1, <2>2, <2>4, <2>5
<1>2. v_numoutput' = [v \in Vnode |-> v_numoutput'[v]]
  BY DEF MoreOutput
<1>3. v_numoutput' \in [Vnode -> Nat]
  BY <1>1, <1>2
<1>4. OutputCounted'
  BY <1>1 DEF OutputCounted, Writes
<1> QED
  BY <1>1, <1>3, <1>4

\* No write starts.
LEMMA NoneStarted ==
  ASSUME v_numoutput \in [Vnode -> Nat] PROVE MoreOutput({}) = v_numoutput
<1>1. \A v \in Vnode : {b \in {} : VnodeOf[b_blk[b]] = v} = {}
  OBVIOUS
<1>2. Cardinality({}) = 0
  BY FS_EmptySet
<1>3. \A v \in Vnode : v_numoutput[v] + 0 = v_numoutput[v]
  OBVIOUS
<1>4. MoreOutput({}) = [v \in Vnode |-> v_numoutput[v]]
  BY <1>1, <1>2, <1>3 DEF MoreOutput
<1> QED
  BY <1>4

\* What a step of process p that starts the writes of S does for the sleepers: it takes
\* no mark away without waking them.
Marked(c) == {"BUSY", "WANTED"} \subseteq b_flags[c]
Wakes(p) ==
  /\ VBWAIT \subseteq VBWAIT' /\ VBWAIT' \subseteq Vnode
  /\ asleep' \in [Proc -> Chans] /\ wanted' \in BOOLEAN
  /\ \A q \in Proc \ {p} : pc'[q] = pc[q] /\ held'[q] = held[q] /\ asleep'[q] \in {asleep[q], none}
  /\ \A c \in Buf : Marked(c) /\ ~Marked(c)' => \A q \in Proc \ {p} : asleep'[q] # c
  /\ \/ wanted' = wanted /\ Range(age') \subseteq Range(age) /\ Range(lru') \subseteq Range(lru)
     \/ wanted' = TRUE /\ age' = <<>> /\ lru' = <<>>
     \/ wanted' = FALSE /\ \A q \in Proc \ {p} : asleep'[q] # "bfreelist"
Quiet(p, S) == Starts(S) /\ v_numoutput' = MoreOutput(S) /\ Wakes(p)

LEMMA ChansAre ==
  /\ none \notin Buf \cup Vnode /\ "bfreelist" # none /\ "bfreelist" \notin Buf \cup Vnode
  /\ Buf \cap Vnode = {}
BY BufAssumption

LEMMA AwakeFits ==
  ASSUME NEW p, asleep[p] = none
  PROVE  SleepFits(p) /\ Covered(p)
BY ChansAre DEF SleepFits, Covered

LEMMA EmptyStay ==
  ASSUME ListsFit, ListsFit', Range(age') \subseteq Range(age), Range(lru') \subseteq Range(lru),
         age = <<>>, lru = <<>>
  PROVE  age' = <<>> /\ lru' = <<>>
<1>1. age \in Seq(Buf) /\ lru \in Seq(Buf) /\ age' \in Seq(Buf) /\ lru' \in Seq(Buf)
  BY DEF ListsFit, OnceEach, Once
<1>2. Range(age) = {} /\ Range(lru) = {}
  BY <1>1, NothingOnList
<1>3. Range(age') = {} /\ Range(lru') = {}
  BY <1>2
<1> QED
  BY <1>1, <1>3, NothingOnList

LEMMA WaitStep ==
  ASSUME BufInv, BufInv', WaitInv, NEW p \in Proc, NEW S \in SUBSET Buf, Quiet(p, S),
         SleepFits(p)', Covered(p)'
  PROVE  WaitInv'
<1>0. /\ BufType /\ BufType' /\ ListsFit /\ ListsFit'
      /\ v_numoutput \in [Vnode -> Nat] /\ OutputCounted /\ VBWAIT \in SUBSET Vnode
      /\ asleep \in [Proc -> Chans]
      /\ \A q \in Proc : SleepFits(q) /\ Covered(q)
  BY DEF BufInv, WaitInv
<1>1. /\ v_numoutput' \in [Vnode -> Nat] /\ OutputCounted'
      /\ \A v \in Vnode : v_numoutput[v] # 0 => v_numoutput'[v] # 0
  BY <1>0, OutputStep DEF Quiet, Wakes
<1>2. wanted' => age' = <<>> /\ lru' = <<>>
  <2>1. CASE wanted' = wanted /\ Range(age') \subseteq Range(age) /\ Range(lru') \subseteq Range(lru)
    BY <1>0, <2>1, EmptyStay DEF WaitInv
  <2> QED
    BY <2>1 DEF Quiet, Wakes
<1>3. ASSUME NEW q \in Proc \ {p} PROVE SleepFits(q)' /\ Covered(q)'
  <2>1. CASE asleep'[q] = none
    BY <2>1, ChansAre DEF SleepFits, Covered
  <2>2. CASE asleep'[q] # none
    <3>1. pc'[q] = pc[q] /\ held'[q] = held[q] /\ asleep'[q] = asleep[q]
      BY <2>2 DEF Quiet, Wakes
    <3>2. SleepFits(q)'
      BY <1>0, <3>1 DEF SleepFits
    <3>3. asleep[q] = "bfreelist" => wanted'
      BY <1>0, <3>1 DEF Covered, Quiet, Wakes
    <3>4. asleep[q] \in Buf /\ pc[q] \in {"getblk", "inval"} => Marked(asleep[q])'
      BY <1>0, <3>1 DEF Covered, Quiet, Wakes, Marked
    <3>5. asleep[q] \in Buf /\ pc[q] = "biowait" => asleep[q] \in io'
      BY <1>0 DEF Covered, Quiet, Starts
    <3>6. asleep[q] \in Vnode => asleep[q] \in VBWAIT' /\ v_numoutput'[asleep[q]] # 0
      BY <1>0, <1>1 DEF Covered, Quiet, Wakes
    <3>7. Covered(q)'
      BY <3>1, <3>3, <3>4, <3>5, <3>6 DEF Covered, Marked
    <3> QED
      BY <3>2, <3>7
  <2> QED
    BY <2>1, <2>2
<1>4. \A q \in Proc : SleepFits(q)' /\ Covered(q)'
  BY <1>3
<1> QED
  BY <1>1, <1>2, <1>4 DEF WaitInv, Quiet, Wakes

\* The process stays awake.
LEMMA AwakeStep ==
  ASSUME BufInv, BufInv', WaitInv, NEW p \in Proc, NEW S \in SUBSET Buf, Quiet(p, S), asleep'[p] = none
  PROVE  WaitInv'
<1>1. SleepFits(p)' /\ Covered(p)'
  BY ChansAre DEF SleepFits, Covered
<1> QED
  BY <1>1, WaitStep

\* wakeup().
LEMMA WokenIs ==
  ASSUME asleep \in [Proc -> Chans], NEW X, none \notin X
  PROVE  /\ Woken(X) \in [Proc -> Chans]
         /\ \A q \in Proc : Woken(X)[q] \in {asleep[q], none} /\ Woken(X)[q] \notin X
BY DEF Woken, Chans

\* No write starts, and the process stays awake or sleeps.
LEMMA CalmStep ==
  ASSUME BufInv, BufInv', WaitInv, NEW p \in Proc, Starts({}), v_numoutput' = v_numoutput, Wakes(p),
         asleep'[p] = none \/ (SleepFits(p)' /\ Covered(p)')
  PROVE  WaitInv'
<1> DEFINE S == {}
<1>1. v_numoutput \in [Vnode -> Nat]
  BY DEF WaitInv
<1>2. S \in SUBSET Buf /\ Starts(S) /\ v_numoutput' = MoreOutput(S)
  BY <1>1, NoneStarted
<1> HIDE DEF S
<1>3. Quiet(p, S)
  BY <1>2 DEF Quiet
<1> QED
  BY <1>2, <1>3, WaitStep, AwakeStep

\* getblk() sleeps on a busy buffer.
LEMMA HitBusyWait ==
  ASSUME BufInv, BufInv', WaitInv, NEW p \in Proc, NEW k \in Block, hit_busy(p, k), VBWAIT' = VBWAIT
  PROVE  WaitInv'
<1>0. BufType /\ asleep \in [Proc -> Chans] /\ VBWAIT \in SUBSET Vnode /\ wanted \in BOOLEAN
  BY DEF BufInv, WaitInv
<1>1. PICK b \in Buf : /\ "BUSY" \in b_flags[b]
                       /\ b_flags' = [b_flags EXCEPT ![b] = (@ \ {"AGE"}) \cup {"WANTED", "CACHE"}]
                       /\ asleep' = [asleep EXCEPT ![p] = b] /\ pc' = [pc EXCEPT ![p] = "getblk"]
                       /\ UNCHANGED <<b_blk, lists, wanted, v_numoutput, io, held>>
  BY DEF hit_busy, incore, Go, SleepOn
<1>2. /\ b_flags'[b] = (b_flags[b] \ {"AGE"}) \cup {"WANTED", "CACHE"}
      /\ \A c \in Buf \ {b} : b_flags'[c] = b_flags[c]
  BY <1>0, <1>1 DEF BufType
<1>3. /\ asleep'[p] = b /\ pc'[p] = "getblk" /\ asleep' \in [Proc -> Chans]
      /\ \A q \in Proc \ {p} : asleep'[q] = asleep[q] /\ pc'[q] = pc[q] /\ held'[q] = held[q]
  BY <1>0, <1>1 DEF BufType, Chans
<1>4. \A c \in Buf : ("READ" \in b_flags'[c] <=> "READ" \in b_flags[c]) /\ (Marked(c) => Marked(c)')
  BY <1>2 DEF Marked
<1>5. Starts({})
  BY <1>0, <1>1, <1>4 DEF Starts, BufType
<1>6. Wakes(p)
  BY <1>0, <1>1, <1>3, <1>4 DEF Wakes, lists
<1>7. SleepFits(p)' /\ Covered(p)'
  BY <1>1, <1>2, <1>3, ChansAre DEF SleepFits, Covered
<1> QED
  BY <1>1, <1>5, <1>6, <1>7, CalmStep

LEMMA HitFreeWait ==
  ASSUME BufInv, BufInv', WaitInv, NEW p \in Proc, NEW k \in Block, NEW use \in {"bread", "breada", "getblk"},
         hit_free(p, k, use), VBWAIT' = VBWAIT, asleep[p] = none
  PROVE  WaitInv'
<1>0. BufType /\ asleep \in [Proc -> Chans] /\ VBWAIT \in SUBSET Vnode /\ wanted \in BOOLEAN
  BY DEF BufInv, WaitInv
<1>1. PICK b \in Buf, F \in SUBSET Flags : HitFreeDoes(p, k, use, b, F)
  BY HitFreeIs
<1>2. /\ b_flags' = [b_flags EXCEPT ![b] = F] /\ io' = io /\ b \notin io /\ "BUSY" \notin b_flags[b]
      /\ held' = [held EXCEPT ![p] = b] /\ TakenOff({b})
      /\ UNCHANGED <<b_blk, wanted, v_numoutput, asleep>>
  BY <1>1 DEF HitFreeDoes
<1>3. /\ \A q \in Proc \ {p} : pc'[q] = pc[q] /\ held'[q] = held[q]
      /\ \A c \in Buf \ {b} : b_flags'[c] = b_flags[c]
  BY <1>0, <1>1 DEF HitFreeDoes, BufType
<1>4. Starts({})
  BY <1>0, <1>2, <1>3 DEF Starts, BufType
<1>5. Wakes(p)
  BY <1>0, <1>2, <1>3 DEF Wakes, Marked, TakenOff
<1> QED
  BY <1>2, <1>4, <1>5, CalmStep

\* A buffer is taken, by process p.
TakesFor(p, b, S, F, x, y, I) ==
  /\ b \in Buf /\ S \in SUBSET Buf /\ F \in SUBSET Flags
  /\ x \in {"none", "clean"} /\ y \in Block \cup {none} /\ I \in SUBSET {b}
  /\ Takes(b, S, F, x, y, I) /\ v_numoutput' = MoreOutput(S)
  /\ I # {} => "READ" \in F
  /\ UNCHANGED <<VBWAIT, wanted, asleep>>
  /\ \A q \in Proc \ {p} : pc'[q] = pc[q] /\ held'[q] = held[q]

LEMMA TakeWait ==
  ASSUME BufInv, BufInv', WaitInv, NEW p \in Proc, asleep[p] = none,
         NEW b, NEW S, NEW F, NEW x, NEW y, NEW I, TakesFor(p, b, S, F, x, y, I)
  PROVE  WaitInv'
<1>0. /\ BufType /\ asleep \in [Proc -> Chans] /\ VBWAIT \in SUBSET Vnode /\ wanted \in BOOLEAN
      /\ b \in Buf /\ S \in SUBSET Buf /\ F \in SUBSET Flags
      /\ x \in {"none", "clean"} /\ y \in Block \cup {none} /\ I \in SUBSET {b}
      /\ Takes(b, S, F, x, y, I) /\ v_numoutput' = MoreOutput(S)
      /\ I # {} => "READ" \in F
      /\ UNCHANGED <<VBWAIT, wanted, asleep>>
      /\ \A q \in Proc \ {p} : pc'[q] = pc[q] /\ held'[q] = held[q]
  BY DEF BufInv, WaitInv, TakesFor
<1>1. Taken(b, S, F, x, y, I)
  BY <1>0, TakeFacts
<1>2. TakenOff(S \cup {b})
  BY <1>0 DEF Takes
<1>3. Starts(S)
  <2>1. ASSUME NEW c \in Buf \ {b}
        PROVE  /\ c \in S => c \notin io /\ c \in io' /\ b_blk'[c] = b_blk[c] /\ "READ" \notin b_flags'[c]
               /\ c \notin S => Same(c)
    BY <1>1 DEF Taken, Push, Started
  <2>2. b \notin S /\ b \notin io /\ (b \in io' => "READ" \in b_flags'[b])
    BY <1>0, <1>1 DEF Taken
  <2>3. io \in SUBSET Buf /\ io' \in SUBSET Buf /\ S \in SUBSET Buf
    BY <1>0, <1>1 DEF BufType, Taken
  <2>4. ASSUME NEW c \in Buf \ {b}, c \notin S
        PROVE  /\ c \in io <=> c \in io'
               /\ b_blk'[c] = b_blk[c] /\ ("READ" \in b_flags'[c] <=> "READ" \in b_flags[c])
    BY <2>1, <2>4 DEF Same
  <2> QED
    BY <2>1, <2>2, <2>3, <2>4 DEF Starts
<1>4. ASSUME NEW c \in Buf, Marked(c) PROVE Marked(c)'
  <2>1. c # b /\ c \notin S
    BY <1>1, <1>4 DEF Taken, Marked
  <2>2. Same(c)
    BY <1>1, <2>1 DEF Taken
  <2> QED
    BY <1>4, <2>2 DEF Same, Marked
<1>5. Quiet(p, S)
  BY <1>0, <1>2, <1>3, <1>4 DEF Quiet, Wakes, TakenOff
<1>6. asleep'[p] = none /\ S \in SUBSET Buf
  BY <1>0
<1> QED
  BY <1>5, <1>6, AwakeStep

LEMMA GetnewbufWait ==
  ASSUME BufInv, BufInv', WaitInv, NEW p \in Proc, NEW k \in Block, NEW use \in {"bread", "breada", "getblk"},
         getnewbuf(p, k, use), VBWAIT' = VBWAIT, asleep[p] = none
  PROVE  WaitInv'
<1>1. PICK b \in Buf, S \in SUBSET Buf, F \in SUBSET Flags, x \in {"none", "clean"}, y \in Block \cup {none} :
        \E I \in SUBSET {b}, place \in Places : GetnewbufDoes(p, k, use, b, S, F, x, y, I, place)
  BY GetnewbufIs
<1>2. PICK I \in SUBSET {b}, place \in Places : GetnewbufDoes(p, k, use, b, S, F, x, y, I, place)
  BY <1>1
<1>3. /\ Takes(b, S, F, x, y, I) /\ (I # {} => "READ" \in F) /\ v_numoutput' = MoreOutput(S)
      /\ UNCHANGED <<VBWAIT, wanted, asleep>>
      /\ pc' = [pc EXCEPT ![p] = place] /\ held' = [held EXCEPT ![p] = b]
  BY <1>2 DEF GetnewbufDoes
<1>4. \A q \in Proc \ {p} : pc'[q] = pc[q] /\ held'[q] = held[q]
  BY <1>3 DEF BufInv, BufType
<1>5. TakesFor(p, b, S, F, x, y, I)
  BY <1>3, <1>4 DEF TakesFor
<1> QED
  BY <1>5, TakeWait

\* Writes are started and no buffer is taken.
LEMMA PushWait ==
  ASSUME BufInv, BufInv', WaitInv, NEW p \in Proc, NEW S \in SUBSET Buf,
         S \subseteq OnLists, b_flags' = PushedFlags(S), io' = io \cup S, b_blk' = b_blk,
         v_numoutput' = MoreOutput(S), VBWAIT' = VBWAIT, asleep' \in [Proc -> Chans], wanted' \in BOOLEAN,
         \A q \in Proc \ {p} : pc'[q] = pc[q] /\ held'[q] = held[q] /\ asleep'[q] = asleep[q],
         \/ wanted' = wanted /\ Range(age') \subseteq Range(age) /\ Range(lru') \subseteq Range(lru)
         \/ wanted' = TRUE /\ age' = <<>> /\ lru' = <<>>,
         asleep'[p] = none \/ (SleepFits(p)' /\ Covered(p)')
  PROVE  WaitInv'
<1>0. BufType /\ VBWAIT \in SUBSET Vnode /\ \A c \in Buf : BufFits(c)
  BY DEF BufInv, WaitInv
<1>1. ASSUME NEW c \in Buf
      PROVE  /\ c \in S => c \notin io /\ ~Marked(c) /\ "READ" \notin b_flags'[c]
             /\ c \notin S => b_flags'[c] = b_flags[c]
  <2>1. c \in S => "BUSY" \notin b_flags[c] /\ c \notin io
    BY <1>0 DEF BufFits
  <2> QED
    BY <2>1 DEF PushedFlags, Started, Marked
<1>2. Starts(S)
  BY <1>0, <1>1 DEF Starts, BufType
<1>3. Quiet(p, S)
  BY <1>0, <1>1, <1>2 DEF Quiet, Wakes, Marked
<1> QED
  BY <1>3, AwakeStep, WaitStep

LEMMA NobufWait ==
  ASSUME BufInv, BufInv', WaitInv, NEW p \in Proc, NEW place, NEW sz, nobuf(p, place, sz),
         age' = <<>>, lru' = <<>>, VBWAIT' = VBWAIT, place \in {"getblk", "reada", "reada_hit"}
  PROVE  WaitInv'
<1>0. BufType /\ ListsFit /\ asleep \in [Proc -> Chans]
  BY DEF BufInv, WaitInv
<1> DEFINE S == Pushed
<1>1. /\ b_flags' = PushedFlags(S) /\ io' = io \cup S /\ b_blk' = b_blk /\ held' = held /\ wanted' = TRUE
      /\ v_numoutput' = MoreOutput(S) /\ asleep' = [asleep EXCEPT ![p] = "bfreelist"]
      /\ pc' = [pc EXCEPT ![p] = place]
  BY DEF nobuf, Go, SleepOn
<1>2. S \in SUBSET Buf /\ S \subseteq OnLists
  BY <1>0, PushedAre DEF Pushed, OnLists
<1> HIDE DEF S
<1>3. /\ asleep' \in [Proc -> Chans] /\ asleep'[p] = "bfreelist" /\ pc'[p] = place
      /\ \A q \in Proc \ {p} : pc'[q] = pc[q] /\ held'[q] = held[q] /\ asleep'[q] = asleep[q]
  BY <1>0, <1>1 DEF BufType, Chans
<1>4. SleepFits(p)' /\ Covered(p)'
  BY <1>1, <1>3, ChansAre DEF SleepFits, Covered
<1> QED
  BY <1>1, <1>2, <1>3, <1>4, PushWait

LEMMA GetblkWait ==
  ASSUME BufInv, BufInv', WaitInv, NEW p \in Proc, NEW k \in Block, NEW use \in {"bread", "breada", "getblk"},
         pc[p] \in {"idle", "getblk"}, asleep[p] = none, getblk(p, k, use)
  PROVE  WaitInv'
<1>0. BufType /\ ReqFits(p) /\ held[p] = none /\ VBWAIT' = VBWAIT
  BY DEF BufInv, ReqFits, Holding, getblk
<1>1. req' = [req EXCEPT ![p] = [use |-> use, blk |-> k]] /\ nbp' = nbp
  BY DEF getblk
<1>2. CASE nobuf(p, "getblk", SizeOf[k])
  <2>1. "getblk" \in Places
    BY DEF Places
  <2>2. req' \in [Proc -> Request] /\ ReqFits(p)'
    BY DEF BufInv, BufType
  <2>3. \A q \in Proc \ {p} : req'[q] = req[q]
    BY <1>0, <1>1 DEF BufType
  <2>4. age' = <<>> /\ lru' = <<>>
    BY <1>0, <1>1, <1>2, <2>1, <2>2, <2>3, NobufStep
  <2> QED
    BY <1>0, <1>2, <2>4, NobufWait
<1> QED
  BY <1>0, <1>2, HitBusyWait, HitFreeWait, GetnewbufWait DEF getblk

LEMMA AllocWait ==
  ASSUME BufInv, BufInv', WaitInv, NEW p \in Proc, getblk_alloc(p)
  PROVE  WaitInv'
<1> DEFINE b == held[p]
<1>0. /\ BufType /\ HeldFits(p) /\ pc[p] = "alloc" /\ b # none /\ b \in Buf /\ BufFits(b)
      /\ asleep \in [Proc -> Chans] /\ VBWAIT \in SUBSET Vnode /\ wanted \in BOOLEAN /\ asleep[p] = none
  <2>1. pc[p] = "alloc" /\ asleep[p] = none
    BY DEF getblk_alloc, At
  <2>2. b # none
    BY <2>1 DEF BufInv, ReqFits, Holding
  <2> QED
    BY <2>1, <2>2, OwnerOnly DEF BufInv, WaitInv
<1>1. b_flags[b] = {"INVAL", "BUSY"} /\ b \notin io
  BY <1>0 DEF HeldFits, BufFits
<1>2. Deliver(p, b, {"BUSY"}, {}, req[p].use) /\ Assign(b, req[p].blk, {})
  BY DEF getblk_alloc
<1> DEFINE reads == Reads(req[p].use, {"BUSY"})
           F == IF reads THEN ({"BUSY"} \cup {"READ"}) \ {"DONE", "ERROR", "INVAL"} ELSE {"BUSY"}
<1>3. PushedFlags({}) = b_flags
  BY <1>0 DEF PushedFlags, BufType
<1>4. /\ b_flags' = [b_flags EXCEPT ![b] = F] /\ io' = io \cup (IF reads THEN {b} ELSE {})
      /\ held' = [held EXCEPT ![p] = b] /\ b_blk' = [b_blk EXCEPT ![b] = req[p].blk]
  BY <1>2, <1>3 DEF Deliver, Assign
<1>5. /\ v_numoutput' = v_numoutput /\ UNCHANGED <<VBWAIT, wanted, asleep, age, lru>>
  BY DEF getblk_alloc, outs, lists
<1>6. \A q \in Proc \ {p} : pc'[q] = pc[q] /\ held'[q] = held[q]
  <2>1. \E pl : pc' = [pc EXCEPT ![p] = pl]
    BY <1>2 DEF Deliver, Go
  <2> QED
    BY <1>0, <1>4, <2>1 DEF BufType
<1>7. /\ b_flags'[b] = F /\ \A c \in Buf \ {b} : b_flags'[c] = b_flags[c] /\ b_blk'[c] = b_blk[c]
  BY <1>0, <1>4 DEF BufType
<1>8. reads => "READ" \in F
  OBVIOUS
<1> HIDE DEF F, reads
<1>9. Starts({})
  BY <1>0, <1>1, <1>4, <1>7, <1>8 DEF Starts, BufType
<1>10. \A c \in Buf : Marked(c) => Marked(c)'
  BY <1>1, <1>7 DEF Marked
<1>11. Wakes(p)
  BY <1>0, <1>5, <1>6, <1>10 DEF Wakes
<1> QED
  BY <1>0, <1>5, <1>9, <1>11, CalmStep

\* breada().
LEMMA RaMissWait ==
  ASSUME BufInv, BufInv', WaitInv, NEW p \in Proc, NEW k \in Block, ra_miss(p, k), VBWAIT' = VBWAIT,
         asleep[p] = none
  PROVE  WaitInv'
<1>1. PICK b \in Buf, S \in SUBSET Buf : RaMissDoes(p, k, b, S)
  BY RaMissIs
<1> DEFINE F == {"BUSY", "READ", "ASYNC", "AGE"}
           x == "clean"
           I == {b}
<1>2. /\ Takes(b, S, F, x, k, I) /\ pc' = [pc EXCEPT ![p] = Waits(p)] /\ held' = held
      /\ v_numoutput' = MoreOutput(S) /\ UNCHANGED <<VBWAIT, wanted, asleep>>
  BY <1>1 DEF RaMissDoes
<1>3. F \in SUBSET Flags /\ I \in SUBSET {b} /\ x \in {"none", "clean"} /\ k \in Block \cup {none} /\ "READ" \in F
  BY DEF Flags
<1> HIDE DEF F, x, I
<1>4. \A q \in Proc \ {p} : pc'[q] = pc[q] /\ held'[q] = held[q]
  BY <1>2 DEF BufInv, BufType
<1>5. TakesFor(p, b, S, F, x, k, I)
  BY <1>2, <1>3, <1>4 DEF TakesFor
<1> QED
  BY <1>5, TakeWait

\* A buffer that is not under way is released, or thrown away.
Gives(p, b, fl) ==
  /\ b \in Buf /\ b \notin io /\ (Marked(b) => "WANTED" \in fl)
  /\ UNCHANGED <<io, v_numoutput, VBWAIT>> /\ wanted' = FALSE
  /\ asleep' = Woken(RelChans(b, fl))
  /\ \A c \in Buf \ {b} : b_flags'[c] = b_flags[c] /\ b_blk'[c] = b_blk[c]
  /\ \A q \in Proc \ {p} : pc'[q] = pc[q] /\ held'[q] = held[q]

LEMMA GiveWait ==
  ASSUME BufInv, BufInv', WaitInv, NEW p \in Proc, asleep[p] = none, NEW b, NEW fl, Gives(p, b, fl)
  PROVE  WaitInv'
<1>0. /\ BufType /\ asleep \in [Proc -> Chans] /\ VBWAIT \in SUBSET Vnode
      /\ \A q \in Proc : Covered(q)
  BY DEF BufInv, WaitInv
<1>1. /\ b \in Buf /\ b \notin io /\ (Marked(b) => "WANTED" \in fl)
      /\ UNCHANGED <<io, v_numoutput, VBWAIT>> /\ wanted' = FALSE
      /\ asleep' = Woken(RelChans(b, fl))
      /\ \A c \in Buf \ {b} : b_flags'[c] = b_flags[c] /\ b_blk'[c] = b_blk[c]
      /\ \A q \in Proc \ {p} : pc'[q] = pc[q] /\ held'[q] = held[q]
  BY DEF Gives
<1> DEFINE X == RelChans(b, fl)
<1>2. none \notin X /\ (wanted => "bfreelist" \in X) /\ ("WANTED" \in fl => b \in X)
  BY <1>1, ChansAre DEF RelChans
<1> HIDE DEF X
<1>3. asleep' \in [Proc -> Chans] /\ \A q \in Proc : asleep'[q] \in {asleep[q], none} /\ asleep'[q] \notin X
  BY <1>0, <1>1, <1>2, WokenIs DEF X
<1>4. \A q \in Proc : asleep'[q] # "bfreelist"
  BY <1>0, <1>2, <1>3, ChansAre DEF Covered
<1>5. Starts({})
  BY <1>0, <1>1 DEF Starts, BufType
<1>6. \A c \in Buf : Marked(c) /\ ~Marked(c)' => \A q \in Proc \ {p} : asleep'[q] # c
  BY <1>1, <1>2, <1>3 DEF Marked
<1>7. Wakes(p)
  BY <1>0, <1>1, <1>3, <1>4, <1>6 DEF Wakes
<1>8. asleep'[p] = none
  BY <1>3
<1> QED
  BY <1>1, <1>5, <1>7, <1>8, CalmStep

\* Nothing happens but to the flags of a buffer, whose marks stay.
Marks(p, b) ==
  /\ b \in Buf /\ (Marked(b) => Marked(b)') /\ ("READ" \in b_flags'[b] <=> "READ" \in b_flags[b])
  /\ \A c \in Buf \ {b} : b_flags'[c] = b_flags[c]
  /\ UNCHANGED <<b_blk, io, v_numoutput, VBWAIT, wanted, age, lru>>
  /\ asleep' \in [Proc -> Chans]
  /\ \A q \in Proc \ {p} : pc'[q] = pc[q] /\ held'[q] = held[q] /\ asleep'[q] = asleep[q]

LEMMA MarkWait ==
  ASSUME BufInv, BufInv', WaitInv, NEW p \in Proc, NEW b, Marks(p, b),
         asleep'[p] = none \/ (SleepFits(p)' /\ Covered(p)')
  PROVE  WaitInv'
<1>0. /\ BufType /\ VBWAIT \in SUBSET Vnode /\ wanted \in BOOLEAN
  BY DEF BufInv, WaitInv
<1>1. Starts({})
  BY <1>0 DEF Marks, Starts, BufType
<1>2. Wakes(p) /\ v_numoutput' = v_numoutput
  BY <1>0 DEF Marks, Wakes, Marked
<1> QED
  BY <1>1, <1>2, CalmStep

LEMMA RaHitWait ==
  ASSUME BufInv, BufInv', WaitInv, NEW p \in Proc, NEW k \in Block, ra_hit(p, k), VBWAIT' = VBWAIT,
         asleep[p] = none
  PROVE  WaitInv'
<1>0. BufType /\ asleep \in [Proc -> Chans]
  BY DEF BufInv, WaitInv
<1>1. PICK b \in incore(k) :
        /\ IF "AGE" \in b_flags[b] /\ "BUSY" \notin b_flags[b]
             THEN /\ b_flags' = [b_flags EXCEPT ![b] = RelFlags(@)]
                  /\ wanted' = FALSE /\ asleep' = Woken(RelChans(b, b_flags[b]))
             ELSE /\ b_flags' = [b_flags EXCEPT ![b] = @ \ {"AGE"}]
                  /\ UNCHANGED <<age, lru, wanted, asleep>>
        /\ pc' = [pc EXCEPT ![p] = Waits(p)]
        /\ UNCHANGED <<b_blk, v_numoutput, io, held>>
  BY DEF ra_hit, Go
<1>2. b \in Buf /\ BufFits(b)
  BY <1>1 DEF incore, BufInv
<1>3. /\ \A q \in Proc \ {p} : pc'[q] = pc[q] /\ held'[q] = held[q]
      /\ \A c \in Buf \ {b} : b_flags'[c] = b_flags[c]
  BY <1>0, <1>1 DEF BufType
<1>4. CASE ~("AGE" \in b_flags[b] /\ "BUSY" \notin b_flags[b])
  <2>1. b_flags'[b] = b_flags[b] \ {"AGE"} /\ UNCHANGED <<age, lru, wanted, asleep>>
    BY <1>0, <1>1, <1>2, <1>4 DEF BufType
  <2>2. Marks(p, b)
    BY <1>0, <1>1, <1>2, <1>3, <2>1 DEF Marks, Marked
  <2>3. asleep'[p] = none
    BY <2>1
  <2> QED
    BY <2>2, <2>3, MarkWait
<1>5. CASE "AGE" \in b_flags[b] /\ "BUSY" \notin b_flags[b]
  <2>1. b \notin io
    BY <1>2, <1>5 DEF BufFits
  <2>2. Gives(p, b, b_flags[b])
    BY <1>1, <1>2, <1>3, <1>5, <2>1 DEF Gives, Marked
  <2> QED
    BY <2>2, GiveWait
<1> QED
  BY <1>4, <1>5

LEMMA BreadaWait ==
  ASSUME BufInv, BufInv', WaitInv, NEW p \in Proc, NEW k \in Block, breada(p, k)
  PROVE  WaitInv'
<1>0. /\ BufType /\ ReqFits(p) /\ pc[p] \in {"reada", "reada_hit"} /\ asleep[p] = none
      /\ req' = req /\ nbp' = nbp /\ VBWAIT' = VBWAIT
  BY DEF BufInv, breada, At
<1>1. CASE nobuf(p, pc[p], SizeOf[req[p].blk])
  <2>1. req' \in [Proc -> Request] /\ (\A q \in Proc \ {p} : req'[q] = req[q]) /\ ReqFits(p)'
    BY <1>0 DEF BufInv, BufType
  <2>2. pc[p] \in Places
    BY <1>0 DEF BufType
  <2>3. age' = <<>> /\ lru' = <<>>
    BY <1>0, <1>1, <2>1, <2>2, NobufStep
  <2> QED
    BY <1>0, <1>1, <2>3, NobufWait
<1> QED
  BY <1>0, <1>1, RaMissWait, RaHitWait DEF breada

LEMMA BiowaitWait ==
  ASSUME BufInv, BufInv', WaitInv, NEW p \in Proc, biowait_sleep(p)
  PROVE  WaitInv'
<1>0. BufType /\ asleep \in [Proc -> Chans] /\ HeldFits(p) /\ ReqFits(p) /\ VBWAIT \in SUBSET Vnode
  BY DEF BufInv, WaitInv
<1>1. /\ pc[p] = "biowait" /\ "DONE" \notin b_flags[held[p]] /\ asleep' = [asleep EXCEPT ![p] = held[p]]
      /\ UNCHANGED <<b_flags, b_blk, io, v_numoutput, VBWAIT, wanted, age, lru, pc, held>>
  BY DEF biowait_sleep, At, SleepOn, bufs, lists, outs
<1>2. held[p] \in Buf /\ held[p] \in io
  BY <1>0, <1>1 DEF BufType, HeldFits, ReqFits, Holding
<1>3. /\ asleep' \in [Proc -> Chans] /\ asleep'[p] = held[p]
      /\ \A q \in Proc \ {p} : asleep'[q] = asleep[q]
  BY <1>0, <1>1, <1>2 DEF Chans
<1>4. Marks(p, held[p])
  BY <1>1, <1>2, <1>3 DEF Marks, Marked
<1>5. SleepFits(p)' /\ Covered(p)'
  BY <1>1, <1>2, <1>3, ChansAre DEF SleepFits, Covered
<1> QED
  BY <1>4, <1>5, MarkWait

LEMMA BreadDoneWait ==
  ASSUME BufInv, BufInv', WaitInv, NEW p \in Proc, bread_done(p)
  PROVE  WaitInv'
<1> DEFINE b == held[p]
<1>0. BufType /\ asleep \in [Proc -> Chans] /\ asleep[p] = none /\ b \in Buf
  <2>1. pc[p] = "biowait" /\ asleep[p] = none
    BY DEF bread_done, At
  <2>2. b # none
    BY <2>1 DEF BufInv, ReqFits, Holding
  <2> QED
    BY <2>1, <2>2, OwnerOnly DEF BufInv, WaitInv
<1>1. /\ b_flags' = [b_flags EXCEPT ![b] = Result(b)] /\ pc' = [pc EXCEPT ![p] = "held"]
      /\ UNCHANGED <<b_blk, io, v_numoutput, VBWAIT, wanted, age, lru, held, asleep>>
  BY DEF bread_done, Go, lists, outs
<1>2. Marks(p, b)
  BY <1>0, <1>1 DEF Marks, Marked, Result, BufType
<1>3. asleep'[p] = none
  BY <1>0, <1>1
<1> QED
  BY <1>2, <1>3, MarkWait

LEMMA BwriteDoneWait ==
  ASSUME BufInv, BufInv', WaitInv, NEW p \in Proc, bwrite_done(p)
  PROVE  WaitInv'
<1> DEFINE b == held[p]
           fl == Result(b)
<1>0. BufType /\ asleep[p] = none /\ b \in Buf /\ BufFits(b) /\ "DONE" \in b_flags[b]
  <2>1. pc[p] = "biowait" /\ asleep[p] = none /\ "DONE" \in b_flags[b]
    BY DEF bwrite_done, At
  <2>2. b # none
    BY <2>1 DEF BufInv, ReqFits, Holding
  <2> QED
    BY <2>1, <2>2, OwnerOnly DEF BufInv
<1>1. b \notin io
  BY <1>0 DEF BufFits
<1>2. /\ brelse(b, fl) /\ held' = [held EXCEPT ![p] = none] /\ UNCHANGED <<io, v_numoutput, VBWAIT>>
      /\ \E pl : pc' = [pc EXCEPT ![p] = pl]
  BY DEF bwrite_done, Go, outs
<1>3. Marked(b) => "WANTED" \in fl
  BY DEF Marked, Result
<1> HIDE DEF fl
<1>4. /\ wanted' = FALSE /\ asleep' = Woken(RelChans(b, fl))
      /\ b_flags' = [b_flags EXCEPT ![b] = RelFlags(fl)]
      /\ b_blk' = IF Bad(fl) THEN [b_blk EXCEPT ![b] = none] ELSE b_blk
  BY <1>2 DEF brelse, Requeue
<1>5. /\ \A c \in Buf \ {b} : b_flags'[c] = b_flags[c] /\ b_blk'[c] = b_blk[c]
      /\ \A q \in Proc \ {p} : pc'[q] = pc[q] /\ held'[q] = held[q]
  BY <1>0, <1>2, <1>4 DEF BufType
<1>6. Gives(p, b, fl)
  BY <1>0, <1>1, <1>2, <1>3, <1>4, <1>5 DEF Gives
<1> QED
  BY <1>0, <1>6, GiveWait

LEMMA BrelseHeldWait ==
  ASSUME BufInv, BufInv', WaitInv, NEW p \in Proc, NEW inval \in BOOLEAN, brelse_held(p, inval)
  PROVE  WaitInv'
<1> DEFINE b == held[p]
           fl == b_flags[b] \cup (IF inval THEN {"INVAL"} ELSE {})
<1>0. BufType /\ asleep[p] = none /\ b \in Buf /\ b \notin io
  BY HeldIs DEF brelse_held, At, BufInv
<1>2. /\ brelse(b, fl) /\ held' = [held EXCEPT ![p] = none] /\ UNCHANGED <<io, v_numoutput, VBWAIT>>
      /\ pc' = [pc EXCEPT ![p] = "idle"]
  BY DEF brelse_held, Done, Go, outs
<1>3. Marked(b) => "WANTED" \in fl
  BY DEF Marked
<1> HIDE DEF fl
<1>4. /\ wanted' = FALSE /\ asleep' = Woken(RelChans(b, fl))
      /\ b_flags' = [b_flags EXCEPT ![b] = RelFlags(fl)]
      /\ b_blk' = IF Bad(fl) THEN [b_blk EXCEPT ![b] = none] ELSE b_blk
  BY <1>2 DEF brelse, Requeue
<1>5. /\ \A c \in Buf \ {b} : b_flags'[c] = b_flags[c] /\ b_blk'[c] = b_blk[c]
      /\ \A q \in Proc \ {p} : pc'[q] = pc[q] /\ held'[q] = held[q]
  BY <1>0, <1>2, <1>4 DEF BufType
<1>6. Gives(p, b, fl)
  BY <1>0, <1>2, <1>3, <1>4, <1>5 DEF Gives
<1> QED
  BY <1>0, <1>6, GiveWait

LEMMA BdwriteWait ==
  ASSUME BufInv, BufInv', WaitInv, NEW p \in Proc, bdwrite(p)
  PROVE  WaitInv'
<1> DEFINE b == held[p]
           fl == (b_flags[b] \ {"READ", "DONE"}) \cup {"DIRTY", "DELWRI"}
<1>0. BufType /\ asleep[p] = none /\ b \in Buf /\ b \notin io
  BY HeldIs DEF bdwrite, MayWrite, At, BufInv
<1>2. /\ b_flags' = [b_flags EXCEPT ![b] = RelFlags(fl)] /\ b_blk' = b_blk
      /\ wanted' = FALSE /\ asleep' = Woken(RelChans(b, fl))
      /\ held' = [held EXCEPT ![p] = none] /\ UNCHANGED <<io, v_numoutput, VBWAIT>>
      /\ pc' = [pc EXCEPT ![p] = "idle"]
  BY DEF bdwrite, Done, Go, outs
<1>3. Marked(b) => "WANTED" \in fl
  BY DEF Marked
<1> HIDE DEF fl
<1>5. /\ \A c \in Buf \ {b} : b_flags'[c] = b_flags[c] /\ b_blk'[c] = b_blk[c]
      /\ \A q \in Proc \ {p} : pc'[q] = pc[q] /\ held'[q] = held[q]
  BY <1>0, <1>2 DEF BufType
<1>6. Gives(p, b, fl)
  BY <1>0, <1>2, <1>3, <1>5 DEF Gives
<1> QED
  BY <1>0, <1>6, GiveWait

\* One write starts.
Launches(p, b) ==
  /\ b \in Buf /\ b \notin io /\ (Marked(b) => Marked(b)') /\ "READ" \notin b_flags'[b]
  /\ \A c \in Buf \ {b} : b_flags'[c] = b_flags[c]
  /\ b_blk' = b_blk /\ io' = io \cup {b} /\ v_numoutput' = MoreOutput({b})
  /\ UNCHANGED <<VBWAIT, wanted, asleep>>
  /\ Range(age') \subseteq Range(age) /\ Range(lru') \subseteq Range(lru)
  /\ \A q \in Proc \ {p} : pc'[q] = pc[q] /\ held'[q] = held[q]

LEMMA LaunchWait ==
  ASSUME BufInv, BufInv', WaitInv, NEW p \in Proc, NEW b, Launches(p, b), asleep[p] = none
  PROVE  WaitInv'
<1>0. /\ BufType /\ asleep \in [Proc -> Chans] /\ VBWAIT \in SUBSET Vnode /\ wanted \in BOOLEAN
  BY DEF BufInv, WaitInv
<1> DEFINE S == {b}
<1>1. S \in SUBSET Buf /\ asleep'[p] = none
  BY DEF Launches
<1>2. Starts(S)
  BY <1>0 DEF Launches, Starts, BufType
<1>3. v_numoutput' = MoreOutput(S)
  BY DEF Launches
<1> HIDE DEF S
<1>4. Wakes(p)
  BY <1>0 DEF Wakes, Launches, Marked
<1>5. Quiet(p, S)
  BY <1>2, <1>3, <1>4 DEF Quiet
<1> QED
  BY <1>1, <1>5, AwakeStep

LEMMA StartWait ==
  ASSUME BufInv, BufInv', WaitInv, NEW p \in Proc, pc[p] = "held", asleep[p] = none, NEW async \in BOOLEAN,
         StartWrite(held[p], async), UNCHANGED <<b_blk, lists, wanted, VBWAIT, asleep>>,
         \A q \in Proc \ {p} : pc'[q] = pc[q] /\ held'[q] = held[q]
  PROVE  WaitInv'
<1>0. PICK b \in Buf : BufType /\ b = held[p] /\ b \notin io
  BY HeldIs DEF BufInv
<1>1. /\ b_flags' = [b_flags EXCEPT ![b] = Started(@, async)] /\ v_numoutput' = MoreOutput({b})
      /\ io' = io \cup {b}
  BY <1>0 DEF StartWrite
<1>2. b_flags'[b] = Started(b_flags[b], async) /\ \A c \in Buf \ {b} : b_flags'[c] = b_flags[c]
  BY <1>0, <1>1 DEF BufType
<1>3. "READ" \notin b_flags'[b] /\ (Marked(b) => Marked(b)')
  BY <1>2 DEF Marked, Started
<1>4. io' = io \cup {b} /\ v_numoutput' = MoreOutput({b}) /\ age' = age /\ lru' = lru
  BY <1>1 DEF lists
<1>5. Launches(p, b)
  BY <1>0, <1>2, <1>3, <1>4 DEF Launches
<1> QED
  BY <1>5, LaunchWait

LEMMA BwriteWait ==
  ASSUME BufInv, BufInv', WaitInv, NEW p \in Proc, bwrite(p) PROVE WaitInv'
<1> DEFINE async == FALSE
<1>1. /\ pc[p] = "held" /\ asleep[p] = none /\ async \in BOOLEAN
      /\ StartWrite(held[p], async) /\ UNCHANGED <<b_blk, lists, wanted, VBWAIT, asleep>>
      /\ held' = held /\ pc' = [pc EXCEPT ![p] = "biowait"]
  BY DEF bwrite, MayWrite, At, Go
<1>2. \A q \in Proc \ {p} : pc'[q] = pc[q] /\ held'[q] = held[q]
  BY <1>1 DEF BufInv, BufType
<1> HIDE DEF async
<1> QED
  BY <1>1, <1>2, StartWait

LEMMA BawriteWait ==
  ASSUME BufInv, BufInv', WaitInv, NEW p \in Proc, bawrite(p) PROVE WaitInv'
<1> DEFINE async == TRUE
<1>1. /\ pc[p] = "held" /\ asleep[p] = none /\ async \in BOOLEAN
      /\ StartWrite(held[p], async) /\ UNCHANGED <<b_blk, lists, wanted, VBWAIT, asleep>>
      /\ held' = [held EXCEPT ![p] = none] /\ pc' = [pc EXCEPT ![p] = "idle"]
  BY DEF bawrite, MayWrite, At, Go, Done
<1>2. \A q \in Proc \ {p} : pc'[q] = pc[q] /\ held'[q] = held[q]
  BY <1>1 DEF BufInv, BufType
<1> HIDE DEF async
<1> QED
  BY <1>1, <1>2, StartWait

LEMMA FlushOneWait ==
  ASSUME BufInv, BufInv', WaitInv, NEW p \in Proc, flush_one(p) PROVE WaitInv'
<1>0. BufType /\ ListsFit /\ asleep[p] = none
  BY DEF BufInv, flush_one, At
<1>1. PICK b \in Idle(OnVnode(req[p].blk, "dirty")) :
        /\ age' = Without(age, {b}) /\ lru' = Without(lru, {b})
        /\ b_flags' = PushedFlags({b}) /\ io' = io \cup {b} /\ v_numoutput' = MoreOutput({b})
        /\ UNCHANGED <<b_blk, empty, wanted, VBWAIT, pc, held, asleep>>
  BY DEF flush_one
<1>2. b \in Buf /\ "BUSY" \notin b_flags[b]
  BY <1>1 DEF Idle, OnVnode
<1>3. b \notin io /\ b \in OnLists
  BY <1>2, FreeUnowned
<1>4. /\ Once(age) /\ Once(lru)
  BY <1>0 DEF ListsFit, OnceEach
<1> DEFINE S == {b}
<1> HIDE DEF S
<1>5. Range(Without(age, S)) = Range(age) \ S /\ Range(Without(lru, S)) = Range(lru) \ S
  BY <1>4, WithoutIs
<1>6. Range(age') \subseteq Range(age) /\ Range(lru') \subseteq Range(lru)
  BY <1>1, <1>5 DEF S
<1>7. "READ" \notin b_flags'[b] /\ \A c \in Buf \ {b} : b_flags'[c] = b_flags[c]
  BY <1>0, <1>1, <1>2 DEF PushedFlags, Started, BufType
<1>8. Launches(p, b)
  BY <1>1, <1>2, <1>3, <1>6, <1>7 DEF Launches, Marked
<1> QED
  BY <1>0, <1>8, LaunchWait

\* Nothing happens to the buffers.
LEMMA IdleWait ==
  ASSUME BufInv, BufInv', WaitInv, NEW p \in Proc, asleep[p] = none,
         UNCHANGED <<b_flags, b_blk, io, v_numoutput, VBWAIT, wanted, age, lru, asleep>>,
         \A q \in Proc \ {p} : pc'[q] = pc[q] /\ held'[q] = held[q]
  PROVE  WaitInv'
<1>0. /\ BufType /\ asleep \in [Proc -> Chans] /\ VBWAIT \in SUBSET Vnode /\ wanted \in BOOLEAN
  BY DEF BufInv, WaitInv
<1>1. Starts({})
  BY <1>0 DEF Starts, BufType
<1>2. Wakes(p) /\ asleep'[p] = none
  BY <1>0 DEF Wakes, Marked
<1> QED
  BY <1>1, <1>2, CalmStep

LEMMA VflushbufWait ==
  ASSUME BufInv, BufInv', WaitInv, NEW p \in Proc, NEW v, NEW use, vflushbuf(p, v, use) PROVE WaitInv'
<1>1. /\ asleep[p] = none /\ pc' = [pc EXCEPT ![p] = "flush"]
      /\ UNCHANGED <<b_flags, b_blk, io, v_numoutput, VBWAIT, wanted, age, lru, asleep, held>>
  BY DEF vflushbuf, At, Go, bufs, lists, outs
<1>2. \A q \in Proc \ {p} : pc'[q] = pc[q] /\ held'[q] = held[q]
  BY <1>1 DEF BufInv, BufType
<1> QED
  BY <1>1, <1>2, IdleWait

LEMMA VinvalbufWait ==
  ASSUME BufInv, BufInv', WaitInv, NEW p \in Proc, NEW v, NEW use, vinvalbuf(p, v, use) PROVE WaitInv'
<1>1. /\ asleep[p] = none /\ pc' = [pc EXCEPT ![p] = "inval"]
      /\ UNCHANGED <<b_flags, b_blk, io, v_numoutput, VBWAIT, wanted, age, lru, asleep, held>>
  BY DEF vinvalbuf, At, Go, bufs, lists, outs
<1>2. \A q \in Proc \ {p} : pc'[q] = pc[q] /\ held'[q] = held[q]
  BY <1>1 DEF BufInv, BufType
<1> QED
  BY <1>1, <1>2, IdleWait

LEMMA ReturnWait ==
  ASSUME BufInv, BufInv', WaitInv, NEW p \in Proc, flush_return(p) \/ inval_return(p) PROVE WaitInv'
<1>1. /\ asleep[p] = none /\ pc' = [pc EXCEPT ![p] = "idle"] /\ held' = [held EXCEPT ![p] = none]
      /\ UNCHANGED <<b_flags, b_blk, io, v_numoutput, VBWAIT, wanted, age, lru, asleep>>
  BY DEF flush_return, inval_return, Return, Done, At, Go, bufs, lists, outs
<1>2. \A q \in Proc \ {p} : pc'[q] = pc[q] /\ held'[q] = held[q]
  BY <1>1 DEF BufInv, BufType
<1> QED
  BY <1>1, <1>2, IdleWait

LEMMA FlushCheckWait ==
  ASSUME BufInv, BufInv', WaitInv, NEW p \in Proc, flush_check(p) PROVE WaitInv'
<1>1. /\ asleep[p] = none
      /\ UNCHANGED <<b_flags, b_blk, io, v_numoutput, VBWAIT, wanted, age, lru, asleep>>
  BY DEF flush_check, At, bufs, lists, outs
<1>2. \/ pc' = [pc EXCEPT ![p] = "idle"] /\ held' = [held EXCEPT ![p] = none]
      \/ pc' = [pc EXCEPT ![p] = "flush"] /\ held' = held
  BY DEF flush_check, Return, Done, Go
<1>3. \A q \in Proc \ {p} : pc'[q] = pc[q] /\ held'[q] = held[q]
  BY <1>2 DEF BufInv, BufType
<1> QED
  BY <1>1, <1>3, IdleWait

\* vflushbuf() waits until no write is under way.
LEMMA FlushWaitWait ==
  ASSUME BufInv, BufInv', WaitInv, NEW p \in Proc, flush_wait(p) PROVE WaitInv'
<1>0. BufType /\ asleep \in [Proc -> Chans] /\ VBWAIT \in SUBSET Vnode /\ wanted \in BOOLEAN /\ ReqFits(p)
  BY DEF BufInv, WaitInv
<1>1. /\ pc[p] \in {"flush", "flushw"} /\ v_numoutput[req[p].blk] # 0
      /\ VBWAIT' = VBWAIT \cup {req[p].blk} /\ asleep' = [asleep EXCEPT ![p] = req[p].blk]
      /\ pc' = [pc EXCEPT ![p] = "flushw"]
      /\ UNCHANGED <<b_flags, b_blk, io, v_numoutput, wanted, age, lru, held>>
  BY DEF flush_wait, At, SleepOn, Go, Drained, bufs, lists
<1> DEFINE v == req[p].blk
<1>2. v \in Vnode
  BY <1>0, <1>1 DEF ReqFits
<1>3. /\ asleep'[p] = v /\ pc'[p] = "flushw" /\ asleep' \in [Proc -> Chans]
      /\ \A q \in Proc \ {p} : pc'[q] = pc[q] /\ held'[q] = held[q] /\ asleep'[q] = asleep[q]
  BY <1>0, <1>1, <1>2 DEF BufType, Chans
<1>4. v_numoutput'[v] # 0 /\ v \in VBWAIT'
  BY <1>1
<1> HIDE DEF v
<1>5. Starts({})
  BY <1>0, <1>1 DEF Starts, BufType
<1>6. VBWAIT \subseteq VBWAIT' /\ VBWAIT' \subseteq Vnode
  BY <1>0, <1>1, <1>2 DEF v
<1>7. Wakes(p)
  BY <1>0, <1>1, <1>3, <1>6 DEF Wakes, Marked
<1>8. SleepFits(p)' /\ Covered(p)'
  BY <1>2, <1>3, <1>4, ChansAre DEF SleepFits, Covered
<1> QED
  BY <1>1, <1>5, <1>7, <1>8, CalmStep

LEMMA InvalBusyWait ==
  ASSUME BufInv, BufInv', WaitInv, NEW p \in Proc, inval_busy(p) PROVE WaitInv'
<1>0. BufType /\ asleep \in [Proc -> Chans] /\ pc[p] = "inval"
  BY DEF BufInv, WaitInv, inval_busy, At
<1>1. PICK b \in Turn(p) :
        /\ "BUSY" \in b_flags[b] /\ b_flags' = [b_flags EXCEPT ![b] = @ \cup {"WANTED"}]
        /\ asleep' = [asleep EXCEPT ![p] = b]
        /\ UNCHANGED <<b_blk, io, v_numoutput, VBWAIT, wanted, age, lru, pc, held>>
  BY DEF inval_busy, SleepOn, lists, outs
<1>2. b \in Buf
  BY <1>0, TurnIs
<1>3. /\ b_flags'[b] = b_flags[b] \cup {"WANTED"} /\ \A c \in Buf \ {b} : b_flags'[c] = b_flags[c]
  BY <1>0, <1>1, <1>2 DEF BufType
<1>4. /\ asleep'[p] = b /\ asleep' \in [Proc -> Chans] /\ \A q \in Proc \ {p} : asleep'[q] = asleep[q]
  BY <1>0, <1>1, <1>2 DEF Chans
<1>5. Marks(p, b)
  BY <1>1, <1>2, <1>3, <1>4 DEF Marks, Marked
<1>6. SleepFits(p)' /\ Covered(p)'
  BY <1>0, <1>1, <1>2, <1>3, <1>4, ChansAre DEF SleepFits, Covered
<1> QED
  BY <1>5, <1>6, MarkWait

LEMMA InvalSaveWait ==
  ASSUME BufInv, BufInv', WaitInv, NEW p \in Proc, inval_save(p) PROVE WaitInv'
<1>0. BufType /\ ListsFit /\ asleep[p] = none /\ pc[p] = "inval"
  BY DEF BufInv, inval_save, At
<1>1. PICK b \in Idle(Turn(p)) :
        /\ age' = Without(age, {b}) /\ lru' = Without(lru, {b})
        /\ b_flags' = [b_flags EXCEPT ![b] = Started(@ \cup {"BUSY"}, FALSE)]
        /\ io' = io \cup {b} /\ v_numoutput' = MoreOutput({b})
        /\ held' = [held EXCEPT ![p] = b] /\ pc' = [pc EXCEPT ![p] = "biowait"]
        /\ UNCHANGED <<b_blk, empty, wanted, VBWAIT, asleep>>
  BY DEF inval_save, Go
<1>2. b \in Buf /\ "BUSY" \notin b_flags[b]
  BY <1>0, <1>1, TurnIs DEF Idle
<1>3. b \notin io
  BY <1>2, FreeUnowned
<1>4. /\ Once(age) /\ Once(lru)
  BY <1>0 DEF ListsFit, OnceEach
<1> DEFINE S == {b}
<1> HIDE DEF S
<1>5. Range(Without(age, S)) = Range(age) \ S /\ Range(Without(lru, S)) = Range(lru) \ S
  BY <1>4, WithoutIs
<1>6. Range(age') \subseteq Range(age) /\ Range(lru') \subseteq Range(lru)
  BY <1>1, <1>5 DEF S
<1>7. /\ "READ" \notin b_flags'[b] /\ \A c \in Buf \ {b} : b_flags'[c] = b_flags[c]
      /\ \A q \in Proc \ {p} : pc'[q] = pc[q] /\ held'[q] = held[q]
  BY <1>0, <1>1, <1>2 DEF Started, BufType
<1>8. io' = io \cup {b} /\ v_numoutput' = MoreOutput({b}) /\ UNCHANGED <<b_blk, wanted, VBWAIT, asleep>>
  BY <1>1
<1>9. ~Marked(b)
  BY <1>2 DEF Marked
<1>10. Launches(p, b)
  BY <1>2, <1>3, <1>6, <1>7, <1>8, <1>9 DEF Launches
<1> QED
  BY <1>0, <1>10, LaunchWait

LEMMA InvalDropWait ==
  ASSUME BufInv, BufInv', WaitInv, NEW p \in Proc, inval_drop(p) PROVE WaitInv'
<1>0. BufType /\ asleep[p] = none /\ pc[p] = "inval"
  BY DEF BufInv, inval_drop, At
<1>1. PICK b \in Idle(Turn(p)) :
        /\ b_blk' = [b_blk EXCEPT ![b] = none] /\ b_flags' = [b_flags EXCEPT ![b] = {"INVAL"}]
        /\ wanted' = FALSE /\ asleep' = Woken(RelChans(b, b_flags[b]))
        /\ UNCHANGED <<io, v_numoutput, VBWAIT, pc, held>>
  BY DEF inval_drop, outs
<1>2. b \in Buf /\ "BUSY" \notin b_flags[b]
  BY <1>0, <1>1, TurnIs DEF Idle
<1>3. b \notin io
  BY <1>2, FreeUnowned
<1>4. \A c \in Buf \ {b} : b_flags'[c] = b_flags[c] /\ b_blk'[c] = b_blk[c]
  BY <1>0, <1>1 DEF BufType
<1>5. Gives(p, b, b_flags[b])
  BY <1>1, <1>2, <1>3, <1>4 DEF Gives, Marked
<1> QED
  BY <1>0, <1>5, GiveWait

\* biodone(): vwakeup().
LEMMA BiodoneCounts ==
  ASSUME BufInv, WaitInv, NEW b \in Buf, NEW ok \in BOOLEAN, biodone(b, ok)
  PROVE  /\ v_numoutput' \in [Vnode -> Nat] /\ OutputCounted'
         /\ \A v \in Vnode : v \in VBWAIT /\ v_numoutput[v] # 0 =>
              (v \in VBWAIT' /\ v_numoutput'[v] # 0) \/ \A q \in Proc : asleep'[q] # v
<1>0. /\ BufType /\ v_numoutput \in [Vnode -> Nat] /\ OutputCounted /\ b \in io /\ asleep \in [Proc -> Chans]
      /\ b_blk[b] \in Block /\ b_flags[b] \cap {"READ", "DIRTY"} # {} /\ io \in SUBSET Buf
  <2>1. b \in io
    BY DEF biodone
  <2>2. BufFits(b)
    BY DEF BufInv
  <2> QED
    BY <2>1, <2>2 DEF BufInv, BufType, BufFits, WaitInv
<1> DEFINE u == VnodeOf[b_blk[b]]
           write == "READ" \notin b_flags[b]
           last == write /\ u \in VBWAIT /\ v_numoutput[u] <= 1
<1>1. u \in Vnode
  BY <1>0, BufAssumption
<1>2. /\ io' = io \ {b}
      /\ v_numoutput' = IF write THEN LessOutput(u) ELSE v_numoutput
      /\ VBWAIT' = IF last THEN VBWAIT \ {u} ELSE VBWAIT
      /\ \E X : asleep' = Woken(X) /\ none \notin X /\ (last => u \in X)
  <2>1. write <=> "READ" \notin b_flags[b] /\ "DIRTY" \in b_flags[b]
    BY <1>0
  <2> DEFINE fl == (b_flags[b] \cup (IF ok THEN {} ELSE {"ERROR"})) \ (IF write THEN {"DIRTY"} ELSE {})
             X == {b} \cup (IF last THEN {u} ELSE {}) \cup (IF "ASYNC" \in fl THEN RelChans(b, fl) ELSE {})
  <2>2. asleep' = Woken(X)
    BY <2>1 DEF biodone
  <2>3. none \notin X
    BY <1>1, ChansAre DEF RelChans
  <2>4. last => u \in X
    OBVIOUS
  <2>5. \E Y : asleep' = Woken(Y) /\ none \notin Y /\ (last => u \in Y)
    <3> HIDE DEF X, last
    <3> QED
      BY <2>2, <2>3, <2>4
  <2> HIDE DEF X, fl
  <2> QED
    BY <2>1, <2>5 DEF biodone
<1>3. last => \A q \in Proc : asleep'[q] # u
  BY <1>0, <1>2, WokenIs
<1>4. \A c \in Buf \ {b} : b_flags'[c] = b_flags[c] /\ b_blk'[c] = b_blk[c]
  <2>1. (\E F : b_flags' = [b_flags EXCEPT ![b] = F])
    BY DEF biodone
  <2>2. b_blk' = b_blk \/ b_blk' = [b_blk EXCEPT ![b] = none]
    BY DEF biodone, Requeue
  <2> QED
    BY <1>0, <2>1, <2>2 DEF BufType
<1> HIDE DEF u
<1>5. ASSUME NEW v \in Vnode
      PROVE  /\ v_numoutput'[v] \in Nat /\ v_numoutput'[v] = Cardinality(Writes(v)')
             /\ v_numoutput'[v] = IF write /\ v = u THEN v_numoutput[v] - 1 ELSE v_numoutput[v]
  <2>1. v_numoutput[v] = Cardinality(Writes(v)) /\ v_numoutput[v] \in Nat
    BY <1>0 DEF OutputCounted, Writes
  <2>2. v_numoutput'[v] = IF write /\ v = u THEN v_numoutput[v] - 1 ELSE v_numoutput[v]
    BY <1>0, <1>1, <1>2 DEF LessOutput
  <2>3. b \in Writes(v) <=> write /\ v = u
    BY <1>0 DEF Writes, Writing, u
  <2>4. Writes(v)' = Writes(v) \ {b}
    BY <1>0, <1>2, <1>4 DEF Writes, Writing
  <2>5. IsFiniteSet(Writes(v))
    <3>1. Writes(v) \in SUBSET Buf
      BY <1>0 DEF Writes
    <3> HIDE DEF Writes
    <3> QED
      BY <3>1, FiniteIs
  <2>6. CASE b \in Writes(v)
    <3>1. Cardinality(Writes(v) \ {b}) = Cardinality(Writes(v)) - 1
      BY <2>5, <2>6, FS_RemoveElement
    <3>2. Cardinality(Writes(v)) # 0
      BY <2>5, <2>6, FS_EmptySet
    <3> QED
      BY <2>1, <2>2, <2>3, <2>4, <2>6, <3>1, <3>2
  <2>7. CASE b \notin Writes(v)
    <3>1. Writes(v)' = Writes(v)
      BY <2>4, <2>7
    <3> QED
      BY <2>1, <2>2, <2>3, <2>7, <3>1
  <2> QED
    BY <2>6, <2>7
<1>6. v_numoutput' \in [Vnode -> Nat]
  <2>1. v_numoutput' = [v \in Vnode |-> v_numoutput'[v]]
    BY <1>0, <1>2 DEF LessOutput
  <2> QED
    BY <1>5, <2>1
<1>7. OutputCounted'
  BY <1>5 DEF OutputCounted, Writes
<1>8. ASSUME NEW v \in Vnode, v \in VBWAIT, v_numoutput[v] # 0
      PROVE  (v \in VBWAIT' /\ v_numoutput'[v] # 0) \/ \A q \in Proc : asleep'[q] # v
  <2>1. CASE v = u /\ last
    BY <1>3, <2>1
  <2>2. CASE v = u /\ write /\ ~last
    <3>1. v_numoutput[v] \in Nat /\ ~(v_numoutput[v] <= 1)
      BY <1>0, <1>8, <2>2
    <3>2. v_numoutput'[v] = v_numoutput[v] - 1
      BY <1>5, <2>2
    <3>3. v \in VBWAIT'
      BY <1>2, <1>8, <2>2
    <3> QED
      BY <3>1, <3>2, <3>3
  <2>3. CASE v # u \/ ~write
    <3>1. v_numoutput'[v] = v_numoutput[v] /\ v \in VBWAIT'
      BY <1>2, <1>5, <1>8, <2>3
    <3> QED
      BY <1>8, <3>1
  <2> QED
    BY <2>1, <2>2, <2>3
<1> QED
  BY <1>6, <1>7, <1>8

LEMMA BiodoneWait ==
  ASSUME BufInv, BufInv', WaitInv, NEW b \in Buf, NEW ok \in BOOLEAN, biodone(b, ok)
  PROVE  WaitInv'
<1>0. /\ BufType /\ asleep \in [Proc -> Chans] /\ VBWAIT \in SUBSET Vnode /\ wanted \in BOOLEAN
      /\ (wanted => age = <<>> /\ lru = <<>>) /\ (\A q \in Proc : SleepFits(q) /\ Covered(q))
      /\ b_flags[b] \in SUBSET Flags /\ b_blk[b] # none /\ VnodeOf[b_blk[b]] \in Vnode
  <2>1. b \in io /\ BufFits(b)
    BY DEF biodone, BufInv
  <2>2. b_blk[b] \in Block /\ b_blk[b] # none
    BY <2>1 DEF BufInv, BufType, BufFits
  <2> QED
    BY <2>2, BufAssumption DEF BufInv, BufType, WaitInv
<1>1. PICK X : /\ asleep' = Woken(X) /\ none \notin X /\ b \in X
               /\ "ASYNC" \in b_flags[b] /\ wanted => "bfreelist" \in X
  <2> DEFINE write == "READ" \notin b_flags[b] /\ "DIRTY" \in b_flags[b]
             v == VnodeOf[b_blk[b]]
             fl == (b_flags[b] \cup (IF ok THEN {} ELSE {"ERROR"})) \ (IF write THEN {"DIRTY"} ELSE {})
             last == write /\ v \in VBWAIT /\ v_numoutput[v] <= 1
             X == {b} \cup (IF last THEN {v} ELSE {}) \cup (IF "ASYNC" \in fl THEN RelChans(b, fl) ELSE {})
  <2>1. asleep' = Woken(X)
    BY DEF biodone
  <2>2. none \notin X /\ b \in X /\ ("ASYNC" \in b_flags[b] /\ wanted => "bfreelist" \in X)
    BY <1>0, ChansAre DEF RelChans
  <2> HIDE DEF X
  <2> QED
    BY <2>1, <2>2
<1>2. asleep' \in [Proc -> Chans] /\ \A q \in Proc : asleep'[q] \in {asleep[q], none} /\ asleep'[q] \notin X
  BY <1>0, <1>1, WokenIs
<1>3. io' = io \ {b} /\ UNCHANGED <<pc, held>> /\ VBWAIT' \in SUBSET Vnode
  BY <1>0 DEF biodone
<1>4. /\ wanted' \in BOOLEAN /\ (wanted' => age' = <<>> /\ lru' = <<>>)
      /\ \A q \in Proc : asleep'[q] = "bfreelist" => wanted'
  <2>1. CASE "ASYNC" \in b_flags[b]
    <3>1. wanted' = FALSE
      BY <2>1 DEF biodone, Requeue
    <3>2. \A q \in Proc : asleep'[q] # "bfreelist"
      BY <1>0, <1>1, <1>2, <2>1, ChansAre DEF Covered
    <3> QED
      BY <3>1, <3>2
  <2>2. CASE "ASYNC" \notin b_flags[b]
    <3>1. wanted' = wanted /\ age' = age /\ lru' = lru
      BY <2>2 DEF biodone, lists
    <3>2. \A q \in Proc : asleep'[q] = "bfreelist" => asleep[q] = "bfreelist"
      BY <1>2, ChansAre
    <3> QED
      BY <1>0, <3>1, <3>2 DEF Covered
  <2> QED
    BY <2>1, <2>2
<1>5. \A c \in Buf \ {b} : b_flags'[c] = b_flags[c]
  <2>1. \E F : b_flags' = [b_flags EXCEPT ![b] = F]
    BY DEF biodone
  <2> QED
    BY <1>0, <2>1 DEF BufType
<1>6. /\ v_numoutput' \in [Vnode -> Nat] /\ OutputCounted'
      /\ \A v \in Vnode : v \in VBWAIT /\ v_numoutput[v] # 0 =>
           (v \in VBWAIT' /\ v_numoutput'[v] # 0) \/ \A q \in Proc : asleep'[q] # v
  BY BiodoneCounts
<1>7. ASSUME NEW q \in Proc PROVE SleepFits(q)' /\ Covered(q)'
  <2>1. CASE asleep'[q] = none
    BY <2>1, ChansAre DEF SleepFits, Covered
  <2>2. CASE asleep'[q] # none
    <3>1. asleep'[q] = asleep[q] /\ asleep[q] # b /\ pc'[q] = pc[q] /\ held'[q] = held[q]
      BY <1>1, <1>2, <1>3, <2>2
    <3>2. SleepFits(q)'
      BY <1>0, <3>1 DEF SleepFits
    <3>3. asleep[q] \in Buf => b_flags'[asleep[q]] = b_flags[asleep[q]] /\ (asleep[q] \in io => asleep[q] \in io')
      BY <1>3, <1>5, <3>1
    <3>4. asleep[q] \in Vnode => asleep[q] \in VBWAIT' /\ v_numoutput'[asleep[q]] # 0
      BY <1>0, <1>6, <3>1 DEF Covered
    <3>5. Covered(q)'
      BY <1>0, <1>4, <3>1, <3>3, <3>4 DEF Covered
    <3> QED
      BY <3>2, <3>5
  <2> QED
    BY <2>1, <2>2
<1> QED
  BY <1>2, <1>3, <1>4, <1>6, <1>7 DEF WaitInv

LEMMA WaitInvInit == Init => WaitInv
<1> SUFFICES ASSUME Init PROVE WaitInv
  OBVIOUS
<1>1. OutputCounted
  <2>1. \A v \in Vnode : {b \in io : Writing(b) /\ VnodeOf[b_blk[b]] = v} = {} /\ v_numoutput[v] = 0
    BY DEF Init
  <2> QED
    BY <2>1, FS_EmptySet DEF OutputCounted
<1>2. \A p \in Proc : asleep[p] = none
  BY DEF Init
<1>3. \A p \in Proc : SleepFits(p) /\ Covered(p)
  BY <1>2, AwakeFits
<1> QED
  BY <1>1, <1>3 DEF Init, WaitInv, Chans

LEMMA WaitInvNext ==
  ASSUME BufInv, BufInv', WaitInv, [Next]_vars
  PROVE  WaitInv'
<1>1. ASSUME NEW p \in Proc, NEW k \in Block, NEW use \in Uses \cap {"bread", "breada", "getblk"},
             getblk_start(p, k, use)
      PROVE  WaitInv'
  BY <1>1, GetblkWait DEF getblk_start, At
<1>2. ASSUME NEW p \in Proc, getblk_again(p) PROVE WaitInv'
  <2>1. req[p].blk \in Block /\ req[p].use \in {"bread", "breada", "getblk"} /\ pc[p] = "getblk" /\ asleep[p] = none
    BY <1>2 DEF getblk_again, At, BufInv, ReqFits
  <2> QED
    BY <1>2, <2>1, GetblkWait DEF getblk_again
<1>3. ASSUME NEW p \in Proc, Resume(p) PROVE WaitInv'
  BY <1>2, <1>3, AllocWait, BreadaWait, BiowaitWait, BreadDoneWait, BwriteDoneWait, FlushOneWait, ReturnWait,
     FlushWaitWait, FlushCheckWait, InvalBusyWait, InvalSaveWait, InvalDropWait DEF Resume
<1>4. ASSUME NEW p \in Proc, Release(p) PROVE WaitInv'
  BY <1>4, BrelseHeldWait, BwriteWait, BawriteWait, BdwriteWait DEF Release
<1>5. CASE UNCHANGED vars
  <2>1. UNCHANGED <<b_flags, b_blk, io, v_numoutput, VBWAIT, wanted, age, lru, asleep, pc, held>>
    BY <1>5 DEF vars, bufs, outs, lists
  <2> QED
    BY <2>1 DEF WaitInv, OutputCounted, Writing, SleepFits, Covered
<1> QED
  BY <1>1, <1>3, <1>4, <1>5, VflushbufWait, VinvalbufWait, BiodoneWait DEF Next

\* In other words, NotAllAsleep: who is asleep when no I/O is under way waits for a
\* buffer, or for a buffer that someone holds who waits for a buffer.
LEMMA WaitersHoard ==
  ASSUME BufInv, WaitInv, io = {}, \A p \in Proc : asleep[p] # none
  PROVE  Buf \subseteq Range(empty) \cup Hoarded
<1>0. /\ asleep \in [Proc -> Chans] /\ OutputCounted /\ (wanted => age = <<>> /\ lru = <<>>)
      /\ \A p \in Proc : SleepFits(p) /\ Covered(p) /\ ReqFits(p)
      /\ \A b \in Buf : BufFits(b)
  BY DEF BufInv, WaitInv
<1>1. ASSUME NEW v \in Vnode PROVE v_numoutput[v] = 0
  <2>1. {b \in io : Writing(b) /\ VnodeOf[b_blk[b]] = v} = {}
    OBVIOUS
  <2> QED
    BY <1>0, <2>1, FS_EmptySet DEF OutputCounted
<1>2. ASSUME NEW p \in Proc
      PROVE  \/ asleep[p] = "bfreelist" /\ wanted
             \/ held[p] = none /\ asleep[p] \in Buf /\ "BUSY" \in b_flags[asleep[p]]
  <2>1. asleep[p] \in Chans /\ asleep[p] # none /\ SleepFits(p) /\ Covered(p) /\ ReqFits(p)
    BY <1>0
  <2>2. asleep[p] \notin Vnode
    BY <1>1, <2>1 DEF Covered
  <2>3. CASE asleep[p] = "bfreelist"
    BY <2>1, <2>3 DEF Covered
  <2>4. CASE asleep[p] \in Buf
    <3>1. pc[p] \in {"getblk", "inval"}
      BY <2>1, <2>4 DEF SleepFits, Covered
    <3> QED
      BY <2>1, <2>4, <3>1 DEF Covered, ReqFits, Holding
  <2> QED
    BY <2>1, <2>2, <2>3, <2>4 DEF Chans
<1>3. ASSUME NEW b \in Buf, "BUSY" \in b_flags[b]
      PROVE  \E p \in Proc : held[p] = b /\ asleep[p] = "bfreelist" /\ wanted
  <2>1. PICK p \in Proc : held[p] = b
    BY <1>0, <1>3 DEF BufFits, Owned
  <2>2. held[p] # none
    BY <2>1, ChansAre
  <2> QED
    BY <1>2, <2>1, <2>2
<1>4. ASSUME NEW b \in Buf PROVE b \in Range(empty) \cup Hoarded
  <2>1. CASE "BUSY" \in b_flags[b]
    BY <1>3, <2>1 DEF Hoarded
  <2>2. CASE "BUSY" \notin b_flags[b]
    <3>1. PICK p \in Proc : TRUE
      BY BufAssumption
    <3>2. wanted
      BY <1>2, <1>3
    <3>3. Range(age) = {} /\ Range(lru) = {}
      <4>1. age = <<>> /\ lru = <<>> /\ age \in Seq(Buf) /\ lru \in Seq(Buf)
        BY <1>0, <3>2 DEF BufInv, ListsFit, OnceEach, Once
      <4> QED
        BY <4>1, NothingOnList
    <3> QED
      BY <1>0, <2>2, <3>3 DEF BufFits, OnLists
  <2> QED
    BY <2>1, <2>2
<1> QED
  BY <1>4

-----------------------------------------------------------------------------
(* Memory and contents.                                                    *)

\* What FoldFunction does, one value at a time: it goes through the indices in the order
\* of CHOOSE.
Total(f) == FoldFunction(+, 0, f)
First(s) == CHOOSE x \in s : TRUE
Sums(iter, f, T) ==
  iter = [s \in T |-> IF s = {} THEN 0 ELSE f[First(s)] + iter[s \ {First(s)}]]

LEMMA FirstIs == ASSUME NEW s, s # {} PROVE First(s) \in s
BY DEF First

\* Subsets of a set have as many elements, at most, and one less without one of them.
LEMMA Smaller ==
  ASSUME NEW S, IsFiniteSet(S), NEW s \in SUBSET S
  PROVE  /\ IsFiniteSet(s) /\ Cardinality(s) \in Nat /\ Cardinality(s) <= Cardinality(S)
         /\ Cardinality(S) \in Nat
         /\ (s = {} <=> Cardinality(s) = 0)
         /\ s # {} => /\ s \ {First(s)} \in SUBSET S
                      /\ Cardinality(s \ {First(s)}) = Cardinality(s) - 1
<1>1. IsFiniteSet(s) /\ Cardinality(s) <= Cardinality(S)
  BY FS_Subset
<1>2. Cardinality(s) \in Nat /\ Cardinality(S) \in Nat
  BY <1>1, FS_CardinalityType
<1>3. s = {} <=> Cardinality(s) = 0
  BY <1>1, FS_EmptySet
<1>4. s # {} => Cardinality(s \ {First(s)}) = Cardinality(s) - 1
  BY <1>1, FirstIs, FS_RemoveElement
<1> QED
  BY <1>1, <1>2, <1>3, <1>4

\* The recursive function exists.
LEMMA SumsExist ==
  ASSUME NEW S, IsFiniteSet(S), NEW f
  PROVE  \E iter : Sums(iter, f, SUBSET S)
<1> DEFINE T(n) == {s \in SUBSET S : Cardinality(s) <= n}
           N == Cardinality(S)
           Lacks == {n \in 0 .. N : ~\E g : Sums(g, f, T(n))}
<1>1. N \in Nat /\ T(N) = SUBSET S
  BY Smaller, FS_CardinalityType
<1>2. Lacks = {}
  <2> SUFFICES ASSUME Lacks # {} PROVE FALSE
    OBVIOUS
  <2>1. Lacks \in SUBSET Nat
    BY <1>1
  <2>2. PICK m \in Lacks : \A j \in Lacks : m <= j
    BY <2>1, Least
  <2>3. m \in 0 .. N /\ ~\E g : Sums(g, f, T(m))
    BY <2>2
  <2> HIDE DEF Lacks
  <2>4. CASE m = 0
    <3>1. ASSUME NEW s \in T(0) PROVE s = {}
      <4>1. s \in SUBSET S /\ Cardinality(s) <= 0
        OBVIOUS
      <4>2. Cardinality(s) \in Nat /\ (s = {} <=> Cardinality(s) = 0)
        BY <4>1, Smaller
      <4> QED
        BY <4>1, <4>2
    <3>2. Sums([s \in T(0) |-> 0], f, T(0))
      BY <3>1 DEF Sums
    <3> QED
      BY <2>3, <2>4, <3>2
  <2>5. CASE m # 0
    <3>1. m - 1 \in 0 .. N /\ m \in Nat /\ m - 1 \in Nat
      BY <1>1, <2>3, <2>5
    <3>2. m - 1 \notin Lacks
      <4>1. m - 1 \in Lacks => m <= m - 1
        BY <2>2
      <4>2. ~(m <= m - 1)
        BY <3>1
      <4> QED
        BY <4>1, <4>2
    <3>3. PICK g : Sums(g, f, T(m - 1))
      BY <3>1, <3>2 DEF Lacks
    <3> DEFINE h == [s \in T(m) |-> IF s = {} THEN 0 ELSE f[First(s)] + g[s \ {First(s)}]]
    <3>4. ASSUME NEW s \in T(m), s # {} PROVE h[s \ {First(s)}] = g[s \ {First(s)}]
      <4> DEFINE r == s \ {First(s)}
      <4>1. r \in T(m - 1) /\ r \in T(m)
        BY <1>1, <3>1, <3>4, Smaller
      <4>2. g[r] = IF r = {} THEN 0 ELSE f[First(r)] + g[r \ {First(r)}]
        BY <3>3, <4>1 DEF Sums
      <4> HIDE DEF r
      <4>3. h[r] = g[r]
        BY <4>1, <4>2
      <4> QED
        BY <4>3 DEF r
    <3>5. Sums(h, f, T(m))
      <4>1. h = [s \in T(m) |-> IF s = {} THEN 0 ELSE f[First(s)] + h[s \ {First(s)}]]
        BY <3>4
      <4> QED
        BY <4>1 DEF Sums
    <3> QED
      BY <2>3, <3>5
  <2> QED
    BY <2>4, <2>5
<1>3. \E g : Sums(g, f, T(N))
  BY <1>1, <1>2
<1> QED
  BY <1>1, <1>3

LEMMA TotalIs ==
  ASSUME NEW f \in [Buf -> Int]
  PROVE  \E iter : Sums(iter, f, SUBSET Buf) /\ Total(f) = iter[Buf]
<1>1. \E iter : Sums(iter, f, SUBSET Buf)
  BY BufAssumption, SumsExist
<1> DEFINE iter == CHOOSE i : Sums(i, f, SUBSET Buf)
<1>2. Sums(iter, f, SUBSET Buf)
  BY <1>1
<1>3. Total(f) = iter[Buf]
  BY DEF Total, FoldFunction, FoldFunctionOnSet, MapThenFoldSet, Sums, First
<1> HIDE DEF iter
<1> QED
  BY <1>2, <1>3

\* Another value for one buffer changes the total by as much.
LEMMA TotalStep ==
  ASSUME NEW f \in [Buf -> Int], NEW b \in Buf, NEW x \in Int
  PROVE  /\ Total(f) \in Int
         /\ Total([f EXCEPT ![b] = x]) = Total(f) - f[b] + x
<1> DEFINE g == [f EXCEPT ![b] = x]
           N == Cardinality(Buf)
<1>0. g \in [Buf -> Int] /\ g[b] = x /\ \A c \in Buf \ {b} : g[c] = f[c]
  OBVIOUS
<1> HIDE DEF g
<1>1. PICK i : Sums(i, f, SUBSET Buf) /\ Total(f) = i[Buf]
  BY TotalIs
<1>2. PICK j : Sums(j, g, SUBSET Buf) /\ Total(g) = j[Buf]
  BY <1>0, TotalIs
<1>3. /\ \A s \in SUBSET Buf : i[s] = IF s = {} THEN 0 ELSE f[First(s)] + i[s \ {First(s)}]
      /\ \A s \in SUBSET Buf : j[s] = IF s = {} THEN 0 ELSE g[First(s)] + j[s \ {First(s)}]
  BY <1>1, <1>2 DEF Sums
<1> DEFINE P(s) == /\ i[s] \in Int /\ j[s] \in Int
                   /\ j[s] = IF b \in s THEN i[s] - f[b] + x ELSE i[s]
           Lacks == {n \in 0 .. N : \E s \in SUBSET Buf : Cardinality(s) = n /\ ~P(s)}
<1>4. N \in Nat
  BY BufAssumption, FS_CardinalityType
<1>5. Lacks = {}
  <2> SUFFICES ASSUME Lacks # {} PROVE FALSE
    OBVIOUS
  <2>1. Lacks \in SUBSET Nat
    BY <1>4
  <2>2. PICK m \in Lacks : \A n \in Lacks : m <= n
    BY <2>1, Least
  <2>3. PICK s \in SUBSET Buf : Cardinality(s) = m /\ ~P(s)
    BY <2>2
  <2>4. m \in 0 .. N /\ m \in Nat
    BY <1>4
  <2>5. CASE s = {}
    <3>1. i[s] = 0 /\ j[s] = 0 /\ b \notin s
      BY <1>3, <2>5
    <3>2. P(s)
      BY <3>1
    <3> QED
      BY <2>3, <3>2
  <2>6. CASE s # {}
    <3> DEFINE c == First(s)
               r == s \ {c}
    <3>1. c \in s /\ c \in Buf
      BY <2>6, FirstIs
    <3>2. r \in SUBSET Buf /\ Cardinality(r) = m - 1 /\ m - 1 \in Nat
      <4>1. Cardinality(s) # 0 /\ r \in SUBSET Buf /\ Cardinality(r) = Cardinality(s) - 1
        BY <2>6, Smaller, BufAssumption
      <4> QED
        BY <2>3, <2>4, <4>1
    <3>3. m - 1 \notin Lacks
      <4>1. m - 1 \in Lacks => m <= m - 1
        BY <2>2
      <4>2. ~(m <= m - 1)
        BY <2>4
      <4> QED
        BY <4>1, <4>2
    <3>4. m - 1 \in 0 .. N
      BY <1>4, <2>4, <3>2
    <3>5. P(r)
      BY <3>2, <3>3, <3>4
    <3>6. i[s] = f[c] + i[r] /\ j[s] = g[c] + j[r]
      BY <1>3, <2>6
    <3>7. f[c] \in Int /\ f[b] \in Int
      BY <3>1
    <3>8. CASE c = b
      <4>1. b \in s /\ b \notin r /\ g[c] = x
        BY <1>0, <3>1, <3>8
      <4> QED
        BY <2>3, <3>5, <3>6, <3>7, <3>8, <4>1
    <3>9. CASE c # b
      <4>1. (b \in s <=> b \in r) /\ g[c] = f[c]
        BY <1>0, <3>1, <3>9
      <4> HIDE DEF c, r
      <4> QED
        BY <2>3, <3>5, <3>6, <3>7, <4>1
    <3> QED
      BY <3>8, <3>9
  <2> QED
    BY <2>5, <2>6
<1>6. P(Buf)
  BY <1>4, <1>5
<1> QED
  BY <1>1, <1>2, <1>6 DEF g

\* Nothing is in use at first.
LEMMA TotalZero == Total([b \in Buf |-> 0]) = 0
<1> DEFINE f == [b \in Buf |-> 0]
           N == Cardinality(Buf)
<1>0. f \in [Buf -> Int] /\ \A b \in Buf : f[b] = 0
  OBVIOUS
<1> HIDE DEF f
<1>1. PICK i : Sums(i, f, SUBSET Buf) /\ Total(f) = i[Buf]
  BY <1>0, TotalIs
<1>2. \A s \in SUBSET Buf : i[s] = IF s = {} THEN 0 ELSE f[First(s)] + i[s \ {First(s)}]
  BY <1>1 DEF Sums
<1> DEFINE Lacks == {n \in 0 .. N : \E s \in SUBSET Buf : Cardinality(s) = n /\ i[s] # 0}
<1>3. N \in Nat
  BY BufAssumption, FS_CardinalityType
<1>4. Lacks = {}
  <2> SUFFICES ASSUME Lacks # {} PROVE FALSE
    OBVIOUS
  <2>1. Lacks \in SUBSET Nat
    BY <1>3
  <2>2. PICK m \in Lacks : \A n \in Lacks : m <= n
    BY <2>1, Least
  <2>3. PICK s \in SUBSET Buf : Cardinality(s) = m /\ i[s] # 0
    BY <2>2
  <2>4. m \in 0 .. N /\ m \in Nat
    BY <1>3
  <2> DEFINE r == s \ {First(s)}
  <2>5. s # {}
    BY <1>2, <2>3
  <2>6. r \in SUBSET Buf /\ Cardinality(r) = m - 1 /\ m - 1 \in Nat
    <3>1. Cardinality(s) # 0 /\ r \in SUBSET Buf /\ Cardinality(r) = Cardinality(s) - 1
      BY <2>5, Smaller, BufAssumption
    <3> QED
      BY <2>3, <2>4, <3>1
  <2>7. m - 1 \notin Lacks
    <3>1. m - 1 \in Lacks => m <= m - 1
      BY <2>2
    <3>2. ~(m <= m - 1)
      BY <2>4
    <3> QED
      BY <3>1, <3>2
  <2>8. m - 1 \in 0 .. N
    BY <1>3, <2>4, <2>6
  <2>9. i[r] = 0
    BY <2>6, <2>7, <2>8
  <2>10. i[s] = f[First(s)] + i[r] /\ f[First(s)] = 0
    BY <1>0, <1>2, <2>5, FirstIs
  <2> QED
    BY <2>3, <2>9, <2>10
<1>5. i[Buf] = 0
  BY <1>3, <1>4
<1> QED
  BY <1>1, <1>5 DEF f

SpaceInv ==
  /\ b_bufsize \in [Buf -> Nat] /\ freebufspace \in Int
  /\ freebufspace + Total(b_bufsize) = BufSpace

LEMMA ResizeStep ==
  ASSUME SpaceInv, NEW b \in Buf, NEW k \in Block, Resize(b, k)
  PROVE  SpaceInv'
<1> DEFINE x == SizeOf[k]
<1>1. /\ x \in Nat /\ BufSpace \in Nat /\ b_bufsize \in [Buf -> Nat] /\ freebufspace \in Int
      /\ b_bufsize' = [b_bufsize EXCEPT ![b] = x] /\ freebufspace' = freebufspace - (x - b_bufsize[b])
      /\ freebufspace + Total(b_bufsize) = BufSpace
  BY BufAssumption DEF SpaceInv, Resize
<1> HIDE DEF x
<1>2. b_bufsize \in [Buf -> Int] /\ x \in Int /\ b_bufsize[b] \in Int
  BY <1>1
<1>3. Total(b_bufsize) \in Int /\ Total([b_bufsize EXCEPT ![b] = x]) = Total(b_bufsize) - b_bufsize[b] + x
  BY <1>2, TotalStep
<1>4. Total(b_bufsize') = Total(b_bufsize) - b_bufsize[b] + x
  BY <1>1, <1>3
<1>5. b_bufsize' \in [Buf -> Nat] /\ freebufspace' \in Int
  BY <1>1, <1>2
<1>6. freebufspace' + Total(b_bufsize') = BufSpace
  BY <1>1, <1>2, <1>3, <1>4
<1> QED
  BY <1>5, <1>6 DEF SpaceInv

LEMMA SpaceInvInit == Init => SpaceInv
<1> SUFFICES ASSUME Init PROVE SpaceInv
  OBVIOUS
<1>1. b_bufsize = [b \in Buf |-> 0] /\ freebufspace = BufSpace /\ BufSpace \in Nat
  BY BufAssumption DEF Init
<1>2. Total(b_bufsize) = 0
  BY <1>1, TotalZero
<1> QED
  BY <1>1, <1>2 DEF SpaceInv

\* Only getblk() and breada() change the size of a buffer.
SameSpace == UNCHANGED <<b_bufsize, freebufspace>>
LEMMA GetnewbufSpace ==
  ASSUME NEW p, NEW k \in Block, NEW use, getnewbuf(p, k, use)
  PROVE  SameSpace \/ \E b \in Buf : Resize(b, k)
BY DEF getnewbuf, Assign, SameSpace

LEMMA GetblkSpace ==
  ASSUME NEW p, NEW k \in Block, NEW use, getblk(p, k, use)
  PROVE  SameSpace \/ \E b \in Buf : Resize(b, k)
<1>1. CASE hit_free(p, k, use)
  BY <1>1 DEF hit_free, incore
<1>2. CASE hit_busy(p, k)
  BY <1>2 DEF hit_busy, SameSpace
<1>3. CASE nobuf(p, "getblk", SizeOf[k])
  BY <1>3 DEF nobuf, SameSpace
<1> QED
  BY <1>1, <1>2, <1>3, GetnewbufSpace DEF getblk

LEMMA BreadaSpace ==
  ASSUME BufInv, NEW p \in Proc, NEW k \in Block, breada(p, k)
  PROVE  SameSpace \/ \E b \in Buf, l \in Block : Resize(b, l)
<1>0. req[p].blk \in Block
  BY DEF BufInv, ReqFits, Holding, breada, At
<1>1. CASE ra_miss(p, k)
  BY <1>0, <1>1 DEF ra_miss
<1>2. CASE ra_hit(p, k)
  BY <1>2 DEF ra_hit, SameSpace
<1>3. CASE nobuf(p, pc[p], SizeOf[req[p].blk])
  BY <1>3 DEF nobuf, SameSpace
<1> QED
  BY <1>1, <1>2, <1>3 DEF breada

LEMMA SpaceNext ==
  ASSUME BufInv, [Next]_vars
  PROVE  SameSpace \/ \E b \in Buf, k \in Block : Resize(b, k)
<1>1. ASSUME NEW p \in Proc, NEW k \in Block, NEW use, getblk_start(p, k, use)
      PROVE  SameSpace \/ \E b \in Buf, l \in Block : Resize(b, l)
  BY <1>1, GetblkSpace DEF getblk_start
<1>2. ASSUME NEW p \in Proc, getblk_again(p)
      PROVE  SameSpace \/ \E b \in Buf, l \in Block : Resize(b, l)
  <2>1. req[p].blk \in Block
    BY <1>2 DEF getblk_again, At, BufInv, ReqFits
  <2> QED
    BY <1>2, <2>1, GetblkSpace DEF getblk_again
<1>3. ASSUME NEW p \in Proc, getblk_alloc(p)
      PROVE  SameSpace \/ \E b \in Buf, l \in Block : Resize(b, l)
  <2>1. req[p].blk \in Block /\ held[p] \in Buf
    BY <1>3 DEF getblk_alloc, At, BufInv, BufType, ReqFits, Holding
  <2> QED
    BY <1>3, <2>1 DEF getblk_alloc, Assign
<1>4. ASSUME NEW p \in Proc, Resume(p)
      PROVE  SameSpace \/ \E b \in Buf, l \in Block : Resize(b, l)
  <2>1. CASE \/ biowait_sleep(p) \/ bread_done(p) \/ flush_one(p) \/ flush_return(p) \/ flush_wait(p)
             \/ flush_check(p) \/ inval_busy(p) \/ inval_save(p) \/ inval_drop(p) \/ inval_return(p)
    BY <2>1 DEF biowait_sleep, bread_done, flush_one, flush_return, flush_wait, flush_check, inval_busy,
       inval_save, inval_drop, inval_return, bufs, SameSpace
  <2>2. CASE bwrite_done(p)
    BY <2>2 DEF bwrite_done, brelse, Requeue, SameSpace
  <2> QED
    BY <1>2, <1>3, <1>4, <2>1, <2>2, BreadaSpace DEF Resume
<1>5. ASSUME NEW p \in Proc, Release(p) PROVE SameSpace
  BY <1>5 DEF Release, brelse_held, brelse, Requeue, bwrite, bawrite, bdwrite, SameSpace
<1>6. ASSUME NEW b \in Buf, NEW ok \in BOOLEAN, biodone(b, ok) PROVE SameSpace
  <2> HIDE DEF SameSpace
  <2>1. \/ \E fl : Requeue(b, fl)
        \/ UNCHANGED <<b_bufsize, freebufspace>>
    BY <1>6 DEF biodone
  <2> QED
    BY <2>1 DEF Requeue, SameSpace
<1>7. ASSUME NEW p \in Proc, NEW v \in Vnode, NEW use, vflushbuf(p, v, use) \/ vinvalbuf(p, v, use)
      PROVE  SameSpace
  BY <1>7 DEF vflushbuf, vinvalbuf, bufs, SameSpace
<1>8. CASE UNCHANGED vars
  BY <1>8 DEF vars, bufs, SameSpace
<1> QED
  BY <1>1, <1>4, <1>5, <1>6, <1>7, <1>8 DEF Next

LEMMA SpaceInvNext ==
  ASSUME BufInv, SpaceInv, [Next]_vars
  PROVE  SpaceInv'
<1>1. CASE SameSpace
  BY <1>1 DEF SameSpace, SpaceInv
<1> QED
  BY <1>1, SpaceNext, ResizeStep

\* The versions keep their bounds.
ValType ==
  /\ b_data \in [Buf -> Ver] /\ disk \in [Block -> Ver] /\ latest \in [Block -> Ver]
  /\ due \in [Proc -> [Block -> Ver]]

LEMMA BackToDiskType ==
  ASSUME ValType, NEW k \in Block, BackToDisk(k)
  PROVE  latest' \in [Block -> Ver] /\ due' \in [Proc -> [Block -> Ver]]
<1>1. disk[k] \in Ver /\ latest' = [latest EXCEPT ![k] = disk[k]]
  BY DEF ValType, BackToDisk
<1>2. latest' \in [Block -> Ver]
  BY <1>1 DEF ValType
<1> DEFINE D(p) == [due[p] EXCEPT ![k] = IF @ > disk[k] THEN disk[k] ELSE @]
<1>3. ASSUME NEW p \in Proc PROVE D(p) \in [Block -> Ver]
  BY <1>1 DEF ValType
<1>4. due' = [p \in Proc |-> D(p)]
  BY DEF BackToDisk
<1> HIDE DEF D
<1>5. due' \in [Proc -> [Block -> Ver]]
  BY <1>3, <1>4
<1> QED
  BY <1>2, <1>5

LEMMA ForgetType ==
  ASSUME BufInv, ValType, NEW b \in Buf, NEW fl, b_blk[b] # none, Forget(b, fl), UNCHANGED <<b_data, disk>>
  PROVE  ValType'
<1>1. b_blk[b] \in Block
  BY DEF BufInv, BufType
<1>2. CASE BackToDisk(b_blk[b])
  BY <1>1, <1>2, BackToDiskType DEF ValType
<1>3. CASE UNCHANGED <<latest, due>>
  BY <1>3 DEF ValType
<1> QED
  BY <1>2, <1>3 DEF Forget

LEMMA HeldHas ==
  ASSUME BufInv, NEW p \in Proc, pc[p] \in {"biowait", "held"}
  PROVE  held[p] \in Buf /\ req[p].blk \in Block /\ b_blk[held[p]] = req[p].blk /\ b_blk[held[p]] # none
<1>1. req[p].blk \in Block /\ held[p] # none /\ held[p] \in Buf \cup {none}
  BY DEF BufInv, BufType, ReqFits, Holding
<1>2. b_blk[held[p]] = req[p].blk
  BY <1>1 DEF BufInv, HeldFits
<1> QED
  BY <1>1, <1>2, BufAssumption

LEMMA ModifyType ==
  ASSUME BufInv, ValType, NEW p \in Proc, MayWrite(p), Modify(p), UNCHANGED <<disk, due>>
  PROVE  ValType'
<1>1. held[p] \in Buf /\ req[p].blk \in Block
  BY HeldHas DEF MayWrite, At
<1> DEFINE k == req[p].blk
<1>2. latest[k] \in Ver /\ latest[k] < MaxVer /\ MaxVer \in Nat
  BY <1>1, BufAssumption DEF ValType, MayWrite
<1>3. latest[k] + 1 \in Ver
  BY <1>2 DEF Ver
<1>4. /\ latest' = [latest EXCEPT ![k] = latest[k] + 1]
      /\ b_data' = [b_data EXCEPT ![held[p]] = latest[k] + 1]
  BY DEF Modify
<1> HIDE DEF k
<1> QED
  BY <1>1, <1>3, <1>4 DEF ValType

LEMMA BiodoneType ==
  ASSUME BufInv, ValType, NEW b \in Buf, NEW ok \in BOOLEAN, biodone(b, ok)
  PROVE  ValType'
<1>1. b_blk[b] \in Block
  BY IoFlagsAre DEF biodone
<1> DEFINE k == b_blk[b]
<1>2. /\ disk' = [disk EXCEPT ![k] = b_data[b]] \/ disk' = disk
      /\ b_data' = [b_data EXCEPT ![b] = disk[k]] \/ b_data' = b_data
      /\ UNCHANGED <<latest, due>> \/ BackToDisk(k)
  BY DEF biodone
<1> HIDE DEF k
<1>3. k \in Block
  BY <1>1 DEF k
<1>4. disk' \in [Block -> Ver] /\ b_data' \in [Buf -> Ver]
  BY <1>2, <1>3 DEF ValType
<1>5. latest' \in [Block -> Ver] /\ due' \in [Proc -> [Block -> Ver]]
  BY <1>2, <1>3, BackToDiskType DEF ValType
<1> QED
  BY <1>4, <1>5 DEF ValType

LEMMA DueType ==
  ASSUME ValType, NEW p \in Proc, NEW d \in [Block -> Ver], due' = [due EXCEPT ![p] = d],
         UNCHANGED <<b_data, disk, latest>>
  PROVE  ValType'
BY DEF ValType

LEMMA ValTypeInit == Init => ValType
<1>1. 0 \in Ver
  BY BufAssumption DEF Ver
<1> QED
  BY <1>1 DEF Init, ValType

\* The steps that write, release a buffer, or begin or end a flush.
LEMMA ValTypeStep ==
  ASSUME BufInv, ValType, NEW p \in Proc, Resume(p) \/ Release(p)
  PROVE  ValType'
<1>0. 0 \in Ver
  BY BufAssumption DEF Ver
<1>1. CASE bwrite_done(p)
  BY <1>1, HeldHas, ForgetType DEF bwrite_done, brelse, At
<1>2. CASE \E inval \in BOOLEAN : brelse_held(p, inval)
  BY <1>2, HeldHas, ForgetType DEF brelse_held, brelse, At
<1>3. CASE bwrite(p) \/ bawrite(p) \/ bdwrite(p)
  BY <1>3, ModifyType DEF bwrite, bawrite, bdwrite
<1>4. CASE inval_drop(p)
  <2>1. PICK b \in Idle(Turn(p)) : Forget(b, {"INVAL"}) /\ UNCHANGED <<b_data, disk>>
    BY <1>4 DEF inval_drop
  <2>2. pc[p] = "inval" /\ b \in Turn(p)
    BY <1>4, <2>1 DEF inval_drop, At, Idle
  <2>3. b \in Buf /\ b_blk[b] # none
    BY <2>2, TurnIs
  <2> QED
    BY <2>1, <2>3, ForgetType
<1>5. CASE flush_return(p) \/ flush_check(p)
  <2> DEFINE d == [k \in Block |-> 0]
  <2>1. d \in [Block -> Ver]
    BY <1>0
  <2>2. UNCHANGED <<b_data, disk, latest>> /\ (due' = [due EXCEPT ![p] = d] \/ due' = due)
    BY <1>5 DEF flush_return, flush_check, Return, bufs
  <2> HIDE DEF d
  <2>3. CASE due' = due
    BY <2>2, <2>3 DEF ValType
  <2> QED
    BY <2>1, <2>2, <2>3, DueType
<1>6. CASE \/ getblk_again(p) \/ getblk_alloc(p) \/ (\E k \in Block : breada(p, k))
           \/ biowait_sleep(p) \/ bread_done(p) \/ flush_one(p) \/ flush_wait(p)
           \/ inval_busy(p) \/ inval_save(p) \/ inval_return(p)
  <2>1. UNCHANGED <<b_data, vals>>
    BY <1>6 DEF getblk_again, getblk, getblk_alloc, breada, biowait_sleep, bread_done, flush_one, flush_wait,
       inval_busy, inval_save, inval_return, bufs
  <2> QED
    BY <2>1 DEF ValType, vals
<1> QED
  BY <1>1, <1>2, <1>3, <1>4, <1>5, <1>6 DEF Resume, Release

LEMMA ValTypeNext ==
  ASSUME BufInv, ValType, [Next]_vars
  PROVE  ValType'
<1>1. ASSUME NEW p \in Proc, NEW k \in Block, NEW use, getblk_start(p, k, use) PROVE ValType'
  BY <1>1 DEF getblk_start, getblk, ValType, vals
<1>2. ASSUME NEW p \in Proc, NEW v \in Vnode, NEW use, vflushbuf(p, v, use) PROVE ValType'
  <2> DEFINE d == [k \in Block |-> IF VnodeOf[k] = v /\ use = "sync" THEN latest[k] ELSE 0]
  <2>1. d \in [Block -> Ver]
    BY BufAssumption DEF ValType, Ver
  <2>2. due' = [due EXCEPT ![p] = d] /\ UNCHANGED <<b_data, disk, latest>>
    BY <1>2 DEF vflushbuf, bufs
  <2> HIDE DEF d
  <2> QED
    BY <2>1, <2>2, DueType
<1>3. ASSUME NEW p \in Proc, NEW v \in Vnode, NEW use, vinvalbuf(p, v, use) PROVE ValType'
  BY <1>3 DEF vinvalbuf, ValType, vals, bufs
<1>4. CASE UNCHANGED vars
  BY <1>4 DEF vars, bufs, vals, ValType
<1> QED
  BY <1>1, <1>2, <1>3, <1>4, ValTypeStep, BiodoneType DEF Next

\* A buffer is once on the lists, or not at all.
LEMMA ListedOnce ==
  ASSUME BufInv, NEW b \in Buf
  PROVE  Cardinality({i \in DOMAIN (empty \o Queue) : (empty \o Queue)[i] = b})
           = IF "BUSY" \in b_flags[b] THEN 0 ELSE 1
<1> DEFINE l == empty \o Queue
           T == {i \in DOMAIN l : l[i] = b}
<1>1. Once(l) /\ Range(l) = OnLists
  <2>1. /\ Once(empty) /\ Once(Queue) /\ Range(Queue) = Range(age) \cup Range(lru)
        /\ Range(empty) \cap Range(Queue) = {}
    BY QueueIs DEF BufInv, ListsFit, OnceEach
  <2> QED
    BY <2>1, ConcatIs DEF OnLists
<1> HIDE DEF l
<1>2. /\ DOMAIN l = 1 .. Len(l) /\ \A i, j \in 1 .. Len(l) : l[i] = l[j] => i = j
      /\ (b \in Range(l) <=> \E i \in 1 .. Len(l) : l[i] = b)
  BY <1>1, RangeIs DEF Once
<1>3. b \in Range(l) <=> "BUSY" \notin b_flags[b]
  BY <1>1 DEF BufInv, BufFits
<1>4. CASE b \in Range(l)
  <2>1. PICK i \in 1 .. Len(l) : l[i] = b
    BY <1>2, <1>4
  <2>2. T = {i}
    BY <1>2, <2>1
  <2>3. Cardinality({i}) = 1
    BY FS_Singleton
  <2> QED
    BY <1>3, <1>4, <2>2, <2>3 DEF l
<1>5. CASE b \notin Range(l)
  <2>1. T = {}
    BY <1>2, <1>5
  <2> QED
    BY <1>3, <1>5, <2>1, FS_EmptySet DEF l
<1> QED
  BY <1>4, <1>5

LEMMA OwnedOnce ==
  ASSUME BufInv, NEW b \in Buf
  PROVE  Cardinality(Owners(b)) = IF "BUSY" \in b_flags[b] /\ "ASYNC" \notin b_flags[b] THEN 1 ELSE 0
<1>1. Owned(b) <=> "BUSY" \in b_flags[b] /\ "ASYNC" \notin b_flags[b]
  BY DEF BufInv, BufFits
<1>2. CASE Owned(b)
  <2>1. PICK p \in Proc : held[p] = b
    BY <1>2 DEF Owned
  <2>2. b # none
    BY ChansAre
  <2>3. Owners(b) = {p}
    BY <2>1, <2>2 DEF Owners, BufInv, OneOwner
  <2>4. Cardinality({p}) = 1
    BY FS_Singleton
  <2> QED
    BY <1>1, <1>2, <2>3, <2>4
<1>3. CASE ~Owned(b)
  <2>1. Owners(b) = {}
    BY <1>3 DEF Owned, Owners
  <2> QED
    BY <1>1, <1>3, <2>1, FS_EmptySet
<1> QED
  BY <1>2, <1>3

\* There are no more writes under way than buffers.
LEMMA OutputBound ==
  ASSUME BufInv, WaitInv, NEW v \in Vnode
  PROVE  v_numoutput[v] \in 0 .. Cardinality(Buf)
<1> DEFINE S == {b \in io : Writing(b) /\ VnodeOf[b_blk[b]] = v}
<1>1. S \in SUBSET Buf /\ v_numoutput[v] = Cardinality(S) /\ v_numoutput[v] \in Nat
  BY DEF BufInv, BufType, WaitInv, OutputCounted
<1> HIDE DEF S
<1>2. IsFiniteSet(Buf)
  BY BufAssumption
<1>3. Cardinality(S) <= Cardinality(Buf)
  BY <1>1, <1>2, FS_Subset
<1>4. Cardinality(Buf) \in Nat
  BY <1>2, FS_CardinalityType
<1> QED
  BY <1>1, <1>3, <1>4

LEMMA AllTyped == ASSUME BufInv, WaitInv, SpaceInv, ValType PROVE TypeOK
<1>1. BufType /\ empty \in Seq(Buf) /\ age \in Seq(Buf) /\ lru \in Seq(Buf)
  BY DEF BufInv, ListsFit, OnceEach, Once
<1>2. v_numoutput \in [Vnode -> 0 .. Cardinality(Buf)]
  BY OutputBound DEF WaitInv
<1>3. asleep \in [Proc -> Buf \cup Vnode \cup {"bfreelist", none}] /\ wanted \in BOOLEAN /\ VBWAIT \subseteq Vnode
  BY DEF WaitInv, Chans
<1>4. b_bufsize \in [Buf -> Nat] /\ freebufspace \in Int
  BY DEF SpaceInv
<1>5. \A l \in {empty, age, lru} : l \in Seq(Buf)
  BY <1>1
<1> QED
  BY <1>1, <1>2, <1>3, <1>4, <1>5 DEF BufType, ValType, TypeOK

LEMMA AllAccounted == ASSUME BufInv, WaitInv, SpaceInv, ValType PROVE Accounted
<1>1. TypeOK /\ OutputCounted
  BY AllTyped DEF WaitInv
<1>2. freebufspace + FoldFunction(+, 0, b_bufsize) = BufSpace
  BY DEF SpaceInv, Total
<1>3. ASSUME NEW b \in Buf
      PROVE  /\ "ASYNC" \in b_flags[b] => b \in io
             /\ b_list[b] = (IF b_blk[b] = none THEN "none" ELSE IF Delayed(b) THEN "dirty" ELSE "clean")
  BY DEF BufInv, BufFits
<1> QED
  BY <1>1, <1>2, <1>3, ListedOnce, OwnedOnce DEF Accounted

\* The whole invariant.
Inv == BufInv /\ WaitInv /\ SpaceInv /\ ValType
LEMMA InvInvariant == Spec => []Inv
<1>1. Init => Inv
  BY BufInvInit, WaitInvInit, SpaceInvInit, ValTypeInit DEF Inv
<1>2. Inv /\ [Next]_vars => Inv'
  BY BufInvNext, WaitInvNext, SpaceInvNext, ValTypeNext DEF Inv
<1> QED
  BY <1>1, <1>2, PTL DEF Spec

\* Accounted: whatever read, write, allocation or loop of vflushbuf() or vinvalbuf() was
\* cut short by a sleep or an interrupt, a buffer is on one free list, once, or has one
\* owner, a process or the I/O that will release it; v_numoutput is the number of writes
\* under way; what is not given to a buffer is in freebufspace; and the dirty list has
\* the delayed writes.
THEOREM NoBufferIsLost == Spec => []Accounted
<1>1. Inv => Accounted
  BY AllAccounted DEF Inv
<1> QED
  BY <1>1, InvInvariant, PTL

\* SleepersCovered: no wakeup is lost.  Whoever sleeps in getblk() or vinvalbuf() for a
\* busy block has left B_WANTED on it; in getnewbuf(), on the free list; in biowait(), the
\* I/O is under way; in vflushbuf(), a write is, and VBWAIT is set.  A process that
\* releases the buffer, or biodone(), looks at the mark before it goes away.
THEOREM SleepersAreCovered == Spec => []SleepersCovered
<1>1. Inv => SleepersCovered
  BY DEF Inv, WaitInv, Covered, SleepersCovered
<1> QED
  BY <1>1, InvInvariant, PTL

\* NotAllAsleep: some process runs or some I/O is under way, unless every buffer is without
\* memory, malloc() having failed, or held by a breada() that waits for a second one; or
\* vflushbuf() goes round for ever, or vinvalbuf() panics.
THEOREM SomeoneRuns == Spec => []NotAllAsleep
<1>1. Inv => NotAllAsleep
  <2> SUFFICES ASSUME BufInv, WaitInv, io = {}, \A p \in Proc : asleep[p] # none PROVE NotAllAsleep
    BY DEF Inv, NotAllAsleep
  <2> QED
    BY WaitersHoard DEF NotAllAsleep
<1> QED
  BY <1>1, InvInvariant, PTL

-----------------------------------------------------------------------------
(* Contents.                                                               *)

\* Blocks of one size.  Then allocbuf() is not needed and getblk() does not sleep between
\* the lookup and the assignment.
OneSize == \A j, k \in Block : SizeOf[j] = SizeOf[k]
NeverSleepsInAlloc ==
  /\ \A b \in Buf : b_bufsize[b] = 0 \/ \E k \in Block : b_bufsize[b] = SizeOf[k]
  /\ \A p \in Proc : pc[p] # "alloc"

\* A block is in one valid buffer; live is what still has to reach the disk, and it is good.
Valid(b) == "INVAL" \notin b_flags[b]
Live(b) == Valid(b) /\ (Delayed(b) \/ Writing(b))
Good(b) == Delayed(b) => ~Bad(b_flags[b])
OneBuffer == \A b, c \in Buf : b_blk[b] = b_blk[c] /\ b_blk[b] # none /\ Valid(b) /\ Valid(c) => b = c
Backed(k) == latest[k] = disk[k] \/ \E b \in Buf : b_blk[b] = k /\ b_data[b] = latest[k] /\ Live(b)
DataInv ==
  /\ OneBuffer /\ Coherent
  /\ \A k \in Block : Backed(k)
  /\ \A b \in Buf : Good(b)

\* What a synchronous flush has to write has not been overtaken by what was lost, and is
\* of its vnode.
DueFits == \A p \in Proc, k \in Block :
  /\ due[p][k] <= latest[k]
  /\ pc[p] \in {"flush", "flushw"} /\ req[p].use = "sync" /\ VnodeOf[k] # req[p].blk => due[p][k] = 0

LEMMA DataInvInit == Init => DataInv /\ DueFits /\ NeverSleepsInAlloc
<1> SUFFICES ASSUME Init PROVE DataInv /\ DueFits /\ NeverSleepsInAlloc
  OBVIOUS
<1>1. /\ \A b \in Buf : b_blk[b] = none /\ b_flags[b] = {"INVAL"} /\ b_bufsize[b] = 0
      /\ \A k \in Block : latest[k] = 0 /\ disk[k] = 0
      /\ \A p \in Proc : pc[p] = "idle" /\ \A k \in Block : due[p][k] = 0
  BY DEF Init
<1>2. DataInv
  BY <1>1 DEF DataInv, OneBuffer, Coherent, Backed, Good, Delayed
<1>3. DueFits
  BY <1>1 DEF DueFits
<1> QED
  BY <1>1, <1>2, <1>3 DEF NeverSleepsInAlloc

\* What the invariant needs of a buffer that a step is not about, and of one that the
\* step gives another block, or none.
Keeps(c) ==
  /\ b_blk'[c] = b_blk[c] /\ (Valid(c)' => Valid(c)) /\ (Filled(c)' => Filled(c))
  /\ (Live(c) => Live(c)') /\ Good(c)'
Turned(c) ==
  /\ b_blk'[c] = none \/ (b_blk'[c] \in Block /\ incore(b_blk'[c]) = {} /\ ~Filled(c)')
  /\ ~Live(c) /\ Good(c)'

\* What a step may do that changes versions: those of buffer b and of its block.
Changes(b, k) ==
  /\ b \in Buf /\ k \in Block /\ b_blk[b] = k
  /\ \A c \in Buf \ {b} : Keeps(c) /\ b_data'[c] = b_data[c]
  /\ \A l \in Block \ {k} : latest'[l] = latest[l] /\ disk'[l] = disk[l]
  /\ Valid(b) /\ Good(b)'
  /\ b_blk'[b] \in {k, none}
  /\ b_blk'[b] = k /\ Filled(b)' => b_data'[b] = latest'[k]
  /\ \/ latest'[k] = disk'[k]
     \/ b_blk'[b] = k /\ b_data'[b] = latest'[k] /\ Live(b)'

LEMMA CalmData ==
  ASSUME BufType, DataInv, UNCHANGED <<b_data, disk, latest>>,
         NEW b \in Buf, \A c \in Buf \ {b} : Keeps(c), Keeps(b) \/ Turned(b)
  PROVE  DataInv'
<1>0. OneBuffer /\ Coherent /\ (\A k \in Block : Backed(k)) /\ b_blk \in [Buf -> Block \cup {none}]
  BY DEF DataInv, BufType
<1>1. OneBuffer'
  <2>1. ASSUME NEW c \in Buf, NEW d \in Buf, b_blk'[c] = b_blk'[d], b_blk'[c] # none, Valid(c)', Valid(d)', c # b
        PROVE  c = d
    <3>1. Keeps(c) /\ b_blk'[c] = b_blk[c] /\ Valid(c)
      BY <2>1 DEF Keeps
    <3>2. CASE Keeps(d)
      BY <1>0, <2>1, <3>1, <3>2 DEF OneBuffer, Keeps
    <3>3. CASE Turned(d)
      <4>1. incore(b_blk'[d]) = {}
        BY <2>1, <3>3 DEF Turned
      <4>2. c \in incore(b_blk'[d])
        BY <2>1, <3>1 DEF incore, Valid
      <4> QED
        BY <4>1, <4>2
    <3> QED
      BY <3>2, <3>3
  <2> QED
    BY <2>1 DEF OneBuffer
<1>2. Coherent'
  <2>1. ASSUME NEW c \in Buf, b_blk'[c] # none, Filled(c)' PROVE b_data'[c] = latest'[b_blk'[c]]
    <3>1. Keeps(c)
      BY <2>1 DEF Turned
    <3>2. b_data[c] = latest[b_blk[c]] /\ b_blk'[c] = b_blk[c]
      BY <1>0, <2>1, <3>1 DEF Keeps, Coherent
    <3> QED
      BY <3>2
  <2> QED
    BY <2>1 DEF Coherent
<1>3. ASSUME NEW k \in Block PROVE Backed(k)'
  <2>1. CASE latest[k] = disk[k]
    BY <2>1 DEF Backed
  <2>2. CASE latest[k] # disk[k]
    <3>1. PICK c \in Buf : b_blk[c] = k /\ b_data[c] = latest[k] /\ Live(c)
      BY <1>0, <2>2 DEF Backed
    <3>2. Keeps(c)
      BY <3>1 DEF Turned
    <3>3. b_blk'[c] = k /\ Live(c)' /\ b_data'[c] = latest'[k]
      BY <3>1, <3>2 DEF Keeps
    <3> QED
      BY <3>3 DEF Backed
  <2> QED
    BY <2>1, <2>2
<1>4. ASSUME NEW c \in Buf PROVE Good(c)'
  BY DEF Keeps, Turned
<1> QED
  BY <1>1, <1>2, <1>3, <1>4 DEF DataInv

LEMMA KeepAllData ==
  ASSUME BufType, DataInv, UNCHANGED <<b_data, disk, latest>>, \A c \in Buf : Keeps(c)
  PROVE  DataInv'
<1>1. CASE Buf = {}
  BY <1>1 DEF DataInv, OneBuffer, Coherent, Backed
<1>2. CASE Buf # {}
  BY <1>2, CalmData
<1> QED
  BY <1>1, <1>2

LEMMA ChangeData ==
  ASSUME BufType, DataInv, NEW b, NEW k, Changes(b, k)
  PROVE  DataInv'
<1>0. /\ OneBuffer /\ Coherent /\ (\A l \in Block : Backed(l)) /\ b_blk \in [Buf -> Block \cup {none}]
      /\ b \in Buf /\ k \in Block /\ b_blk[b] = k /\ k # none /\ Valid(b)
      /\ b_blk'[b] \in {k, none}
  BY BufAssumption DEF DataInv, BufType, Changes
<1>1. ASSUME NEW c \in Buf \ {b}, Valid(c)
      PROVE  b_blk[c] # k
  BY <1>0, <1>1 DEF OneBuffer
<1>2. ASSUME NEW c \in Buf \ {b}
      PROVE  /\ b_blk'[c] = b_blk[c] /\ (Valid(c)' => Valid(c)) /\ (Filled(c)' => Filled(c))
             /\ (Live(c) => Live(c)') /\ Good(c)' /\ b_data'[c] = b_data[c]
  BY DEF Changes, Keeps
<1>3. OneBuffer'
  <2>1. ASSUME NEW c \in Buf, NEW d \in Buf, b_blk'[c] = b_blk'[d], b_blk'[c] # none, Valid(c)', Valid(d)', c # b
        PROVE  c = d
    <3>1. b_blk'[c] = b_blk[c] /\ Valid(c)
      BY <1>2, <2>1
    <3>2. b_blk'[d] = b_blk[d] /\ Valid(d)
      BY <1>0, <1>2, <2>1
    <3> QED
      BY <1>0, <2>1, <3>1, <3>2 DEF OneBuffer
  <2> QED
    BY <2>1 DEF OneBuffer
<1>4. Coherent'
  <2>1. ASSUME NEW c \in Buf, b_blk'[c] # none, Filled(c)' PROVE b_data'[c] = latest'[b_blk'[c]]
    <3>1. CASE c = b
      BY <1>0, <2>1, <3>1 DEF Changes
    <3>2. CASE c # b
      <4>1. Filled(c) /\ b_blk'[c] = b_blk[c] /\ b_data'[c] = b_data[c] /\ b_blk[c] \in Block
        BY <1>0, <1>2, <2>1, <3>2
      <4>2. Valid(c)
        BY <4>1 DEF Filled, Valid
      <4>3. b_blk[c] # k
        BY <1>1, <3>2, <4>2
      <4>4. latest'[b_blk[c]] = latest[b_blk[c]]
        BY <4>1, <4>3 DEF Changes
      <4>5. b_data[c] = latest[b_blk[c]]
        BY <1>0, <2>1, <4>1 DEF Coherent
      <4> QED
        BY <4>1, <4>4, <4>5
    <3> QED
      BY <3>1, <3>2
  <2> QED
    BY <2>1 DEF Coherent
<1>5. ASSUME NEW l \in Block PROVE Backed(l)'
  <2>1. CASE l = k
    BY <1>0, <2>1 DEF Changes, Backed
  <2>2. CASE l # k
    <3>1. latest'[l] = latest[l] /\ disk'[l] = disk[l]
      BY <2>2 DEF Changes
    <3>2. CASE latest[l] = disk[l]
      BY <3>1, <3>2 DEF Backed
    <3>3. CASE latest[l] # disk[l]
      <4>1. PICK c \in Buf : b_blk[c] = l /\ b_data[c] = latest[l] /\ Live(c)
        BY <1>0, <3>3 DEF Backed
      <4>2. c # b
        BY <1>0, <2>2, <4>1
      <4>3. b_blk'[c] = l /\ b_data'[c] = latest'[l] /\ Live(c)'
        BY <1>2, <3>1, <4>1, <4>2
      <4> QED
        BY <4>3 DEF Backed
    <3> QED
      BY <3>2, <3>3
  <2> QED
    BY <2>1, <2>2
<1>6. ASSUME NEW c \in Buf PROVE Good(c)'
  BY <1>2 DEF Changes
<1> QED
  BY <1>3, <1>4, <1>5, <1>6 DEF DataInv

\* The other buffers keep their owners, and these their calls.
Stays(p, b) ==
  /\ \A q \in Proc \ {p} : held'[q] = held[q] /\ req'[q] = req[q]
  /\ \A c \in Buf \ {b} : held[p] = c => held'[p] = c /\ req'[p] = req[p]

LEMMA StayKeeps ==
  ASSUME NEW p \in Proc, NEW b, Stays(p, b), NEW c \in Buf \ {b}, Good(c),
         b_flags'[c] = b_flags[c], b_blk'[c] = b_blk[c], c \in io' <=> c \in io
  PROVE  Keeps(c)
<1>1. \A q \in Owners(c) : held'[q] = c /\ req'[q] = req[q]
  BY DEF Owners, Stays
<1>2. Filled(c)' => Filled(c)
  BY <1>1 DEF Filled, Owners
<1>3. Good(c)'
  BY DEF Good, Bad, Delayed
<1>4. Live(c) => Live(c)'
  BY DEF Live, Valid, Delayed, Writing
<1>5. Valid(c)' => Valid(c)
  BY DEF Valid
<1> QED
  BY <1>2, <1>3, <1>4, <1>5 DEF Keeps

\* So do the delayed writes that are started.
LEMMA PushKeeps ==
  ASSUME BufInv, NEW c \in Buf, Delayed(c), "BUSY" \notin b_flags[c],
         b_flags'[c] = Started(b_flags[c] \cup {"BUSY"}, TRUE), b_blk'[c] = b_blk[c], c \in io'
  PROVE  Keeps(c)
<1>1. (\A q \in Proc : held[q] # c) /\ c \notin io /\ ~Bad(b_flags[c])
  BY FreeUnowned
<1>2. Filled(c)
  BY <1>1 DEF Filled, Owners, Bad
<1>3. Valid(c) /\ "READ" \notin b_flags'[c] /\ "DELWRI" \notin b_flags'[c] /\ "INVAL" \notin b_flags'[c]
  BY <1>1 DEF Valid, Bad, Started
<1>4. Live(c)' /\ Good(c)'
  BY <1>3 DEF Live, Good, Valid, Writing, Delayed
<1> QED
  BY <1>2, <1>3, <1>4 DEF Keeps

\* A buffer is taken for a block, or held as it was: only its flags change.
LEMMA FlagKeeps ==
  ASSUME NEW c \in Buf, b_blk'[c] = b_blk[c], c \in io' <=> c \in io,
         \A f \in {"INVAL", "ERROR", "DELWRI", "READ"} : f \in b_flags'[c] <=> f \in b_flags[c],
         Good(c), \A q \in Owners(c) : req[q].use = "getblk" => held'[q] = c /\ req'[q].use = "getblk"
  PROVE  Keeps(c)
<1>1. Filled(c)' => Filled(c)
  BY DEF Filled, Owners
<1>2. Good(c)'
  BY DEF Good, Bad, Delayed
<1>3. Live(c) => Live(c)'
  BY DEF Live, Valid, Delayed, Writing
<1>4. Valid(c)' => Valid(c)
  BY DEF Valid
<1> QED
  BY <1>1, <1>2, <1>3, <1>4 DEF Keeps

\* Who holds no buffer, or goes on with its call, leaves the buffers alone.
LEMMA StaysIs ==
  ASSUME BufType, NEW p \in Proc, NEW b,
         \/ held' = held /\ req' = req
         \/ held[p] = none /\ (\E r : req' = [req EXCEPT ![p] = r])
              /\ (held' = held \/ \E c : held' = [held EXCEPT ![p] = c])
         \/ held[p] = b /\ (\E r : req' = [req EXCEPT ![p] = r])
              /\ (held' = held \/ \E c : held' = [held EXCEPT ![p] = c])
  PROVE  Stays(p, b)
<1>1. none \notin Buf
  BY BufAssumption
<1> QED
  BY <1>1 DEF BufType, Stays

SameVers == UNCHANGED <<b_data, disk, latest>>

LEMMA HitBusyData ==
  ASSUME BufInv, DataInv, NEW p \in Proc, NEW k, hit_busy(p, k), SameVers, held[p] = none,
         \E r : req' = [req EXCEPT ![p] = r]
  PROVE  DataInv'
<1>0. BufType /\ (\A c \in Buf : Good(c)) /\ UNCHANGED <<b_data, disk, latest>>
  BY DEF BufInv, DataInv, SameVers
<1>1. PICK b \in Buf : /\ b_flags' = [b_flags EXCEPT ![b] = (@ \ {"AGE"}) \cup {"WANTED", "CACHE"}]
                       /\ UNCHANGED <<b_blk, io, held>>
  BY DEF hit_busy, incore
<1>2. /\ b_flags'[b] = (b_flags[b] \ {"AGE"}) \cup {"WANTED", "CACHE"}
      /\ \A c \in Buf \ {b} : b_flags'[c] = b_flags[c]
  BY <1>0, <1>1 DEF BufType
<1>3. Stays(p, b) /\ Stays(p, none)
  BY <1>0, <1>1, StaysIs
<1>4. \A q \in Owners(b) : held'[q] = b /\ req'[q] = req[q]
  <2>1. b # none
    BY BufAssumption
  <2> QED
    BY <1>1, <1>3, <2>1 DEF Owners, Stays
<1>5. Keeps(b)
  BY <1>0, <1>1, <1>2, <1>4, FlagKeeps
<1>6. ASSUME NEW c \in Buf \ {b} PROVE Keeps(c)
  BY <1>0, <1>1, <1>2, <1>3, StayKeeps
<1> QED
  BY <1>0, <1>5, <1>6, CalmData

LEMMA HitFreeData ==
  ASSUME BufInv, DataInv, NEW p \in Proc, NEW k \in Block, NEW use \in {"bread", "breada", "getblk"},
         hit_free(p, k, use), SameVers, held[p] = none, \E r : req' = [req EXCEPT ![p] = r]
  PROVE  DataInv'
<1>0. BufType /\ (\A c \in Buf : Good(c)) /\ UNCHANGED <<b_data, disk, latest>>
  BY DEF BufInv, DataInv, SameVers
<1>1. PICK b \in Buf, F \in SUBSET Flags : HitFreeDoes(p, k, use, b, F)
  BY HitFreeIs
<1>2. /\ b_flags' = [b_flags EXCEPT ![b] = F] /\ F = (b_flags[b] \ {"AGE"}) \cup {"BUSY", "CACHE"}
      /\ io' = io /\ b_blk' = b_blk /\ held' = [held EXCEPT ![p] = b] /\ \A q \in Proc : held[q] # b
  BY <1>1 DEF HitFreeDoes
<1>3. b_flags'[b] = F /\ \A c \in Buf \ {b} : b_flags'[c] = b_flags[c]
  BY <1>0, <1>2 DEF BufType
<1>4. Stays(p, b)
  BY <1>0, <1>2, StaysIs
<1>5. Keeps(b)
  <2>1. Owners(b) = {}
    BY <1>2 DEF Owners
  <2> QED
    BY <1>0, <1>2, <1>3, <2>1, FlagKeeps
<1>6. ASSUME NEW c \in Buf \ {b} PROVE Keeps(c)
  BY <1>0, <1>2, <1>3, <1>4, StayKeeps
<1> QED
  BY <1>0, <1>5, <1>6, CalmData

\* A buffer is taken for block k, which is in none.
LEMMA TakeData ==
  ASSUME BufInv, DataInv, SameVers, NEW p \in Proc, NEW b \in Buf, NEW S, Stays(p, b),
         b \notin S, \A c \in S : Delayed(c) /\ "BUSY" \notin b_flags[c] /\ Push(c),
         \A c \in Buf \ (S \cup {b}) : Same(c),
         ~Delayed(b), b \notin io, "DELWRI" \notin b_flags'[b],
         b_blk'[b] \in Block, incore(b_blk'[b]) = {}, ~Filled(b)'
  PROVE  DataInv'
<1>0. BufType /\ (\A c \in Buf : Good(c)) /\ UNCHANGED <<b_data, disk, latest>>
  BY DEF BufInv, DataInv, SameVers
<1>1. ASSUME NEW c \in Buf \ {b} PROVE Keeps(c)
  <2>1. CASE c \in S
    BY <2>1, PushKeeps DEF Push
  <2>2. CASE c \notin S
    <3>1. Same(c)
      BY <2>2
    <3> QED
      BY <1>0, <3>1, StayKeeps DEF Same
  <2> QED
    BY <2>1, <2>2
<1>2. Turned(b)
  BY DEF Turned, Live, Good, Delayed, Writing
<1> QED
  BY <1>0, <1>1, <1>2, CalmData

LEMMA GetnewbufData ==
  ASSUME OneSize, NeverSleepsInAlloc, BufInv, DataInv, SameVers,
         NEW p \in Proc, NEW k \in Block, NEW use \in {"bread", "breada", "getblk"},
         getnewbuf(p, k, use), incore(k) = {}, held[p] = none,
         req' = [req EXCEPT ![p] = [use |-> use, blk |-> k]]
  PROVE  DataInv'
<1>0. BufType /\ OneSize /\ NeverSleepsInAlloc
  BY DEF BufInv
<1>1. PICK b \in Buf, S \in SUBSET Buf, F \in SUBSET Flags, x \in {"none", "clean"}, y \in Block \cup {none} :
        \E I \in SUBSET {b}, place \in Places : GetnewbufDoes(p, k, use, b, S, F, x, y, I, place)
  BY GetnewbufIs
<1>2. PICK I \in SUBSET {b}, place \in Places : GetnewbufDoes(p, k, use, b, S, F, x, y, I, place)
  BY <1>1
<1>3. /\ Takes(b, S, F, x, y, I) /\ ~Delayed(b) /\ held' = [held EXCEPT ![p] = b]
      /\ \/ use # "getblk" /\ F = {"BUSY", "READ"} /\ I = {b} /\ y = k
         \/ use = "getblk" /\ F = {"BUSY"} /\ I = {} /\ y = k
         \/ MaySleep(b, k)
  BY <1>2 DEF GetnewbufDoes
<1>4. ~MaySleep(b, k)
  <2>1. b_bufsize[b] = 0 \/ \E l \in Block : b_bufsize[b] = SizeOf[l]
    BY <1>0 DEF NeverSleepsInAlloc
  <2>2. \A l \in Block : SizeOf[l] = SizeOf[k]
    BY <1>0 DEF OneSize
  <2> QED
    BY <2>1, <2>2 DEF MaySleep
<1>5. Taken(b, S, F, x, y, I)
  BY <1>3, TakeFacts
<1>6. /\ b \notin S /\ (\A c \in S : Delayed(c) /\ "BUSY" \notin b_flags[c] /\ Push(c))
      /\ \A c \in Buf \ (S \cup {b}) : Same(c)
      /\ b_flags'[b] = F /\ b_blk'[b] = y /\ b \notin io /\ (b \in io' <=> b \in I)
  BY <1>5 DEF Taken
<1>7. Stays(p, b)
  BY <1>0, <1>3, StaysIs
<1>8. y = k /\ "DELWRI" \notin F
  BY <1>3, <1>4
<1>9. ~Filled(b)'
  <2>1. CASE use = "getblk"
    <3>1. held'[p] = b /\ req'[p].use = "getblk"
      BY <1>0, <1>3, <2>1 DEF BufType
    <3> QED
      BY <3>1 DEF Filled, Owners
  <2>2. CASE use # "getblk"
    BY <1>3, <1>4, <1>6, <2>2 DEF Filled
  <2> QED
    BY <2>1, <2>2
<1>10. b_blk'[b] \in Block /\ incore(b_blk'[b]) = {} /\ "DELWRI" \notin b_flags'[b]
  BY <1>6, <1>8
<1> QED
  BY <1>3, <1>6, <1>7, <1>9, <1>10, TakeData

LEMMA NobufData ==
  ASSUME BufInv, DataInv, SameVers, NEW p \in Proc, NEW place, NEW sz, nobuf(p, place, sz),
         req' = req \/ (held[p] = none /\ \E r : req' = [req EXCEPT ![p] = r])
  PROVE  DataInv'
<1>0. BufType /\ ListsFit /\ (\A c \in Buf : Good(c)) /\ UNCHANGED <<b_data, disk, latest>>
  BY DEF BufInv, DataInv, SameVers
<1> DEFINE S == Pushed
<1>1. b_flags' = PushedFlags(S) /\ io' = io \cup S /\ b_blk' = b_blk /\ held' = held
  BY DEF nobuf
<1>2. S \in SUBSET OnLists /\ S \in SUBSET Buf /\ \A c \in S : Delayed(c)
  BY <1>0, PushedAre DEF Pushed, OnLists
<1> HIDE DEF S
<1>3. Stays(p, none)
  BY <1>0, <1>1, StaysIs
<1>4. ASSUME NEW c \in Buf PROVE Keeps(c)
  <2>1. CASE c \in S
    <3>1. "BUSY" \notin b_flags[c]
      BY <1>2, <2>1 DEF BufInv, BufFits
    <3>2. b_flags'[c] = Started(b_flags[c] \cup {"BUSY"}, TRUE)
      BY <1>1, <2>1 DEF PushedFlags
    <3> QED
      BY <1>1, <1>2, <2>1, <3>1, <3>2, PushKeeps
  <2>2. CASE c \notin S
    <3>1. b_flags'[c] = b_flags[c]
      BY <1>1, <2>2 DEF PushedFlags
    <3>2. c \in Buf \ {none}
      BY BufAssumption
    <3>3. b_blk'[c] = b_blk[c] /\ (c \in io' <=> c \in io)
      BY <1>1, <2>2
    <3> QED
      BY <1>0, <1>3, <3>1, <3>2, <3>3, StayKeeps
  <2> QED
    BY <2>1, <2>2
<1> QED
  BY <1>0, <1>4, KeepAllData

LEMMA GetblkData ==
  ASSUME OneSize, NeverSleepsInAlloc, BufInv, DataInv, NEW p \in Proc, NEW k \in Block,
         NEW use \in {"bread", "breada", "getblk"}, pc[p] \in {"idle", "getblk"}, getblk(p, k, use)
  PROVE  DataInv'
<1>0. SameVers /\ held[p] = none /\ req' = [req EXCEPT ![p] = [use |-> use, blk |-> k]]
  BY NoneHeld DEF getblk, SameVers, vals
<1>1. \E r : req' = [req EXCEPT ![p] = r]
  BY <1>0
<1>2. CASE hit_busy(p, k)
  BY <1>0, <1>1, <1>2, HitBusyData
<1>3. CASE hit_free(p, k, use)
  BY <1>0, <1>1, <1>3, HitFreeData
<1>4. CASE incore(k) = {} /\ getnewbuf(p, k, use)
  BY <1>0, <1>4, GetnewbufData
<1>5. CASE nobuf(p, "getblk", SizeOf[k])
  BY <1>0, <1>1, <1>5, NobufData
<1> QED
  BY <1>2, <1>3, <1>4, <1>5 DEF getblk

LEMMA RaMissData ==
  ASSUME BufInv, DataInv, SameVers, NEW p \in Proc, NEW k \in Block, ra_miss(p, k), incore(k) = {}, req' = req
  PROVE  DataInv'
<1>0. BufType
  BY DEF BufInv
<1>1. PICK b \in Buf, S \in SUBSET Buf : RaMissDoes(p, k, b, S)
  BY RaMissIs
<1> DEFINE F == {"BUSY", "READ", "ASYNC", "AGE"}
           x == "clean"
           I == {b}
<1>2. Takes(b, S, F, x, k, I) /\ ~Delayed(b) /\ held' = held
  BY <1>1 DEF RaMissDoes
<1>3. F \in SUBSET Flags /\ I \in SUBSET {b} /\ x \in {"none", "clean"} /\ k \in Block \cup {none}
      /\ "READ" \in F /\ "DELWRI" \notin F /\ b \in I
  BY DEF Flags
<1> HIDE DEF F, x, I
<1>4. Taken(b, S, F, x, k, I)
  BY <1>2, <1>3, TakeFacts
<1>5. /\ b \notin S /\ (\A c \in S : Delayed(c) /\ "BUSY" \notin b_flags[c] /\ Push(c))
      /\ \A c \in Buf \ (S \cup {b}) : Same(c)
      /\ b_flags'[b] = F /\ b_blk'[b] = k /\ b \notin io /\ b \in io'
  BY <1>3, <1>4 DEF Taken
<1>6. Stays(p, b)
  BY <1>0, <1>2, StaysIs
<1>7. ~Filled(b)' /\ b_blk'[b] \in Block /\ incore(b_blk'[b]) = {} /\ "DELWRI" \notin b_flags'[b]
  BY <1>3, <1>5 DEF Filled
<1> QED
  BY <1>2, <1>5, <1>6, <1>7, TakeData

\* Only the flags of a buffer change.
LEMMA MarkData ==
  ASSUME BufInv, DataInv, SameVers, NEW p \in Proc, NEW b \in Buf, Stays(p, b), Keeps(b),
         \A c \in Buf \ {b} : b_flags'[c] = b_flags[c] /\ b_blk'[c] = b_blk[c] /\ (c \in io' <=> c \in io)
  PROVE  DataInv'
<1>0. BufType /\ (\A c \in Buf : Good(c)) /\ UNCHANGED <<b_data, disk, latest>>
  BY DEF BufInv, DataInv, SameVers
<1>1. ASSUME NEW c \in Buf \ {b} PROVE Keeps(c)
  BY <1>0, StayKeeps
<1> QED
  BY <1>0, <1>1, CalmData

\* The flags of a good buffer that is released.
LEMMA RelFlagsKeep ==
  ASSUME NEW fl, ~Bad(fl)
  PROVE  \A f \in {"INVAL", "ERROR", "DELWRI", "READ"} : f \in RelFlags(fl) <=> f \in fl
<1>1. RelFlags(fl) = fl \ ({"WANTED", "CACHE", "BUSY"} \cup (IF Stale(fl) THEN {} ELSE {"AGE"}))
  BY DEF RelFlags
<1> DEFINE X == {"WANTED", "CACHE", "BUSY"} \cup (IF Stale(fl) THEN {} ELSE {"AGE"})
<1>2. \A f \in {"INVAL", "ERROR", "DELWRI", "READ"} : f \notin X
  OBVIOUS
<1> HIDE DEF X
<1>3. RelFlags(fl) = fl \ X
  BY <1>1 DEF X
<1> QED
  BY <1>2, <1>3

LEMMA RaHitData ==
  ASSUME BufInv, DataInv, SameVers, NEW p \in Proc, NEW k \in Block, ra_hit(p, k), req' = req
  PROVE  DataInv'
<1>0. BufType /\ k # none /\ \A c \in Buf : Good(c)
  BY BufAssumption DEF BufInv, DataInv
<1>1. PICK b \in incore(k) :
        /\ IF "AGE" \in b_flags[b] /\ "BUSY" \notin b_flags[b]
             THEN b_flags' = [b_flags EXCEPT ![b] = RelFlags(@)]
             ELSE b_flags' = [b_flags EXCEPT ![b] = @ \ {"AGE"}]
        /\ UNCHANGED <<b_blk, io, held>>
  BY DEF ra_hit
<1>2. b \in Buf /\ b_blk[b] # none
  BY <1>0, <1>1 DEF incore
<1>3. /\ \A c \in Buf \ {b} : b_flags'[c] = b_flags[c]
      /\ IF "AGE" \in b_flags[b] /\ "BUSY" \notin b_flags[b]
         THEN b_flags'[b] = RelFlags(b_flags[b]) ELSE b_flags'[b] = b_flags[b] \ {"AGE"}
  BY <1>0, <1>1, <1>2 DEF BufType
<1>4. Stays(p, b)
  BY <1>0, <1>1, StaysIs
<1>5. \A f \in {"INVAL", "ERROR", "DELWRI", "READ"} : f \in b_flags'[b] <=> f \in b_flags[b]
  <2>1. CASE "AGE" \in b_flags[b] /\ "BUSY" \notin b_flags[b]
    <3>1. ~Bad(b_flags[b])
      BY <1>2, <2>1, FreeUnowned
    <3> QED
      BY <1>3, <2>1, <3>1, RelFlagsKeep
  <2>2. CASE ~("AGE" \in b_flags[b] /\ "BUSY" \notin b_flags[b])
    <3>1. b_flags'[b] = b_flags[b] \ {"AGE"}
      BY <1>3, <2>2
    <3> DEFINE G == b_flags'[b]
               H == b_flags[b]
    <3>2. G = H \ {"AGE"}
      BY <3>1
    <3> HIDE DEF G, H
    <3>3. \A f \in {"INVAL", "ERROR", "DELWRI", "READ"} : f \in G <=> f \in H
      BY <3>2
    <3> QED
      BY <3>3 DEF G, H
  <2> QED
    BY <2>1, <2>2
<1>6. Keeps(b)
  <2>1. \A q \in Owners(b) : held'[q] = b /\ req'[q] = req[q]
    BY <1>1 DEF Owners
  <2>2. b_blk'[b] = b_blk[b] /\ (b \in io' <=> b \in io) /\ Good(b)
    BY <1>0, <1>1, <1>2
  <2> QED
    BY <1>2, <1>5, <2>1, <2>2, FlagKeeps
<1> QED
  BY <1>1, <1>2, <1>3, <1>4, <1>6, MarkData

LEMMA BreadaData ==
  ASSUME BufInv, DataInv, NEW p \in Proc, NEW k \in Block, breada(p, k)
  PROVE  DataInv'
<1>1. SameVers /\ req' = req
  BY DEF breada, SameVers, vals
<1> QED
  BY <1>1, RaMissData, RaHitData, NobufData DEF breada

\* Nothing happens to the buffers.
LEMMA IdleData ==
  ASSUME BufInv, DataInv, SameVers, UNCHANGED <<b_flags, b_blk, io>>, NEW p \in Proc,
         \/ held' = held /\ req' = req
         \/ held[p] = none /\ (\E r : req' = [req EXCEPT ![p] = r])
              /\ (held' = held \/ \E c : held' = [held EXCEPT ![p] = c])
  PROVE  DataInv'
<1>0. BufType /\ (\A c \in Buf : Good(c)) /\ UNCHANGED <<b_data, disk, latest>> /\ none \notin Buf
  BY BufAssumption DEF BufInv, DataInv, SameVers
<1>1. Stays(p, none)
  BY <1>0, StaysIs
<1>2. ASSUME NEW c \in Buf PROVE Keeps(c)
  BY <1>0, <1>1, StayKeeps
<1> QED
  BY <1>0, <1>2, KeepAllData

LEMMA BreadDoneData ==
  ASSUME BufInv, DataInv, NEW p \in Proc, bread_done(p)
  PROVE  DataInv'
<1>0. BufType /\ pc[p] = "biowait" /\ \A c \in Buf : Good(c)
  BY DEF BufInv, DataInv, bread_done, At
<1>1. PICK b \in Buf : b = held[p] /\ b_blk[b] # none
  BY <1>0, HeldHas
<1>2. /\ "DONE" \in b_flags[b] /\ b_flags' = [b_flags EXCEPT ![b] = Result(b)]
      /\ req' = IF Failed(b) THEN [req EXCEPT ![p].use = "bad"] ELSE req
      /\ UNCHANGED <<b_blk, io, held>> /\ SameVers /\ req[p].use \in {"bread", "breada"}
  BY <1>1 DEF bread_done, SameVers, vals
<1>3. b_flags'[b] = Result(b) /\ \A c \in Buf \ {b} : b_flags'[c] = b_flags[c]
  BY <1>0, <1>2 DEF BufType
<1>4. b \notin io /\ "DELWRI" \notin b_flags[b]
  <2>1. BufFits(b) /\ HeldFits(p) /\ held[p] # none
    BY <1>1, BufAssumption DEF BufInv
  <2> QED
    BY <1>0, <1>1, <1>2, <2>1 DEF BufFits, HeldFits
<1>5. Stays(p, b)
  <2>1. \E r : req' = [req EXCEPT ![p] = r]
    <3>1. req = [req EXCEPT ![p] = req[p]]
      BY <1>0 DEF BufType
    <3> QED
      BY <1>2, <3>1
  <2> QED
    BY <1>0, <1>1, <1>2, <2>1, StaysIs
<1>6. Keeps(b)
  <2>1. CASE Failed(b)
    <3>1. b_flags'[b] = b_flags[b] \cup {"INVAL"}
      BY <1>3, <2>1 DEF Result
    <3>2. "INVAL" \in b_flags'[b] /\ "DELWRI" \notin b_flags'[b]
      BY <1>4, <3>1
    <3>3. ~Live(b) /\ ~Filled(b)' /\ ~Valid(b)' /\ Good(b)'
      BY <1>4, <3>2 DEF Live, Filled, Valid, Good, Delayed, Writing
    <3> QED
      BY <1>2, <3>3 DEF Keeps
  <2>2. CASE ~Failed(b)
    <3>1. b_flags'[b] = b_flags[b]
      BY <1>3, <2>2 DEF Result
    <3>2. \A q \in Owners(b) : held'[q] = b /\ req'[q] = req[q]
      BY <1>2, <2>2 DEF Owners
    <3>3. b_blk'[b] = b_blk[b] /\ (b \in io' <=> b \in io) /\ Good(b)
      BY <1>0, <1>2
    <3> QED
      BY <3>1, <3>2, <3>3, FlagKeeps
  <2> QED
    BY <2>1, <2>2
<1> QED
  BY <1>2, <1>3, <1>5, <1>6, MarkData

\* A good buffer is thrown away, with what was to be written.
LEMMA DropData ==
  ASSUME BufInv, ValType, DataInv, NEW p \in Proc, NEW b \in Buf, b_blk[b] # none, ~Bad(b_flags[b]),
         Stays(p, b), BackToDisk(b_blk[b]), UNCHANGED <<b_data, disk>>,
         b_blk'[b] = none, "DELWRI" \notin b_flags'[b],
         \A c \in Buf \ {b} : b_flags'[c] = b_flags[c] /\ b_blk'[c] = b_blk[c] /\ (c \in io' <=> c \in io)
  PROVE  DataInv'
<1>0. BufType /\ (\A c \in Buf : Good(c)) /\ b_blk[b] \in Block /\ latest \in [Block -> Ver]
  BY DEF BufInv, BufType, DataInv, ValType
<1>1. ASSUME NEW c \in Buf \ {b} PROVE Keeps(c)
  BY <1>0, StayKeeps
<1>2. PICK k \in Block : k = b_blk[b] /\ k # none
  BY <1>0
<1>3. latest'[k] = disk'[k] /\ \A l \in Block \ {k} : latest'[l] = latest[l] /\ disk'[l] = disk[l]
  BY <1>0, <1>2 DEF BackToDisk
<1>4. Valid(b) /\ Good(b)'
  BY DEF Valid, Bad, Good, Delayed
<1>5. Changes(b, k)
  BY <1>1, <1>2, <1>3, <1>4 DEF Changes
<1> QED
  BY <1>0, <1>5, ChangeData

\* A process releases the buffer in its hands, or invalidates it.
LEMMA ReleaseData ==
  ASSUME BufInv, ValType, DataInv, NEW p \in Proc, NEW b \in Buf, held[p] = b, b \notin io, b_blk[b] # none,
         NEW fl, brelse(b, fl), fl = b_flags[b] \/ fl = b_flags[b] \cup {"INVAL"},
         ~Bad(fl) => req[p].use # "getblk",
         UNCHANGED <<b_data, disk, io>>, Stays(p, b)
  PROVE  DataInv'
<1>0. BufType /\ \A c \in Buf : Good(c)
  BY DEF BufInv, DataInv
<1>1. /\ b_flags' = [b_flags EXCEPT ![b] = RelFlags(fl)]
      /\ b_blk' = IF Bad(fl) THEN [b_blk EXCEPT ![b] = none] ELSE b_blk
      /\ IF Bad(fl) /\ ~Bad(b_flags[b]) THEN BackToDisk(b_blk[b]) ELSE UNCHANGED <<latest, due>>
  BY DEF brelse, Requeue, Forget
<1>2. /\ b_flags'[b] = RelFlags(fl)
      /\ \A c \in Buf \ {b} : b_flags'[c] = b_flags[c] /\ b_blk'[c] = b_blk[c] /\ (c \in io' <=> c \in io)
  BY <1>0, <1>1 DEF BufType
<1>3. CASE ~Bad(fl)
  <2>1. fl = b_flags[b] /\ b_blk' = b_blk /\ SameVers
    BY <1>1, <1>3 DEF Bad, SameVers
  <2>2. \A f \in {"INVAL", "ERROR", "DELWRI", "READ"} : f \in b_flags'[b] <=> f \in b_flags[b]
    BY <1>2, <1>3, <2>1, RelFlagsKeep
  <2>3. \A q \in Owners(b) : req[q].use # "getblk"
    <3>1. held[p] # none
      BY BufAssumption
    <3>2. Owners(b) = {p}
      BY <3>1 DEF Owners, BufInv, OneOwner
    <3> QED
      BY <1>3, <3>2
  <2>4. b_blk'[b] = b_blk[b] /\ (b \in io' <=> b \in io) /\ Good(b)
    BY <1>0, <2>1
  <2>5. Keeps(b)
    BY <2>2, <2>3, <2>4, FlagKeeps
  <2> QED
    BY <1>2, <2>1, <2>5, MarkData
<1>4. CASE Bad(fl)
  <2>1. b_blk'[b] = none /\ b_flags'[b] = {"INVAL"}
    BY <1>0, <1>1, <1>2, <1>4 DEF RelFlags, BufType
  <2>2. CASE ~Bad(b_flags[b])
    BY <1>1, <1>2, <1>4, <2>1, <2>2, DropData
  <2>3. CASE Bad(b_flags[b])
    <3>1. ~Live(b)
      BY <1>0, <2>3 DEF Live, Good, Writing
    <3>2. Good(b)'
      BY <2>1 DEF Good, Delayed
    <3>3. Turned(b)
      BY <2>1, <3>1, <3>2 DEF Turned
    <3>4. ASSUME NEW c \in Buf \ {b} PROVE Keeps(c)
      BY <1>0, <1>2, StayKeeps
    <3>5. UNCHANGED <<b_data, disk, latest>>
      BY <1>1, <2>3
    <3> QED
      BY <1>0, <3>3, <3>4, <3>5, CalmData
  <2> QED
    BY <2>2, <2>3
<1> QED
  BY <1>3, <1>4

LEMMA BwriteDoneData ==
  ASSUME BufInv, ValType, DataInv, NEW p \in Proc, bwrite_done(p)
  PROVE  DataInv'
<1>0. BufType /\ pc[p] = "biowait"
  BY DEF BufInv, bwrite_done, At
<1>1. PICK b \in Buf : b = held[p] /\ b_blk[b] # none
  BY <1>0, HeldHas
<1>2. /\ "DONE" \in b_flags[b] /\ brelse(b, Result(b)) /\ req[p].use \in {"bwrite", "ibwrite"}
      /\ held' = [held EXCEPT ![p] = none] /\ UNCHANGED <<b_data, disk, io>>
      /\ req' = [req EXCEPT ![p] = IF @.use = "bwrite" THEN NoReq ELSE [use |-> "save", blk |-> VnodeOf[@.blk]]]
  BY <1>1 DEF bwrite_done
<1>3. b \notin io
  BY <1>2 DEF BufInv, BufFits
<1>4. Stays(p, b)
  BY <1>0, <1>1, <1>2, StaysIs
<1> DEFINE fl == Result(b)
<1>5. fl = b_flags[b] \/ fl = b_flags[b] \cup {"INVAL"}
  BY DEF Result
<1>6. brelse(b, fl)
  BY <1>2
<1> HIDE DEF fl
<1> QED
  BY <1>1, <1>2, <1>3, <1>4, <1>5, <1>6, ReleaseData

LEMMA BrelseHeldData ==
  ASSUME BufInv, ValType, DataInv, NEW p \in Proc, NEW inval \in BOOLEAN, brelse_held(p, inval)
  PROVE  DataInv'
<1>0. BufType /\ pc[p] = "held"
  BY DEF BufInv, brelse_held, At
<1>1. PICK b \in Buf : b = held[p] /\ b_blk[b] # none /\ b \notin io
  BY <1>0, HeldIs
<1> DEFINE fl == b_flags[b] \cup (IF inval THEN {"INVAL"} ELSE {})
<1>2. /\ inval \/ req[p].use # "getblk"
      /\ brelse(b, fl) /\ UNCHANGED <<b_data, disk, io>>
      /\ held' = [held EXCEPT ![p] = none] /\ req' = [req EXCEPT ![p] = NoReq]
  BY <1>1 DEF brelse_held, Done
<1>3. fl = b_flags[b] \/ fl = b_flags[b] \cup {"INVAL"}
  OBVIOUS
<1>4. ~Bad(fl) => req[p].use # "getblk"
  BY <1>2 DEF Bad
<1> HIDE DEF fl
<1>5. Stays(p, b)
  BY <1>0, <1>1, <1>2, StaysIs
<1> QED
  BY <1>1, <1>2, <1>3, <1>4, <1>5, ReleaseData

\* A new version is written, at once or later.
LEMMA ModifyData ==
  ASSUME BufInv, ValType, DataInv, NEW p \in Proc, MayWrite(p), Modify(p), NEW b \in Buf, held[p] = b,
         UNCHANGED <<disk, b_blk>>, Stays(p, b),
         "INVAL" \notin b_flags'[b], "ERROR" \notin b_flags'[b], Delayed(b)' \/ Writing(b)',
         \A c \in Buf \ {b} : b_flags'[c] = b_flags[c] /\ (c \in io' <=> c \in io)
  PROVE  DataInv'
<1>0. /\ BufType /\ (\A c \in Buf : Good(c)) /\ pc[p] = "held" /\ req[p].use # "bad"
      /\ latest \in [Block -> Ver] /\ b_data \in [Buf -> Ver] /\ HeldFits(p) /\ b # none
  BY BufAssumption DEF BufInv, DataInv, MayWrite, At, ValType
<1>1. b_blk[b] = req[p].blk /\ req[p].blk \in Block /\ b_blk[b] # none /\ ~Bad(b_flags[b])
  BY <1>0, HeldIs DEF HeldFits
<1>2. PICK k \in Block : k = b_blk[b] /\ k = req[p].blk
  BY <1>1
<1>3. /\ latest' = [latest EXCEPT ![k] = @ + 1]
      /\ b_data' = [b_data EXCEPT ![b] = latest[k] + 1]
  BY <1>2 DEF Modify
<1>4. /\ latest'[k] = b_data'[b] /\ (\A l \in Block \ {k} : latest'[l] = latest[l] /\ disk'[l] = disk[l])
      /\ \A c \in Buf \ {b} : b_data'[c] = b_data[c]
  BY <1>0, <1>3
<1>5. ASSUME NEW c \in Buf \ {b} PROVE Keeps(c)
  BY <1>0, StayKeeps
<1>6. Valid(b) /\ Good(b)' /\ Live(b)'
  BY <1>1 DEF Valid, Bad, Good, Live
<1>7. b_blk'[b] = k
  BY <1>2
<1>8. Changes(b, k)
  BY <1>2, <1>4, <1>5, <1>6, <1>7 DEF Changes
<1> QED
  BY <1>0, <1>8, ChangeData

LEMMA StartData ==
  ASSUME BufInv, ValType, DataInv, NEW p \in Proc, MayWrite(p), Modify(p), NEW async,
         StartWrite(held[p], async), UNCHANGED <<disk, b_blk>>,
         \E r : req' = [req EXCEPT ![p] = r], held' = held \/ held' = [held EXCEPT ![p] = none]
  PROVE  DataInv'
<1>0. BufType /\ pc[p] = "held" /\ req[p].use # "bad"
  BY DEF BufInv, MayWrite, At
<1>1. PICK b \in Buf : b = held[p] /\ b # none
  BY <1>0, HeldIs, BufAssumption
<1>2. ~Bad(b_flags[b])
  BY <1>0, <1>1 DEF BufInv, HeldFits
<1>3. b_flags' = [b_flags EXCEPT ![b] = Started(@, async)] /\ io' = io \cup {b}
  BY <1>1 DEF StartWrite
<1>4. b_flags'[b] = Started(b_flags[b], async) /\ \A c \in Buf \ {b} : b_flags'[c] = b_flags[c]
  BY <1>0, <1>3 DEF BufType
<1>5. "INVAL" \notin b_flags'[b] /\ "ERROR" \notin b_flags'[b] /\ "READ" \notin b_flags'[b]
  BY <1>2, <1>4 DEF Bad, Started
<1>6. Writing(b)' /\ \A c \in Buf \ {b} : c \in io' <=> c \in io
  BY <1>3, <1>5 DEF Writing
<1>7. Stays(p, b)
  BY <1>0, <1>1, StaysIs
<1> QED
  BY <1>1, <1>4, <1>5, <1>6, <1>7, ModifyData

LEMMA BwriteData ==
  ASSUME BufInv, ValType, DataInv, NEW p \in Proc, bwrite(p) \/ bawrite(p)
  PROVE  DataInv'
<1>1. /\ MayWrite(p) /\ Modify(p) /\ UNCHANGED <<disk, b_blk>>
      /\ \E async : StartWrite(held[p], async)
      /\ held' = held \/ held' = [held EXCEPT ![p] = none]
  BY DEF bwrite, bawrite, Done
<1>2. \E r : req' = [req EXCEPT ![p] = r]
  <2>1. CASE bawrite(p)
    BY <2>1 DEF bawrite, Done
  <2>2. CASE bwrite(p)
    <3>1. req' = [req EXCEPT ![p].use = "bwrite"]
      BY <2>2 DEF bwrite
    <3>2. req' = [req EXCEPT ![p] = [req[p] EXCEPT !.use = "bwrite"]]
      BY <3>1
    <3> QED
      BY <3>2
  <2> QED
    BY <2>1, <2>2
<1> QED
  BY <1>1, <1>2, StartData

LEMMA BdwriteData ==
  ASSUME BufInv, ValType, DataInv, NEW p \in Proc, bdwrite(p)
  PROVE  DataInv'
<1>0. BufType /\ pc[p] = "held" /\ req[p].use # "bad" /\ MayWrite(p) /\ Modify(p)
  BY DEF BufInv, bdwrite, MayWrite, At
<1>1. PICK b \in Buf : b = held[p] /\ b # none
  BY <1>0, HeldIs, BufAssumption
<1> DEFINE fl == (b_flags[b] \ {"READ", "DONE"}) \cup {"DIRTY", "DELWRI"}
<1>2. ~Bad(fl) /\ "INVAL" \notin fl /\ "ERROR" \notin fl /\ "DELWRI" \in fl
  BY <1>0, <1>1 DEF BufInv, HeldFits, Bad
<1>3. /\ b_flags' = [b_flags EXCEPT ![b] = RelFlags(fl)] /\ UNCHANGED <<b_blk, io, disk>>
      /\ held' = [held EXCEPT ![p] = none] /\ req' = [req EXCEPT ![p] = NoReq]
  BY <1>1 DEF bdwrite, Done
<1> HIDE DEF fl
<1>4. b_flags'[b] = RelFlags(fl) /\ \A c \in Buf \ {b} : b_flags'[c] = b_flags[c]
  BY <1>0, <1>3 DEF BufType
<1>5. "INVAL" \notin b_flags'[b] /\ "ERROR" \notin b_flags'[b] /\ "DELWRI" \in b_flags'[b]
  BY <1>2, <1>4, RelFlagsKeep
<1>6. Delayed(b)'
  BY <1>5 DEF Delayed
<1>7. Stays(p, b)
  BY <1>0, <1>1, <1>3, StaysIs
<1> QED
  BY <1>0, <1>1, <1>3, <1>4, <1>5, <1>6, <1>7, ModifyData

\* vflushbuf() starts a delayed write.
LEMMA FlushOneData ==
  ASSUME BufInv, DataInv, NEW p \in Proc, flush_one(p) PROVE DataInv'
<1>0. BufType /\ (\A c \in Buf : Good(c)) /\ UNCHANGED <<b_data, disk, latest>>
  BY DEF BufInv, DataInv, flush_one, vals
<1>1. PICK b \in Idle(OnVnode(req[p].blk, "dirty")) :
        b_flags' = PushedFlags({b}) /\ io' = io \cup {b} /\ UNCHANGED <<b_blk, held, req>>
  BY DEF flush_one
<1>2. b \in Buf /\ "BUSY" \notin b_flags[b] /\ b_list[b] = "dirty" /\ BufFits(b)
  BY <1>1 DEF Idle, OnVnode, BufInv
<1>3. Delayed(b)
  BY <1>2 DEF BufFits
<1>4. /\ b_flags'[b] = Started(b_flags[b] \cup {"BUSY"}, TRUE)
      /\ \A c \in Buf \ {b} : b_flags'[c] = b_flags[c]
  BY <1>1, <1>2 DEF PushedFlags
<1>5. Stays(p, b)
  BY <1>0, <1>1, StaysIs
<1>6. Keeps(b)
  BY <1>1, <1>2, <1>3, <1>4, PushKeeps
<1>7. ASSUME NEW c \in Buf \ {b} PROVE Keeps(c)
  BY <1>0, <1>1, <1>4, <1>5, StayKeeps
<1> QED
  BY <1>0, <1>2, <1>6, <1>7, CalmData

LEMMA InvalBusyData ==
  ASSUME BufInv, DataInv, NEW p \in Proc, inval_busy(p) PROVE DataInv'
<1>0. BufType /\ (\A c \in Buf : Good(c)) /\ SameVers /\ pc[p] = "inval"
  BY DEF BufInv, DataInv, inval_busy, vals, SameVers, At
<1>1. PICK b \in Turn(p) : /\ b_flags' = [b_flags EXCEPT ![b] = @ \cup {"WANTED"}]
                           /\ UNCHANGED <<b_blk, io, req, held>>
  BY DEF inval_busy
<1>2. b \in Buf
  BY <1>0, TurnIs
<1>3. b_flags'[b] = b_flags[b] \cup {"WANTED"} /\ \A c \in Buf \ {b} : b_flags'[c] = b_flags[c]
  BY <1>0, <1>1, <1>2 DEF BufType
<1>4. Stays(p, b)
  BY <1>0, <1>1, StaysIs
<1>5. \A f \in {"INVAL", "ERROR", "DELWRI", "READ"} : f \in b_flags'[b] <=> f \in b_flags[b]
  BY <1>3
<1>6. \A q \in Owners(b) : held'[q] = b /\ req'[q] = req[q]
  BY <1>1 DEF Owners
<1>7. Keeps(b)
  BY <1>0, <1>1, <1>2, <1>5, <1>6, FlagKeeps
<1> QED
  BY <1>0, <1>1, <1>2, <1>3, <1>4, <1>7, MarkData

LEMMA InvalSaveData ==
  ASSUME BufInv, DataInv, NEW p \in Proc, inval_save(p) PROVE DataInv'
<1>0. BufType /\ (\A c \in Buf : Good(c)) /\ UNCHANGED <<b_data, disk, latest>> /\ pc[p] = "inval"
  BY DEF BufInv, DataInv, inval_save, vals, At
<1>1. PICK b \in Idle(Turn(p)) :
        /\ Delayed(b) /\ b_flags' = [b_flags EXCEPT ![b] = Started(@ \cup {"BUSY"}, FALSE)]
        /\ io' = io \cup {b} /\ b_blk' = b_blk
        /\ held' = [held EXCEPT ![p] = b] /\ req' = [req EXCEPT ![p] = [use |-> "ibwrite", blk |-> b_blk[b]]]
  BY DEF inval_save
<1>2. b \in Buf /\ b_blk[b] # none /\ "BUSY" \notin b_flags[b]
  BY <1>0, <1>1, TurnIs DEF Idle
<1>3. (\A q \in Proc : held[q] # b) /\ b \notin io /\ ~Bad(b_flags[b])
  BY <1>2, FreeUnowned
<1>4. b_flags'[b] = Started(b_flags[b] \cup {"BUSY"}, FALSE) /\ \A c \in Buf \ {b} : b_flags'[c] = b_flags[c]
  BY <1>0, <1>1, <1>2 DEF BufType
<1>5. held[p] = none
  BY <1>0, NoneHeld
<1>6. Stays(p, b)
  BY <1>0, <1>1, <1>5, StaysIs
<1>7. Keeps(b)
  <2>1. Filled(b)
    BY <1>3 DEF Filled, Owners, Bad
  <2>2. Valid(b) /\ "READ" \notin b_flags'[b] /\ "DELWRI" \notin b_flags'[b] /\ "INVAL" \notin b_flags'[b]
    BY <1>3, <1>4 DEF Valid, Bad, Started
  <2>3. Live(b)' /\ Good(b)'
    BY <1>1, <2>2 DEF Live, Good, Valid, Writing, Delayed
  <2> QED
    BY <1>1, <2>1, <2>2, <2>3 DEF Keeps
<1>8. ASSUME NEW c \in Buf \ {b} PROVE Keeps(c)
  BY <1>0, <1>1, <1>4, <1>6, StayKeeps
<1> QED
  BY <1>0, <1>2, <1>7, <1>8, CalmData

LEMMA InvalDropData ==
  ASSUME BufInv, ValType, DataInv, NEW p \in Proc, inval_drop(p) PROVE DataInv'
<1>0. BufType /\ pc[p] = "inval"
  BY DEF BufInv, inval_drop, At
<1>1. PICK b \in Idle(Turn(p)) :
        /\ b_blk' = [b_blk EXCEPT ![b] = none] /\ b_flags' = [b_flags EXCEPT ![b] = {"INVAL"}]
        /\ Forget(b, {"INVAL"}) /\ UNCHANGED <<b_data, disk, io, held, req>>
  BY DEF inval_drop
<1>2. b \in Buf /\ b_blk[b] # none /\ "BUSY" \notin b_flags[b]
  BY <1>0, <1>1, TurnIs DEF Idle
<1>3. ~Bad(b_flags[b]) /\ b \notin io
  BY <1>2, FreeUnowned
<1>4. BackToDisk(b_blk[b])
  BY <1>1, <1>3 DEF Forget, Bad
<1>5. /\ b_flags'[b] = {"INVAL"} /\ b_blk'[b] = none
      /\ \A c \in Buf \ {b} : b_flags'[c] = b_flags[c] /\ b_blk'[c] = b_blk[c]
  BY <1>0, <1>1, <1>2 DEF BufType
<1>6. Stays(p, b)
  BY <1>0, <1>1, StaysIs
<1> QED
  BY <1>1, <1>2, <1>3, <1>4, <1>5, <1>6, DropData

\* The interrupt.  What was written is the last version, and what was read too, since
\* nothing of the block was to be written.
LEMMA BiodoneData ==
  ASSUME BufInv, ValType, DataInv, NEW b \in Buf, NEW ok \in BOOLEAN, biodone(b, ok)
  PROVE  DataInv'
<1> DEFINE fl == IoFlags(b, ok)
           F == ((IF "ASYNC" \in fl THEN RelFlags(fl) ELSE fl) \ {"ASYNC"}) \cup {"DONE"}
           writes == "READ" \notin b_flags[b]
<1>0. /\ BufType /\ b \in io /\ (\A c \in Buf : Good(c)) /\ OneBuffer /\ Coherent /\ (\A k \in Block : Backed(k))
      /\ disk \in [Block -> Ver] /\ latest \in [Block -> Ver] /\ b_data \in [Buf -> Ver]
  BY DEF BufInv, DataInv, ValType, biodone
<1>1. /\ b_blk[b] \in Block /\ b_blk[b] # none /\ BufFits(b) /\ fl \in SUBSET Flags
      /\ (\A f \in Flags \ {"ERROR", "DIRTY"} : f \in fl <=> f \in b_flags[b]) /\ ("ERROR" \in fl <=> ~ok)
      /\ b_flags[b] \cap {"INVAL", "ERROR", "DELWRI", "DONE"} = {}
      /\ (IF writes THEN "DIRTY" \in b_flags[b] ELSE TRUE)
  BY <1>0, IoFlagsAre
<1>2. PICK k \in Block : k = b_blk[b] /\ k # none
  BY <1>1
<1>3. /\ io' = io \ {b} /\ b_flags' = [b_flags EXCEPT ![b] = F]
      /\ disk' = IF writes /\ ok THEN [disk EXCEPT ![k] = b_data[b]] ELSE disk
      /\ b_data' = IF ~writes /\ ok THEN [b_data EXCEPT ![b] = disk[k]] ELSE b_data
      /\ b_blk' = IF "ASYNC" \in fl /\ Bad(fl) THEN [b_blk EXCEPT ![b] = none] ELSE b_blk
      /\ IF ok THEN latest' = latest ELSE BackToDisk(k)
      /\ UNCHANGED <<held, req>>
  BY <1>1, <1>2 DEF biodone, Requeue, IoFlags
<1>4. "INVAL" \notin fl /\ "DELWRI" \notin fl /\ (Bad(fl) <=> ~ok)
  <2>1. "INVAL" \in Flags \ {"ERROR", "DIRTY"} /\ "DELWRI" \in Flags \ {"ERROR", "DIRTY"}
    BY DEF Flags
  <2> HIDE DEF fl
  <2> QED
    BY <1>1, <2>1 DEF Bad
<1>5. "DELWRI" \notin F /\ (~ok => "ERROR" \in F \/ "INVAL" \in F)
  <2> HIDE DEF fl
  <2>1. "DELWRI" \notin RelFlags(fl)
    BY <1>4 DEF RelFlags
  <2>2. Bad(fl) => RelFlags(fl) = {"INVAL"}
    BY DEF RelFlags
  <2> QED
    BY <1>1, <1>4, <2>1, <2>2
<1>6. "ASYNC" \in fl \/ "ASYNC" \notin fl
  OBVIOUS
<1> HIDE DEF F, fl
<1>7. b_flags'[b] = F /\ \A c \in Buf \ {b} : b_flags'[c] = b_flags[c] /\ b_blk'[c] = b_blk[c] /\ (c \in io' <=> c \in io)
  BY <1>0, <1>3 DEF BufType
<1>8. b_blk'[b] \in {k, none}
  BY <1>0, <1>2, <1>3 DEF BufType
<1>9. b \in Buf /\ Valid(b) /\ Good(b)' /\ ~Delayed(b)
  BY <1>1, <1>5, <1>7 DEF Valid, Good, Delayed
<1>10. ASSUME NEW c \in Buf \ {b} PROVE Keeps(c) /\ b_data'[c] = b_data[c]
  <2>1. PICK p \in Proc : TRUE
    BY BufAssumption
  <2>2. Stays(p, b) /\ Good(c)
    BY <1>0, <1>3 DEF Stays
  <2>3. Keeps(c)
    BY <1>7, <2>2, StayKeeps
  <2> QED
    BY <1>0, <1>3, <2>3
<1>11. \A l \in Block \ {k} : latest'[l] = latest[l] /\ disk'[l] = disk[l]
  BY <1>0, <1>3 DEF BackToDisk
<1>12. CASE ~ok
  <2>1. latest'[k] = disk'[k]
    BY <1>0, <1>3, <1>12 DEF BackToDisk
  <2>2. ~Filled(b)'
    BY <1>5, <1>7, <1>12 DEF Filled
  <2>3. Changes(b, k)
    BY <1>2, <1>8, <1>9, <1>10, <1>11, <2>1, <2>2 DEF Changes
  <2> QED
    BY <1>0, <2>3, ChangeData
<1>13. CASE ok /\ writes
  <2>1. Filled(b)
    <3>1. ASSUME NEW q \in Owners(b) PROVE req[q].use # "getblk"
      <4>1. q \in Proc /\ held[q] = b /\ held[q] # none /\ ReqFits(q) /\ HeldFits(q)
        BY BufAssumption DEF Owners, BufInv
      <4>2. pc[q] \in Holding
        BY <4>1 DEF ReqFits
      <4>3. pc[q] # "alloc" /\ pc[q] # "held"
        BY <1>0, <1>1, <4>1 DEF HeldFits
      <4> QED
        BY <4>1, <4>2, <4>3 DEF ReqFits, Holding
    <3> QED
      BY <1>1, <1>13, <3>1 DEF Filled
  <2>2. b_data[b] = latest[k]
    BY <1>0, <1>2, <2>1 DEF Coherent
  <2>3. latest'[k] = disk'[k] /\ b_data'[b] = latest'[k]
    BY <1>0, <1>3, <1>13, <2>2
  <2>4. Changes(b, k)
    BY <1>2, <1>8, <1>9, <1>10, <1>11, <2>3 DEF Changes
  <2> QED
    BY <1>0, <2>4, ChangeData
<1>14. CASE ok /\ ~writes
  <2>1. latest[k] = disk[k]
    <3> SUFFICES ASSUME latest[k] # disk[k] PROVE FALSE
      OBVIOUS
    <3>1. PICK c \in Buf : b_blk[c] = k /\ Live(c)
      BY <1>0 DEF Backed
    <3>2. c = b
      BY <1>0, <1>2, <1>9, <3>1 DEF OneBuffer, Live
    <3> QED
      BY <1>9, <1>14, <3>1, <3>2 DEF Live, Writing
  <2>2. latest'[k] = disk'[k] /\ b_data'[b] = latest'[k]
    BY <1>0, <1>3, <1>14, <2>1
  <2>3. Changes(b, k)
    BY <1>2, <1>8, <1>9, <1>10, <1>11, <2>2 DEF Changes
  <2> QED
    BY <1>0, <2>3, ChangeData
<1> QED
  BY <1>12, <1>13, <1>14

\* Only getnewbuf() sleeps in allocbuf(), and not with blocks of one size.
LEMMA NeverSleepsStep ==
  ASSUME OneSize, BufInv, NeverSleepsInAlloc, [Next]_vars
  PROVE  NeverSleepsInAlloc'
<1>0. /\ BufType /\ (\A p \in Proc : pc[p] # "alloc")
      /\ (\A b \in Buf : b_bufsize[b] = 0 \/ \E k \in Block : b_bufsize[b] = SizeOf[k])
      /\ \A j, k \in Block : SizeOf[j] = SizeOf[k]
  BY DEF BufInv, NeverSleepsInAlloc, OneSize
<1>1. \A b \in Buf : b_bufsize'[b] = 0 \/ \E k \in Block : b_bufsize'[b] = SizeOf[k]
  <2>1. CASE SameSpace
    BY <1>0, <2>1 DEF SameSpace
  <2>2. CASE \E b \in Buf, k \in Block : Resize(b, k)
    <3>1. PICK b \in Buf, k \in Block : b_bufsize' = [b_bufsize EXCEPT ![b] = SizeOf[k]]
      BY <2>2 DEF Resize
    <3>2. \A c \in Buf : b_bufsize'[c] = b_bufsize[c] \/ b_bufsize'[c] = SizeOf[k]
      BY <3>1
    <3> QED
      BY <1>0, <3>2
  <2> QED
    BY <2>1, <2>2, SpaceNext
<1>2. ASSUME NEW p \in Proc, NEW place, pc' = [pc EXCEPT ![p] = place], place # "alloc"
      PROVE  \A q \in Proc : pc'[q] # "alloc"
  BY <1>0, <1>2 DEF BufType
<1>3. ASSUME NEW p \in Proc, NEW k \in Block, NEW use \in {"bread", "breada", "getblk"}, getblk(p, k, use)
      PROVE  \A q \in Proc : pc'[q] # "alloc"
  <2>1. CASE hit_busy(p, k)
    BY <1>2, <2>1 DEF hit_busy, Go
  <2>2. CASE hit_free(p, k, use)
    <3>1. PICK b \in Buf, F \in SUBSET Flags : HitFreeDoes(p, k, use, b, F)
      BY <2>2, HitFreeIs
    <3> QED
      BY <1>2, <3>1 DEF HitFreeDoes
  <2>3. CASE getnewbuf(p, k, use)
    <3>1. PICK b \in Buf, S \in SUBSET Buf, F \in SUBSET Flags, x \in {"none", "clean"}, y \in Block \cup {none} :
            \E I \in SUBSET {b}, place \in Places : GetnewbufDoes(p, k, use, b, S, F, x, y, I, place)
      BY <2>3, GetnewbufIs
    <3>2. PICK I \in SUBSET {b}, place \in Places : GetnewbufDoes(p, k, use, b, S, F, x, y, I, place)
      BY <3>1
    <3>3. ~MaySleep(b, k)
      BY <1>0 DEF MaySleep
    <3>4. pc' = [pc EXCEPT ![p] = place] /\ place # "alloc"
      BY <3>2, <3>3 DEF GetnewbufDoes
    <3> QED
      BY <1>2, <3>4
  <2>4. CASE nobuf(p, "getblk", SizeOf[k])
    BY <1>2, <2>4 DEF nobuf, Go
  <2> QED
    BY <1>3, <2>1, <2>2, <2>3, <2>4 DEF getblk
<1>4. ASSUME NEW p \in Proc, getblk_again(p) PROVE \A q \in Proc : pc'[q] # "alloc"
  <2>1. req[p].blk \in Block /\ req[p].use \in {"bread", "breada", "getblk"}
    BY <1>4 DEF getblk_again, At, BufInv, ReqFits, Holding
  <2> QED
    BY <1>3, <1>4, <2>1 DEF getblk_again
<1>5. ASSUME NEW p \in Proc, NEW k \in Block, breada(p, k) PROVE \A q \in Proc : pc'[q] # "alloc"
  <2>1. pc' = [pc EXCEPT ![p] = Waits(p)] \/ pc' = [pc EXCEPT ![p] = pc[p]]
    BY <1>5 DEF breada, ra_miss, ra_hit, nobuf, Go
  <2>2. Waits(p) # "alloc" /\ pc[p] # "alloc"
    BY <1>0 DEF Waits
  <2> QED
    BY <1>2, <2>1, <2>2
<1>6. ASSUME NEW p \in Proc, Resume(p) \/ Release(p), ~getblk_again(p), ~\E k \in Block : breada(p, k)
      PROVE  \A q \in Proc : pc'[q] # "alloc"
  <2>1. CASE \/ biowait_sleep(p) \/ flush_one(p) \/ inval_busy(p) \/ inval_drop(p)
    <3>1. pc' = pc
      BY <2>1 DEF biowait_sleep, flush_one, inval_busy, inval_drop
    <3> QED
      BY <1>0, <3>1
  <2>2. CASE getblk_alloc(p)
    BY <1>0, <2>2 DEF getblk_alloc, At
  <2>3. CASE bread_done(p) \/ bwrite_done(p) \/ inval_save(p)
    <3>1. \/ pc' = [pc EXCEPT ![p] = "held"] \/ pc' = [pc EXCEPT ![p] = "idle"]
          \/ pc' = [pc EXCEPT ![p] = "inval"] \/ pc' = [pc EXCEPT ![p] = "biowait"]
      BY <2>3 DEF bread_done, bwrite_done, inval_save, Go
    <3> QED
      BY <1>2, <3>1
  <2>4. CASE flush_return(p) \/ flush_wait(p) \/ flush_check(p) \/ inval_return(p)
    <3>1. \/ pc' = [pc EXCEPT ![p] = "idle"] \/ pc' = [pc EXCEPT ![p] = "flush"]
          \/ pc' = [pc EXCEPT ![p] = "flushw"]
      BY <2>4 DEF flush_return, flush_wait, flush_check, inval_return, Return, Done, Go
    <3> QED
      BY <1>2, <3>1
  <2>5. CASE Release(p)
    <3>1. pc' = [pc EXCEPT ![p] = "idle"] \/ pc' = [pc EXCEPT ![p] = "biowait"]
      BY <2>5 DEF Release, brelse_held, bwrite, bawrite, bdwrite, Done, Go
    <3> QED
      BY <1>2, <3>1
  <2> QED
    BY <1>6, <2>1, <2>2, <2>3, <2>4, <2>5 DEF Resume
<1>7. ASSUME NEW p \in Proc, NEW v \in Vnode, NEW use, vflushbuf(p, v, use) \/ vinvalbuf(p, v, use)
      PROVE  \A q \in Proc : pc'[q] # "alloc"
  BY <1>2, <1>7 DEF vflushbuf, vinvalbuf, Go
<1>8. ASSUME NEW b \in Buf, NEW ok \in BOOLEAN, biodone(b, ok) PROVE \A q \in Proc : pc'[q] # "alloc"
  BY <1>0, <1>8 DEF biodone
<1>9. ASSUME UNCHANGED vars PROVE \A q \in Proc : pc'[q] # "alloc"
  <2>1. pc' = pc
    BY <1>9 DEF vars
  <2> QED
    BY <1>0, <2>1
<1>10. ASSUME NEW p \in Proc, Resume(p) \/ Release(p) PROVE \A q \in Proc : pc'[q] # "alloc"
  BY <1>4, <1>5, <1>6, <1>10
<1>11. ASSUME NEW p \in Proc, NEW k \in Block, NEW use \in Uses \cap {"bread", "breada", "getblk"}, getblk_start(p, k, use)
       PROVE  \A q \in Proc : pc'[q] # "alloc"
  BY <1>3, <1>11 DEF getblk_start
<1>12. \A q \in Proc : pc'[q] # "alloc"
  <2>1. \/ UNCHANGED vars
        \/ \E p \in Proc, k \in Block, use \in Uses \cap {"bread", "breada", "getblk"} : getblk_start(p, k, use)
        \/ \E p \in Proc, v \in Vnode, use \in Uses : vflushbuf(p, v, use) \/ vinvalbuf(p, v, use)
        \/ \E p \in Proc : Resume(p) \/ Release(p)
        \/ \E b \in Buf, ok \in BOOLEAN : biodone(b, ok)
    BY DEF Next
  <2> QED
    BY <1>7, <1>8, <1>9, <1>10, <1>11, <2>1
<1>13. ASSUME NEW p \in Proc PROVE (pc[p] # "alloc")'
  BY <1>12
<1>14. ASSUME NEW b \in Buf PROVE (b_bufsize[b] = 0 \/ \E k \in Block : b_bufsize[b] = SizeOf[k])'
  BY <1>1
<1> QED
  BY <1>13, <1>14 DEF NeverSleepsInAlloc

\* The data invariant is inductive.
LEMMA DataResume ==
  ASSUME OneSize, NeverSleepsInAlloc, BufInv, ValType, DataInv, NEW p \in Proc, Resume(p)
  PROVE  DataInv'
<1>1. CASE getblk_again(p)
  <2>1. req[p].blk \in Block /\ req[p].use \in {"bread", "breada", "getblk"} /\ pc[p] = "getblk"
    BY <1>1 DEF getblk_again, At, BufInv, ReqFits
  <2> QED
    BY <1>1, <2>1, GetblkData DEF getblk_again
<1>2. CASE getblk_alloc(p)
  BY <1>2 DEF getblk_alloc, At, NeverSleepsInAlloc
<1>3. CASE biowait_sleep(p)
  <2>1. SameVers /\ UNCHANGED <<b_flags, b_blk, io>> /\ held' = held /\ req' = req
    BY <1>3 DEF biowait_sleep, SameVers, bufs, vals
  <2> QED
    BY <2>1, IdleData
<1>4. CASE flush_return(p) \/ flush_wait(p) \/ flush_check(p) \/ inval_return(p)
  <2>1. SameVers /\ UNCHANGED <<b_flags, b_blk, io>>
    BY <1>4 DEF flush_return, flush_wait, flush_check, inval_return, SameVers, bufs, vals
  <2>2. held[p] = none
    <3>1. pc[p] \in {"flush", "flushw", "inval"}
      BY <1>4 DEF flush_return, flush_wait, flush_check, inval_return, At
    <3> QED
      BY <3>1, NoneHeld
  <2>3. \/ held' = held /\ req' = req
        \/ held' = [held EXCEPT ![p] = none] /\ req' = [req EXCEPT ![p] = NoReq]
    BY <1>4 DEF flush_return, flush_wait, flush_check, inval_return, Return, Done
  <2> QED
    BY <2>1, <2>2, <2>3, IdleData
<1> QED
  BY <1>1, <1>2, <1>3, <1>4, BreadaData, BreadDoneData, BwriteDoneData, FlushOneData, InvalBusyData,
     InvalSaveData, InvalDropData DEF Resume

LEMMA DataNext ==
  ASSUME OneSize, NeverSleepsInAlloc, BufInv, ValType, DataInv, [Next]_vars
  PROVE  DataInv'
<1>1. ASSUME NEW p \in Proc, NEW k \in Block, NEW use \in Uses \cap {"bread", "breada", "getblk"},
             getblk_start(p, k, use)
      PROVE  DataInv'
  BY <1>1, GetblkData DEF getblk_start, At
<1>2. ASSUME NEW p \in Proc, NEW v \in Vnode, NEW use, vflushbuf(p, v, use) \/ vinvalbuf(p, v, use)
      PROVE  DataInv'
  <2>1. SameVers /\ UNCHANGED <<b_flags, b_blk, io>> /\ held' = held /\ pc[p] = "idle"
    BY <1>2 DEF vflushbuf, vinvalbuf, SameVers, bufs, vals, At
  <2>2. req' = [req EXCEPT ![p] = [use |-> use, blk |-> v]]
    BY <1>2 DEF vflushbuf, vinvalbuf
  <2>3. held[p] = none
    BY <2>1, NoneHeld
  <2> QED
    BY <2>1, <2>2, <2>3, IdleData
<1>3. ASSUME NEW p \in Proc, Release(p) PROVE DataInv'
  BY <1>3, BrelseHeldData, BwriteData, BdwriteData DEF Release
<1>4. CASE UNCHANGED vars
  <2>1. SameVers /\ UNCHANGED <<b_flags, b_blk, io>> /\ held' = held /\ req' = req
    BY <1>4 DEF vars, SameVers, bufs, vals
  <2>2. PICK p \in Proc : TRUE
    BY BufAssumption
  <2> QED
    BY <2>1, <2>2, IdleData
<1> QED
  BY <1>1, <1>2, <1>3, <1>4, DataResume, BiodoneData DEF Next

\* What a synchronous flush has to write follows the versions.
FlushKept == \A p \in Proc :
  pc'[p] \in {"flush", "flushw"} => pc[p] \in {"flush", "flushw"} /\ req'[p] = req[p]
DueFollows == \A p \in Proc, k \in Block :
  due'[p][k] <= latest'[k] /\ (due[p][k] = 0 => due'[p][k] = 0)

LEMMA DueKeep == ASSUME DueFits, FlushKept, DueFollows PROVE DueFits'
<1>1. ASSUME NEW p \in Proc, NEW k \in Block, pc'[p] \in {"flush", "flushw"}, req'[p].use = "sync", VnodeOf[k] # req'[p].blk
      PROVE  due'[p][k] = 0
  <2>1. pc[p] \in {"flush", "flushw"} /\ req'[p] = req[p]
    BY <1>1 DEF FlushKept
  <2> QED
    BY <1>1, <2>1 DEF DueFits, DueFollows
<1> QED
  BY <1>1 DEF DueFits, DueFollows

\* A lost version is due no more.
LEMMA BackToDiskDue ==
  ASSUME ValType, DueFits, NEW k \in Block, BackToDisk(k)
  PROVE  DueFollows
<1> SUFFICES ASSUME NEW p \in Proc, NEW l \in Block
             PROVE  due'[p][l] <= latest'[l] /\ (due[p][l] = 0 => due'[p][l] = 0)
  BY DEF DueFollows
<1>1. /\ disk[k] \in Nat /\ due[p][l] \in Nat /\ latest[l] \in Nat /\ due[p][l] <= latest[l]
      /\ latest \in [Block -> Ver] /\ due[p] \in [Block -> Ver]
  BY BufAssumption DEF ValType, Ver, DueFits
<1>2. latest'[l] = IF l = k THEN disk[k] ELSE latest[l]
  BY <1>1 DEF BackToDisk
<1>3. due'[p] = [due[p] EXCEPT ![k] = IF @ > disk[k] THEN disk[k] ELSE @]
  BY DEF BackToDisk
<1>4. due'[p][l] = IF l = k THEN (IF due[p][k] > disk[k] THEN disk[k] ELSE due[p][k]) ELSE due[p][l]
  BY <1>1, <1>3
<1> QED
  BY <1>1, <1>2, <1>4

LEMMA ForgetDue ==
  ASSUME BufInv, ValType, DueFits, NEW b \in Buf, NEW fl, b_blk[b] # none, Forget(b, fl)
  PROVE  DueFollows
<1>1. b_blk[b] \in Block
  BY DEF BufInv, BufType
<1>2. CASE BackToDisk(b_blk[b])
  BY <1>1, <1>2, BackToDiskDue
<1>3. CASE UNCHANGED <<latest, due>>
  BY <1>3 DEF DueFits, DueFollows
<1> QED
  BY <1>2, <1>3 DEF Forget

LEMMA ModifyDue ==
  ASSUME BufInv, ValType, DueFits, NEW p \in Proc, MayWrite(p), Modify(p), due' = due
  PROVE  DueFollows
<1>1. req[p].blk \in Block
  BY HeldHas DEF MayWrite, At
<1>2. ASSUME NEW q \in Proc, NEW k \in Block PROVE due'[q][k] <= latest'[k] /\ (due[q][k] = 0 => due'[q][k] = 0)
  <2>1. latest[k] \in Nat /\ due[q][k] \in Nat /\ due[q][k] <= latest[k]
    BY BufAssumption DEF ValType, Ver, DueFits
  <2>2. latest'[k] = latest[k] \/ latest'[k] = latest[k] + 1
    BY <1>1 DEF Modify, ValType
  <2> QED
    BY <2>1, <2>2
<1> QED
  BY <1>2 DEF DueFollows

\* The step of p does not lead it into a flush.
LEMMA FlushKeptBy ==
  ASSUME BufType, NEW p \in Proc, NEW place, pc' = [pc EXCEPT ![p] = place],
         \A q \in Proc \ {p} : req'[q] = req[q],
         place \in {"flush", "flushw"} => pc[p] \in {"flush", "flushw"} /\ req'[p] = req[p]
  PROVE  FlushKept
BY DEF FlushKept, BufType

\* Where getblk() leaves the process.
GetblkGoes(p) == \/ Go(p, "getblk") \/ Go(p, "alloc") \/ Go(p, "reada") \/ Go(p, "reada_hit")
                 \/ Go(p, "biowait") \/ Go(p, "held")

LEMMA DeliverGoes ==
  ASSUME NEW p, NEW b, NEW fl, NEW S, NEW use, Deliver(p, b, fl, S, use)
  PROVE  GetblkGoes(p)
<1> DEFINE reads == Reads(use, fl)
<1>1. pc' = [pc EXCEPT ![p] = CASE use = "breada" -> IF reads THEN "reada" ELSE "reada_hit"
                                [] use # "breada" /\ reads -> "biowait"
                                [] OTHER -> "held"]
  BY DEF Deliver, Go
<1> HIDE DEF reads
<1> QED
  BY <1>1 DEF GetblkGoes, Go

LEMMA GetblkPlace ==
  ASSUME NEW p, NEW k, NEW use, getblk(p, k, use)
  PROVE  GetblkGoes(p)
<1>1. CASE hit_busy(p, k) \/ nobuf(p, "getblk", SizeOf[k])
  BY <1>1 DEF hit_busy, nobuf, GetblkGoes
<1>2. CASE hit_free(p, k, use)
  BY <1>2, DeliverGoes DEF hit_free
<1>3. CASE getnewbuf(p, k, use)
  <2>1. PICK b \in Buf, S \in {PushedBy(n) : n \in 0 .. Len(Queue)} :
          Deliver(p, b, {"BUSY"}, S, use) \/ Go(p, "alloc")
    BY <1>3 DEF getnewbuf
  <2> QED
    BY <2>1, DeliverGoes DEF GetblkGoes
<1> QED
  BY <1>1, <1>2, <1>3 DEF getblk

LEMMA GetblkKept ==
  ASSUME BufType, NEW p \in Proc, GetblkGoes(p), \A q \in Proc \ {p} : req'[q] = req[q]
  PROVE  FlushKept
BY FlushKeptBy DEF GetblkGoes, Go

LEMMA GetblkDue ==
  ASSUME BufType, DueFits, NEW p \in Proc, NEW k, NEW use, getblk(p, k, use)
  PROVE  DueFits'
<1>1. latest' = latest /\ due' = due /\ req' = [req EXCEPT ![p] = [use |-> use, blk |-> k]]
  BY DEF getblk, vals
<1>2. \A q \in Proc \ {p} : req'[q] = req[q]
  BY <1>1 DEF BufType
<1>3. FlushKept
  BY <1>2, GetblkPlace, GetblkKept
<1>4. DueFollows
  BY <1>1 DEF DueFits, DueFollows
<1> QED
  BY <1>3, <1>4, DueKeep

\* The steps of the loops, and those that leave where the process is alone.
LEMMA DueFlush ==
  ASSUME BufInv, ValType, DueFits, NEW p \in Proc, flush_return(p) \/ flush_wait(p) \/ flush_check(p)
  PROVE  DueFits'
<1>0. BufType /\ latest' = latest /\ pc[p] \in {"flush", "flushw"}
  BY DEF BufInv, flush_return, flush_wait, flush_check, At, vals
<1>1. \/ Return(p)
      \/ due' = due /\ req' = req /\ (Go(p, "flush") \/ Go(p, "flushw"))
  BY DEF flush_return, flush_wait, flush_check, vals
<1>2. CASE Return(p)
  <2>1. pc' = [pc EXCEPT ![p] = "idle"] /\ req' = [req EXCEPT ![p] = NoReq] /\ due' = [due EXCEPT ![p] = [k \in Block |-> 0]]
    BY <1>2 DEF Return, Done, Go
  <2>2. \A q \in Proc \ {p} : req'[q] = req[q]
    BY <1>0, <2>1 DEF BufType
  <2>3. FlushKept
    BY <1>0, <2>1, <2>2, FlushKeptBy
  <2>4. ASSUME NEW q \in Proc, NEW k \in Block PROVE due'[q][k] <= latest'[k] /\ (due[q][k] = 0 => due'[q][k] = 0)
    <3>1. latest[k] \in Nat /\ due[q][k] <= latest[k] /\ due \in [Proc -> [Block -> Ver]]
      BY BufAssumption DEF ValType, Ver, DueFits
    <3>2. due'[q][k] = 0 \/ due'[q][k] = due[q][k]
      BY <2>1, <3>1
    <3> QED
      BY <1>0, <3>1, <3>2
  <2>5. DueFollows
    BY <2>4 DEF DueFollows
  <2> QED
    BY <2>3, <2>5, DueKeep
<1>3. CASE due' = due /\ req' = req /\ (Go(p, "flush") \/ Go(p, "flushw"))
  <2>1. FlushKept
    BY <1>0, <1>3, FlushKeptBy DEF Go
  <2>2. DueFollows
    BY <1>0, <1>3 DEF DueFits, DueFollows
  <2> QED
    BY <2>1, <2>2, DueKeep
<1> QED
  BY <1>1, <1>2, <1>3

LEMMA DueResume ==
  ASSUME BufInv, ValType, DueFits, NEW p \in Proc, Resume(p)
  PROVE  DueFits'
<1>0. BufType
  BY DEF BufInv
<1>1. CASE getblk_again(p)
  BY <1>0, <1>1, GetblkDue DEF getblk_again
<1>2. CASE getblk_alloc(p)
  <2>1. latest' = latest /\ due' = due /\ req' = req
    BY <1>2 DEF getblk_alloc, vals
  <2>2. FlushKept
    BY <1>0, <1>2, <2>1, DeliverGoes, GetblkKept DEF getblk_alloc
  <2> QED
    BY <2>1, <2>2, DueKeep DEF DueFits, DueFollows
<1>3. CASE \/ biowait_sleep(p) \/ flush_one(p) \/ inval_busy(p)
  <2>1. UNCHANGED <<latest, due, pc, req>>
    BY <1>3 DEF biowait_sleep, flush_one, inval_busy, vals
  <2> QED
    BY <2>1 DEF DueFits
<1>4. CASE inval_drop(p)
  <2>1. PICK b \in Idle(Turn(p)) : Forget(b, {"INVAL"}) /\ UNCHANGED <<pc, req>>
    BY <1>4 DEF inval_drop
  <2>2. pc[p] = "inval" /\ b \in Turn(p)
    BY <1>4, <2>1 DEF inval_drop, At, Idle
  <2>3. b \in Buf /\ b_blk[b] # none
    BY <2>2, TurnIs
  <2>4. DueFollows
    BY <2>1, <2>3, ForgetDue
  <2>5. FlushKept
    BY <2>1 DEF FlushKept
  <2> QED
    BY <2>4, <2>5, DueKeep
<1>5. CASE bwrite_done(p)
  <2>1. /\ Forget(held[p], Result(held[p])) /\ pc[p] = "biowait"
        /\ pc' = [pc EXCEPT ![p] = "idle"] \/ pc' = [pc EXCEPT ![p] = "inval"]
        /\ \E r : req' = [req EXCEPT ![p] = r]
    BY <1>5 DEF bwrite_done, brelse, Go, At
  <2>2. DueFollows
    BY <2>1, HeldHas, ForgetDue
  <2>3. \A q \in Proc \ {p} : req'[q] = req[q]
    BY <1>0, <2>1 DEF BufType
  <2>4. FlushKept
    BY <1>0, <2>1, <2>3, FlushKeptBy
  <2> QED
    BY <2>2, <2>4, DueKeep
<1>6. CASE (\E k \in Block : breada(p, k)) \/ bread_done(p) \/ inval_save(p) \/ inval_return(p)
  <2>1. latest' = latest /\ due' = due
    BY <1>6 DEF breada, bread_done, inval_save, inval_return, vals
  <2>2. /\ \/ pc' = [pc EXCEPT ![p] = "held"] \/ pc' = [pc EXCEPT ![p] = "biowait"]
           \/ pc' = [pc EXCEPT ![p] = "idle"] \/ pc' = pc
        /\ \A q \in Proc \ {p} : req'[q] = req[q]
    <3>1. CASE \E k \in Block : breada(p, k)
      <4>1. req' = req /\ (pc' = [pc EXCEPT ![p] = Waits(p)] \/ pc' = [pc EXCEPT ![p] = pc[p]])
        BY <3>1 DEF breada, ra_miss, ra_hit, nobuf, Go
      <4> QED
        BY <1>0, <4>1 DEF Waits, BufType
    <3>2. CASE bread_done(p)
      BY <1>0, <3>2 DEF bread_done, Go, BufType
    <3>3. CASE inval_save(p)
      BY <1>0, <3>3 DEF inval_save, Go, BufType
    <3>4. CASE inval_return(p)
      BY <1>0, <3>4 DEF inval_return, Done, Go, BufType
    <3> QED
      BY <1>6, <3>1, <3>2, <3>3, <3>4
  <2>3. CASE pc' # pc
    <3>1. FlushKept
      BY <1>0, <2>2, <2>3, FlushKeptBy
    <3> QED
      BY <2>1, <3>1, DueKeep DEF DueFits, DueFollows
  <2>4. CASE pc' = pc
    <3>1. pc[p] \notin {"flush", "flushw"}
      BY <1>6 DEF breada, bread_done, inval_save, inval_return, At
    <3>2. FlushKept
      BY <2>2, <2>4, <3>1 DEF FlushKept
    <3> QED
      BY <2>1, <3>2, DueKeep DEF DueFits, DueFollows
  <2> QED
    BY <2>3, <2>4
<1> QED
  BY <1>1, <1>2, <1>3, <1>4, <1>5, <1>6, DueFlush DEF Resume

LEMMA DueRelease ==
  ASSUME BufInv, ValType, DueFits, NEW p \in Proc, Release(p)
  PROVE  DueFits'
<1>0. BufType /\ pc[p] = "held"
  BY DEF BufInv, Release, brelse_held, bwrite, bawrite, bdwrite, MayWrite, At
<1>1. DueFollows
  <2>1. CASE \E inval \in BOOLEAN : brelse_held(p, inval)
    BY <1>0, <2>1, HeldHas, ForgetDue DEF brelse_held, brelse
  <2>2. CASE bwrite(p) \/ bawrite(p) \/ bdwrite(p)
    BY <2>2, ModifyDue DEF bwrite, bawrite, bdwrite
  <2> QED
    BY <2>1, <2>2 DEF Release
<1>2. /\ pc' = [pc EXCEPT ![p] = "idle"] \/ pc' = [pc EXCEPT ![p] = "biowait"]
      /\ \E r : req' = [req EXCEPT ![p] = r]
  <2>1. CASE \E inval \in BOOLEAN : brelse_held(p, inval)
    BY <2>1 DEF brelse_held, Done, Go
  <2>2. CASE bwrite(p)
    BY <2>2 DEF bwrite, Go
  <2>3. CASE bawrite(p) \/ bdwrite(p)
    BY <2>3 DEF bawrite, bdwrite, Done, Go
  <2> QED
    BY <2>1, <2>2, <2>3 DEF Release
<1>3. \A q \in Proc \ {p} : req'[q] = req[q]
  BY <1>0, <1>2 DEF BufType
<1>4. FlushKept
  BY <1>0, <1>2, <1>3, FlushKeptBy
<1> QED
  BY <1>1, <1>4, DueKeep

LEMMA DueBegin ==
  ASSUME BufInv, ValType, DueFits, NEW p \in Proc, NEW v \in Vnode, NEW use, vflushbuf(p, v, use)
  PROVE  DueFits'
<1> DEFINE d == [k \in Block |-> IF VnodeOf[k] = v /\ use = "sync" THEN latest[k] ELSE 0]
<1>1. BufType /\ due \in [Proc -> [Block -> Ver]] /\ latest \in [Block -> Ver]
  BY DEF BufInv, ValType
<1>2. /\ due' = [due EXCEPT ![p] = d] /\ latest' = latest
      /\ req' = [req EXCEPT ![p] = [use |-> use, blk |-> v]] /\ pc' = [pc EXCEPT ![p] = "flush"]
  BY DEF vflushbuf, Go
<1>3. \A k \in Block : latest[k] \in Nat
  BY <1>1, BufAssumption DEF Ver
<1>4. \A k \in Block : d[k] <= latest[k] /\ (use = "sync" /\ VnodeOf[k] # v => d[k] = 0)
  BY <1>3
<1> HIDE DEF d
<1>5. /\ due'[p] = d /\ req'[p].use = use /\ req'[p].blk = v
      /\ \A q \in Proc \ {p} : due'[q] = due[q] /\ req'[q] = req[q] /\ pc'[q] = pc[q]
  BY <1>1, <1>2 DEF BufType
<1>6. ASSUME NEW q \in Proc, NEW k \in Block
      PROVE  /\ due'[q][k] <= latest'[k]
             /\ pc'[q] \in {"flush", "flushw"} /\ req'[q].use = "sync" /\ VnodeOf[k] # req'[q].blk => due'[q][k] = 0
  BY <1>2, <1>4, <1>5 DEF DueFits
<1> QED
  BY <1>6 DEF DueFits

LEMMA DueNext ==
  ASSUME BufInv, ValType, DueFits, [Next]_vars
  PROVE  DueFits'
<1>1. ASSUME NEW p \in Proc, NEW k \in Block, NEW use, getblk_start(p, k, use) PROVE DueFits'
  BY <1>1, GetblkDue DEF getblk_start, BufInv
<1>2. ASSUME NEW p \in Proc, NEW v \in Vnode, NEW use, vinvalbuf(p, v, use) PROVE DueFits'
  <2>1. /\ pc' = [pc EXCEPT ![p] = "inval"] /\ req' = [req EXCEPT ![p] = [use |-> use, blk |-> v]]
        /\ latest' = latest /\ due' = due /\ BufType
    BY <1>2 DEF vinvalbuf, Go, vals, BufInv
  <2>2. \A q \in Proc \ {p} : req'[q] = req[q]
    BY <2>1 DEF BufType
  <2>3. FlushKept
    BY <2>1, <2>2, FlushKeptBy
  <2> QED
    BY <2>1, <2>3, DueKeep DEF DueFits, DueFollows
<1>3. ASSUME NEW b \in Buf, NEW ok \in BOOLEAN, biodone(b, ok) PROVE DueFits'
  <2>1. b_blk[b] \in Block /\ UNCHANGED <<pc, req>> /\ (UNCHANGED <<latest, due>> \/ BackToDisk(b_blk[b]))
    BY <1>3, IoFlagsAre DEF biodone
  <2>2. FlushKept
    BY <2>1 DEF FlushKept
  <2>3. DueFollows
    BY <2>1, BackToDiskDue DEF DueFits, DueFollows
  <2> QED
    BY <2>2, <2>3, DueKeep
<1>4. CASE UNCHANGED vars
  <2>1. UNCHANGED <<latest, due, pc, req>>
    BY <1>4 DEF vars, vals
  <2> QED
    BY <2>1 DEF DueFits
<1> QED
  BY <1>1, <1>2, <1>3, <1>4, DueBegin, DueResume, DueRelease DEF Next

\* What is in a buffer is the last version, and none is lost.
LEMMA DataIsSafe == ASSUME BufInv, DataInv PROVE Coherent /\ NothingLost
<1>1. ASSUME NEW k \in Block, latest[k] # disk[k]
      PROVE  \E b \in incore(k) : b_data[b] = latest[k] /\ (Delayed(b) \/ Writing(b))
  <2>1. PICK b \in Buf : b_blk[b] = k /\ b_data[b] = latest[k] /\ Live(b)
    BY <1>1 DEF DataInv, Backed
  <2> QED
    BY <2>1 DEF incore, Live, Valid
<1> QED
  BY <1>1 DEF DataInv, NothingLost

\* Nobody but the process itself takes it to another place.
LEMMA NoneElseMoves ==
  ASSUME BufInv, NEW p \in Proc, NEW q \in Proc, q # p, Resume(q) \/ Release(q)
  PROVE  pc'[p] = pc[p]
<1>0. BufType
  BY DEF BufInv
<1>1. ASSUME NEW place, pc' = [pc EXCEPT ![q] = place] PROVE pc'[p] = pc[p]
  BY <1>0, <1>1 DEF BufType
<1>2. CASE GetblkGoes(q)
  BY <1>1, <1>2 DEF GetblkGoes, Go
<1>3. CASE getblk_again(q) \/ getblk_alloc(q)
  BY <1>2, <1>3, GetblkPlace, DeliverGoes DEF getblk_again, getblk_alloc
<1>4. CASE \E k \in Block : breada(q, k)
  BY <1>1, <1>4 DEF breada, ra_miss, ra_hit, nobuf, Go
<1>5. CASE biowait_sleep(q) \/ flush_one(q) \/ inval_busy(q) \/ inval_drop(q)
  BY <1>5 DEF biowait_sleep, flush_one, inval_busy, inval_drop
<1>6. CASE bread_done(q) \/ bwrite_done(q) \/ inval_save(q)
  BY <1>1, <1>6 DEF bread_done, bwrite_done, inval_save, Go
<1>7. CASE flush_return(q) \/ flush_wait(q) \/ flush_check(q) \/ inval_return(q)
  BY <1>1, <1>7 DEF flush_return, flush_wait, flush_check, inval_return, Return, Done, Go
<1>8. CASE Release(q)
  BY <1>1, <1>8 DEF Release, brelse_held, bwrite, bawrite, bdwrite, Done, Go
<1>9. CASE Resume(q)
  BY <1>3, <1>4, <1>5, <1>6, <1>7, <1>9 DEF Resume
<1> QED
  BY <1>8, <1>9

\* A synchronous flush returns from flush_check() only.
LEMMA SyncReturns ==
  ASSUME BufInv, Next, NEW p \in Proc, req[p].use = "sync", pc'[p] = "idle"
  PROVE  /\ req[p].blk \in Vnode /\ pc[p] \in {"flush", "flushw"}
         /\ Drained(req[p].blk) /\ OnVnode(req[p].blk, "dirty") = {}
<1>1. pc[p] \in {"flush", "flushw"} /\ req[p].blk \in Vnode
  BY DEF BufInv, BufType, ReqFits, Places, NoReq
<1>2. pc'[p] # pc[p] /\ BufType
  BY <1>1 DEF BufInv
<1>3. ASSUME NEW q \in Proc, NEW place, pc[q] = "idle", pc' = [pc EXCEPT ![q] = place] PROVE FALSE
  BY <1>1, <1>2, <1>3 DEF BufType
<1>4. ASSUME NEW q \in Proc, NEW k, NEW use, getblk_start(q, k, use) PROVE FALSE
  BY <1>3, <1>4, GetblkPlace DEF getblk_start, At, GetblkGoes, Go
<1>5. ASSUME NEW q \in Proc, NEW v, NEW use, vflushbuf(q, v, use) \/ vinvalbuf(q, v, use) PROVE FALSE
  BY <1>3, <1>5 DEF vflushbuf, vinvalbuf, At, Go
<1>6. ASSUME NEW b, NEW ok, biodone(b, ok) PROVE FALSE
  BY <1>2, <1>6 DEF biodone
<1>7. Resume(p) \/ Release(p)
  BY <1>2, <1>4, <1>5, <1>6, NoneElseMoves DEF Next
<1>8. flush_return(p) \/ flush_wait(p) \/ flush_check(p)
  <2>1. ~Release(p)
    BY <1>1 DEF Release, brelse_held, bwrite, bawrite, bdwrite, MayWrite, At
  <2>2. Resume(p)
    BY <1>7, <2>1
  <2>3. ~(getblk_again(p) \/ getblk_alloc(p) \/ (\E k \in Block : breada(p, k)))
    BY <1>1 DEF getblk_again, getblk_alloc, breada, At
  <2>4. ~(biowait_sleep(p) \/ bread_done(p) \/ bwrite_done(p))
    BY <1>1 DEF biowait_sleep, bread_done, bwrite_done, At
  <2>5. ~(inval_busy(p) \/ inval_save(p) \/ inval_drop(p) \/ inval_return(p))
    BY <1>1 DEF inval_busy, inval_save, inval_drop, inval_return, At
  <2>6. ~flush_one(p)
    BY <1>2 DEF flush_one
  <2> QED
    BY <2>2, <2>3, <2>4, <2>5, <2>6 DEF Resume
<1>9. ~flush_return(p)
  BY DEF flush_return
<1>10. ~flush_wait(p)
  BY <1>2 DEF flush_wait, Go, BufType
<1>11. flush_check(p)
  BY <1>8, <1>9, <1>10
<1>12. ~Go(p, "flush")
  BY <1>2 DEF Go, BufType
<1> QED
  BY <1>1, <1>11, <1>12 DEF flush_check

\* Then no version of the vnode is in a buffer only.
LEMMA SyncStep ==
  ASSUME Inv, DataInv, DueFits, Next, NEW p \in Proc, req[p].use = "sync", pc'[p] = "idle", NEW k \in Block
  PROVE  disk[k] >= due[p][k]
<1> DEFINE v == req[p].blk
<1>0. BufInv /\ WaitInv /\ ValType
  BY DEF Inv
<1>1. /\ v \in Vnode /\ pc[p] \in {"flush", "flushw"}
      /\ v_numoutput[v] = 0 /\ OnVnode(v, "dirty") = {}
  BY <1>0, SyncReturns DEF Drained
<1>2. disk[k] \in Nat /\ due[p][k] \in Nat /\ latest[k] \in Nat /\ due[p][k] <= latest[k]
  BY <1>0, BufAssumption DEF ValType, Ver, DueFits
<1>3. CASE VnodeOf[k] # v
  <2>1. due[p][k] = 0
    BY <1>1, <1>3 DEF DueFits
  <2> QED
    BY <1>2, <2>1
<1>4. CASE VnodeOf[k] = v
  <2>1. Writes(v) = {}
    <3>1. Writes(v) \in SUBSET Buf
      BY <1>0 DEF Writes, BufInv, BufType
    <3>2. Cardinality(Writes(v)) = 0
      BY <1>0, <1>1 DEF WaitInv, OutputCounted, Writes
    <3> HIDE DEF v
    <3> QED
      BY <3>1, <3>2, FiniteIs, FS_EmptySet
  <2>2. ASSUME NEW b \in Buf, b_blk[b] = k, Live(b) PROVE FALSE
    <3>1. k # none
      BY BufAssumption
    <3>2. CASE Delayed(b)
      <4>1. b_list[b] = "dirty"
        BY <1>0, <2>2, <3>1, <3>2 DEF BufInv, BufFits
      <4>2. b \in OnVnode(v, "dirty")
        BY <1>4, <2>2, <3>1, <4>1 DEF OnVnode
      <4> QED
        BY <1>1, <4>2
    <3>3. CASE Writing(b)
      <4>1. b \in Writes(v)
        BY <1>4, <2>2, <3>3 DEF Writes, Writing
      <4> QED
        BY <2>1, <4>1
    <3> QED
      BY <2>2, <3>2, <3>3 DEF Live
  <2>3. latest[k] = disk[k]
    BY <2>2 DEF DataInv, Backed
  <2> QED
    BY <1>2, <2>3
<1> QED
  BY <1>3, <1>4

\* The invariant of the contents, with blocks of one size.
LEMMA ContentsInvariant == ASSUME OneSize PROVE Spec => [](Inv /\ DataInv /\ DueFits /\ NeverSleepsInAlloc)
<1> DEFINE CInv == DataInv /\ DueFits /\ NeverSleepsInAlloc
<1>1. Init => CInv
  BY DataInvInit
<1>2. Inv /\ CInv /\ [Next]_vars => CInv'
  <2> SUFFICES ASSUME Inv, CInv, [Next]_vars PROVE CInv'
    OBVIOUS
  <2>1. BufInv /\ ValType
    BY DEF Inv
  <2>2. DataInv'
    BY <2>1, DataNext
  <2>3. DueFits'
    BY <2>1, DueNext
  <2>4. NeverSleepsInAlloc'
    BY <2>1, NeverSleepsStep
  <2> QED
    BY <2>2, <2>3, <2>4
<1>3. Spec => []CInv
  <2> HIDE DEF CInv
  <2> QED
    BY <1>1, <1>2, InvInvariant, PTL DEF Spec
<1> QED
  BY <1>3, InvInvariant, PTL

\* Coherent: with blocks of one size, whatever buffer another process could be given shows
\* the last version written to its block: no I/O, no eviction by getnewbuf() and no
\* read-ahead leaves an old copy in the cache.
THEOREM CacheIsCoherent == ASSUME OneSize PROVE Spec => []Coherent
<1>1. Inv /\ DataInv /\ DueFits /\ NeverSleepsInAlloc => Coherent
  BY DataIsSafe DEF Inv
<1> QED
  BY <1>1, ContentsInvariant, PTL

\* NothingLost: with blocks of one size, the last version of a block is on the disk, on its
\* way there, or in a delayed write, however bdwrite(), getnewbuf(), vflushbuf() and
\* vinvalbuf() meet; only a write that fails, and a B_INVAL buffer, take a version away.
THEOREM NoVersionIsLost == ASSUME OneSize PROVE Spec => []NothingLost
<1>1. Inv /\ DataInv /\ DueFits /\ NeverSleepsInAlloc => NothingLost
  BY DataIsSafe DEF Inv
<1> QED
  BY <1>1, ContentsInvariant, PTL

\* SyncReachesDisk: with blocks of one size, when a synchronous vflushbuf() returns, what
\* its vnode's blocks held when it was called is on the disk, or was lost by a failed
\* write: its wait for v_numoutput and its second look at the dirty list leave none out.
THEOREM SyncWritesAll == ASSUME OneSize PROVE Spec => SyncReachesDisk
<1>1. Inv /\ DataInv /\ DueFits /\ [Next]_vars =>
        [\A p \in Proc : req[p].use = "sync" /\ pc'[p] = "idle" =>
           \A k \in Block : disk[k] >= due[p][k]]_vars
  BY SyncStep
<1> QED
  BY <1>1, ContentsInvariant, PTL DEF Spec, SyncReachesDisk
=============================================================================
