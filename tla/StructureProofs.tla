--------------------------- MODULE StructureProofs ---------------------------
(***************************************************************************)
(* Theorems about the data structures that stand for themselves: the rings *)
(* of ring.c and ringbuf.h (RingBuf), the resource lists of rlist.c        *)
(* (Rlist) and the advisory locks of a file of ufs_lockf.c (Lockf), for    *)
(* any sizes, contents and callers.                                        *)
(***************************************************************************)
EXTENDS RingBuf, Rlist, Lockf, FiniteSetTheorems, SequenceTheorems, WellFoundedInduction, TLAPS

-----------------------------------------------------------------------------
(* Rings: RingBuf implements Fifo, for any rings, any size of the buffer   *)
(* and any characters.                                                     *)

\* The place a characters on, at most once round the buffer.
Round(a) == IF a < RBSZ THEN a ELSE a - RBSZ

\* The characters between places h and t of a buffer b.
Span(h, t) == IF h <= t THEN t - h ELSE RBSZ - (h - t)
Line(h, t, b) == [i \in 1 .. Span(h, t) |-> b[Round(h + i - 1)]]

-----------------------------------------------------------------------------
(* Going round the buffer.                                                 *)

\* % goes round the buffer.
LEMMA Wrap ==
  ASSUME NEW a \in 0 .. 2 * RBSZ - 1
  PROVE  Round(a) \in Off /\ a % RBSZ = Round(a)
BY RingAssumption DEF Round, Off

\* The line is a sequence of characters, and never holds RBSZ of them.
LEMMA LineType ==
  ASSUME NEW h \in Off, NEW t \in Off, NEW b \in [Off -> Char]
  PROVE  /\ Span(h, t) \in 0 .. RBSZ - 1
         /\ Line(h, t, b) \in Seq(Char)
         /\ Len(Line(h, t, b)) = Span(h, t)
         /\ \A i \in 1 .. Span(h, t) : Line(h, t, b)[i] = b[Round(h + i - 1)]
<1>1. Span(h, t) \in 0 .. RBSZ - 1
  BY RingAssumption DEF Span, Off
<1>2. \A i \in 1 .. Span(h, t) : Round(h + i - 1) \in Off
  BY <1>1, RingAssumption DEF Round, Off
<1>3. Line(h, t, b) \in [1 .. Span(h, t) -> Char]
  BY <1>1, <1>2 DEF Line
<1>4. Line(h, t, b) \in Seq(Char)
  BY <1>1, <1>3, SeqDef
<1>5. Len(Line(h, t, b)) = Span(h, t)
  BY <1>1, <1>3, <1>4, LenProperties
<1> QED
  BY <1>1, <1>4, <1>5 DEF Line

\* Characters stored from t on, where there is room, lengthen the line.
LEMMA LineAppend ==
  ASSUME NEW h \in Off, NEW t \in Off, NEW b \in [Off -> Char], NEW c \in [Off -> Char],
         NEW s \in Seq(Char), Span(h, t) + Len(s) < RBSZ,
         \A k \in 0 .. Len(s) - 1 : c[Round(t + k)] = s[k + 1],
         \A k \in 0 .. Span(h, t) - 1 : c[Round(h + k)] = b[Round(h + k)]
  PROVE  /\ Round(t + Len(s)) \in Off
         /\ Line(h, Round(t + Len(s)), c) = Line(h, t, b) \o s
<1> DEFINE n == Len(s)
           u == Round(t + n)
           L == Line(h, t, b)
           M == Line(h, u, c)
<1>1. n \in Nat /\ n < RBSZ
  BY LineType, LenProperties, RingAssumption
<1>2. u \in Off /\ Span(h, u) = Span(h, t) + n
  BY <1>1, RingAssumption DEF Round, Off, Span
<1>3. /\ L \in Seq(Char) /\ Len(L) = Span(h, t) /\ Span(h, t) \in 0 .. RBSZ - 1
      /\ \A i \in 1 .. Span(h, t) : L[i] = b[Round(h + i - 1)]
  BY LineType
<1>4. /\ M \in Seq(Char) /\ Len(M) = Span(h, t) + n
      /\ \A i \in 1 .. Span(h, t) + n : M[i] = c[Round(h + i - 1)]
  <2>1. /\ M \in Seq(Char) /\ Len(M) = Span(h, u)
        /\ \A i \in 1 .. Span(h, u) : M[i] = c[Round(h + i - 1)]
    <3> HIDE DEF u
    <3> QED
      BY <1>2, LineType
  <2> HIDE DEF M, u, n
  <2> QED
    BY <1>2, <2>1
<1>5. /\ L \o s \in Seq(Char) /\ Len(L \o s) = Span(h, t) + n
      /\ \A i \in 1 .. Span(h, t) + n :
            (L \o s)[i] = IF i <= Span(h, t) THEN L[i] ELSE s[i - Span(h, t)]
  <2>1. /\ L \o s \in Seq(Char) /\ Len(L \o s) = Len(L) + n
        /\ \A i \in 1 .. Len(L) + n : (L \o s)[i] = IF i <= Len(L) THEN L[i] ELSE s[i - Len(L)]
    <3> HIDE DEF L
    <3> QED
      BY <1>3, ConcatProperties
  <2> HIDE DEF L, n
  <2> QED
    BY <1>3, <2>1
<1>6. ASSUME NEW i \in 1 .. Span(h, t) + n PROVE M[i] = (L \o s)[i]
  <2>1. CASE i <= Span(h, t)
    <3>1. /\ i \in 1 .. Span(h, t) /\ i - 1 \in 0 .. Span(h, t) - 1
          /\ h + (i - 1) = h + i - 1
      BY <1>3, <2>1 DEF Off
    <3>2. c[Round(h + (i - 1))] = b[Round(h + (i - 1))]
      BY <3>1
    <3> HIDE DEF L, M, n
    <3> QED
      BY <1>3, <1>4, <1>5, <2>1, <3>1, <3>2
  <2>2. CASE i > Span(h, t)
    <3> DEFINE k == i - Span(h, t) - 1
    <3>1. k \in 0 .. n - 1 /\ k + 1 = i - Span(h, t)
      BY <1>1, <1>3, <2>2
    <3>2. Round(h + i - 1) = Round(t + k)
      BY <1>1, <1>3, <3>1, RingAssumption DEF Round, Span, Off
    <3>3. c[Round(t + k)] = s[k + 1]
      BY <3>1
    <3> HIDE DEF L, M, k, n
    <3> QED
      BY <1>1, <1>3, <1>4, <1>5, <2>2, <3>1, <3>2, <3>3
  <2>3. i <= Span(h, t) \/ i > Span(h, t)
    BY <1>1, <1>3
  <2> QED
    BY <2>1, <2>2, <2>3
<1>7. M = L \o s
  <2> HIDE DEF L, M, n
  <2> QED
    BY <1>4, <1>5, <1>6, SeqEqual
<1> QED
  BY <1>2, <1>7

\* A character stored in front of h, where there is room.
LEMMA LinePrepend ==
  ASSUME NEW h \in Off, NEW t \in Off, NEW b \in [Off -> Char], NEW c \in Char,
         RB_PRED(h) # t
  PROVE  /\ RB_PRED(h) \in Off /\ Span(h, t) < RBSZ - 1
         /\ Line(RB_PRED(h), t, [b EXCEPT ![RB_PRED(h)] = c]) = <<c>> \o Line(h, t, b)
<1> DEFINE g == RB_PRED(h)
           d == [b EXCEPT ![g] = c]
           L == Line(h, t, b)
           M == Line(g, t, d)
           n == Span(h, t)
<1>1. g \in Off /\ n \in 0 .. RBSZ - 2 /\ Span(g, t) = n + 1
  BY RingAssumption DEF RB_PRED, Off, Span
<1>2. d \in [Off -> Char] /\ d[g] = c /\ \A i \in Off \ {g} : d[i] = b[i]
  BY <1>1
<1>3. /\ L \in Seq(Char) /\ Len(L) = n
      /\ \A i \in 1 .. n : L[i] = b[Round(h + i - 1)]
  BY LineType
<1>4. /\ M \in Seq(Char) /\ Len(M) = n + 1
      /\ \A i \in 1 .. n + 1 : M[i] = d[Round(g + i - 1)]
  <2>1. /\ M \in Seq(Char) /\ Len(M) = Span(g, t)
        /\ \A i \in 1 .. Span(g, t) : M[i] = d[Round(g + i - 1)]
    <3> HIDE DEF g, d
    <3> QED
      BY <1>1, <1>2, LineType
  <2> HIDE DEF M, g, d, n
  <2> QED
    BY <1>1, <2>1
<1>5. /\ <<c>> \o L \in Seq(Char) /\ Len(<<c>> \o L) = n + 1
      /\ \A i \in 1 .. n + 1 : (<<c>> \o L)[i] = IF i <= 1 THEN c ELSE L[i - 1]
  <2>1. <<c>> \in Seq(Char) /\ Len(<<c>>) = 1 /\ <<c>>[1] = c
    OBVIOUS
  <2> HIDE DEF L, n
  <2> QED
    BY <1>1, <1>3, <2>1, ConcatProperties
<1>6. ASSUME NEW i \in 1 .. n + 1 PROVE M[i] = (<<c>> \o L)[i]
  <2>1. CASE i = 1
    <3>1. Round(g + i - 1) = g
      BY <1>1, <2>1, RingAssumption DEF Round, Off
    <3> HIDE DEF L, M, n, g, d
    <3> QED
      BY <1>1, <1>2, <1>4, <1>5, <2>1, <3>1
  <2>2. CASE i > 1
    <3>1. Round(g + i - 1) = Round(h + (i - 1) - 1)
      BY <1>1, <2>2, RingAssumption DEF Round, Off, RB_PRED
    <3>2. Round(g + i - 1) \in Off \ {g}
      BY SMTT(30), <1>1, <2>2, RingAssumption DEF Round, Off
    <3>3. i - 1 \in 1 .. n
      BY <1>1, <2>2
    <3> HIDE DEF L, M, n, g, d
    <3> QED
      BY <1>2, <1>3, <1>4, <1>5, <2>2, <3>1, <3>2, <3>3
  <2>3. i = 1 \/ i > 1
    BY <1>1
  <2> QED
    BY <2>1, <2>2, <2>3
<1>7. M = <<c>> \o L
  <2> HIDE DEF L, M, n
  <2> QED
    BY <1>4, <1>5, <1>6, SeqEqual
<1>8. g \in Off /\ n < RBSZ - 1
  <2> HIDE DEF g, n
  <2> QED
    BY <1>1, RingAssumption
<1> QED
  BY <1>7, <1>8

\* The first n characters are taken from the line.
LEMMA LineDrop ==
  ASSUME NEW h \in Off, NEW t \in Off, NEW b \in [Off -> Char], NEW n \in 0 .. Span(h, t)
  PROVE  /\ Round(h + n) \in Off
         /\ Line(Round(h + n), t, b)
              = SubSeq(Line(h, t, b), n + 1, Len(Line(h, t, b)))
<1> DEFINE g == Round(h + n)
           L == Line(h, t, b)
           M == Line(g, t, b)
           m == Span(h, t)
<1>1. m \in 0 .. RBSZ - 1
  BY LineType
<1>2. g \in Off /\ Span(g, t) = m - n
  BY <1>1, RingAssumption DEF Round, Off, Span
<1>3. /\ L \in Seq(Char) /\ Len(L) = m
      /\ \A i \in 1 .. m : L[i] = b[Round(h + i - 1)]
  BY LineType
<1>4. /\ M \in Seq(Char) /\ Len(M) = m - n
      /\ \A i \in 1 .. m - n : M[i] = b[Round(g + i - 1)]
  BY SMTT(30), <1>2, LineType
<1> DEFINE R == SubSeq(L, n + 1, m)
<1>5. R \in Seq(Char) /\ Len(R) = m - n /\ \A i \in 1 .. m - n : R[i] = L[n + i]
  <2>1. \A i \in n + 1 .. m : L[i] \in Char
    BY <1>1, <1>3, ElementOfSeq
  <2> HIDE DEF L, m
  <2>2. /\ SubSeq(L, n + 1, m) \in Seq(Char)
        /\ Len(SubSeq(L, n + 1, m)) = IF n + 1 <= m THEN m - (n + 1) + 1 ELSE 0
        /\ \A i \in 1 .. m - (n + 1) + 1 : SubSeq(L, n + 1, m)[i] = L[n + 1 + i - 1]
    BY <1>1, <2>1, SubSeqProperties
  <2>3. n \in 0 .. m
    BY DEF m
  <2>4. Len(SubSeq(L, n + 1, m)) = m - n
    BY <1>1, <2>2, <2>3
  <2>5. ASSUME NEW i \in 1 .. m - n PROVE SubSeq(L, n + 1, m)[i] = L[n + i]
    <3>1. i \in 1 .. m - (n + 1) + 1 /\ n + 1 + i - 1 = n + i
      BY <1>1, <2>3
    <3> QED
      BY <2>2, <3>1
  <2> QED
    BY <2>2, <2>4, <2>5
<1>6. ASSUME NEW i \in 1 .. m - n PROVE M[i] = R[i]
  <2>1. Round(g + i - 1) = Round(h + (n + i) - 1)
    <3>1. n \in 0 .. m
      OBVIOUS
    <3> HIDE DEF m, L, M, R
    <3> QED
      BY <1>1, <3>1, RingAssumption DEF Round, Off
  <2>2. n + i \in 1 .. m
    BY <1>1
  <2> HIDE DEF L, M, R, m, g
  <2> QED
    BY <1>3, <1>4, <1>5, <2>1, <2>2
<1>7. M = R
  <2> HIDE DEF L, M, R, m
  <2> QED
    BY <1>4, <1>5, <1>6, SeqEqual
<1> QED
  BY <1>2, <1>3, <1>7

\* The last character is taken from the line.
LEMMA LineDropLast ==
  ASSUME NEW h \in Off, NEW t \in Off, NEW b \in [Off -> Char], h # t
  PROVE  /\ RB_PRED(t) \in Off /\ Span(h, t) > 0
         /\ Line(h, t, b)[Len(Line(h, t, b))] = b[RB_PRED(t)]
         /\ Line(h, RB_PRED(t), b) = SubSeq(Line(h, t, b), 1, Len(Line(h, t, b)) - 1)
<1> DEFINE u == RB_PRED(t)
           L == Line(h, t, b)
           M == Line(h, u, b)
           n == Span(h, t)
<1>1. u \in Off /\ n \in 1 .. RBSZ - 1 /\ Span(h, u) = n - 1
  BY RingAssumption DEF RB_PRED, Off, Span
<1>2. /\ L \in Seq(Char) /\ Len(L) = n
      /\ \A i \in 1 .. n : L[i] = b[Round(h + i - 1)]
  BY LineType
<1>3. /\ M \in Seq(Char) /\ Len(M) = n - 1
      /\ \A i \in 1 .. n - 1 : M[i] = b[Round(h + i - 1)]
  <2>1. /\ M \in Seq(Char) /\ Len(M) = Span(h, u)
        /\ \A i \in 1 .. Span(h, u) : M[i] = b[Round(h + i - 1)]
    <3> HIDE DEF u
    <3> QED
      BY <1>1, LineType
  <2> HIDE DEF M, u, n
  <2> QED
    BY <1>1, <2>1
<1>4. Round(h + n - 1) = u
  BY <1>1, RingAssumption DEF Round, Off, RB_PRED, Span
<1> DEFINE R == SubSeq(L, 1, n - 1)
<1>5. R \in Seq(Char) /\ Len(R) = n - 1 /\ \A i \in 1 .. n - 1 : R[i] = L[i]
  <2>1. \A i \in 1 .. n - 1 : L[i] \in Char
    BY <1>1, <1>2, ElementOfSeq
  <2> HIDE DEF L, n
  <2>2. /\ SubSeq(L, 1, n - 1) \in Seq(Char)
        /\ Len(SubSeq(L, 1, n - 1)) = IF 1 <= n - 1 THEN n - 1 - 1 + 1 ELSE 0
        /\ \A i \in 1 .. n - 1 - 1 + 1 : SubSeq(L, 1, n - 1)[i] = L[1 + i - 1]
    BY <1>1, <2>1, SubSeqProperties
  <2> QED
    BY <1>1, <2>2
<1>6. M = R
  <2> HIDE DEF L, M, R, n
  <2>1. ASSUME NEW i \in 1 .. n - 1 PROVE M[i] = R[i]
    <3>1. i \in 1 .. n
      BY <1>1
    <3> QED
      BY <1>2, <1>3, <1>5, <3>1
  <2> QED
    BY <1>3, <1>5, <2>1, SeqEqual
<1> QED
  BY <1>1, <1>2, <1>4, <1>6
-----------------------------------------------------------------------------
(* The rings and their contents.                                           *)

\* The contents are the line from rb_hd to rb_tl, now and after a step.
LEMMA LineOf ==
  ASSUME NEW h \in Off, NEW t \in Off, NEW b \in [Off -> Char]
  PROVE  [i \in 1 .. (IF h <= t THEN t - h ELSE RBSZ - (h - t)) |-> b[(h + i - 1) % RBSZ]]
            = Line(h, t, b)
<1>1. Span(h, t) \in 0 .. RBSZ - 1
  BY LineType
<1>2. ASSUME NEW i \in 1 .. Span(h, t) PROVE (h + i - 1) % RBSZ = Round(h + i - 1)
  <2>1. h + i - 1 \in 0 .. 2 * RBSZ - 1
    BY <1>1, RingAssumption DEF Off
  <2> QED
    BY <2>1, Wrap
<1> QED
  BY <1>2 DEF Line, Span

LEMMA ContentsNow ==
  ASSUME TypeOK, NEW r \in Ring
  PROVE  /\ rb_hd[r] \in Off /\ rb_tl[r] \in Off /\ rb_buf[r] \in [Off -> Char]
         /\ Contents(r) = Line(rb_hd[r], rb_tl[r], rb_buf[r])
         /\ RB_LEN(r) = Span(rb_hd[r], rb_tl[r])
         /\ Span(rb_hd[r], rb_tl[r]) \in 0 .. RBSZ - 1
         /\ Contents(r) \in Seq(Char) /\ Len(Contents(r)) = RB_LEN(r)
<1>1. rb_hd[r] \in Off /\ rb_tl[r] \in Off /\ rb_buf[r] \in [Off -> Char]
  BY DEF TypeOK
<1>2. Contents(r) = Line(rb_hd[r], rb_tl[r], rb_buf[r])
  BY <1>1, LineOf DEF Contents, RB_LEN
<1>3. RB_LEN(r) = Span(rb_hd[r], rb_tl[r])
  BY DEF RB_LEN, Span
<1> QED
  BY <1>1, <1>2, <1>3, LineType

LEMMA ContentsNext ==
  ASSUME TypeOK', NEW r \in Ring
  PROVE  Contents(r)' = Line(rb_hd'[r], rb_tl'[r], rb_buf'[r])
<1>1. rb_hd'[r] \in Off /\ rb_tl'[r] \in Off /\ rb_buf'[r] \in [Off -> Char]
  BY DEF TypeOK
<1> QED
  BY <1>1, LineOf DEF Contents, RB_LEN

\* A ring that a step does not touch keeps its contents.
Untouched(q) == rb_hd'[q] = rb_hd[q] /\ rb_tl'[q] = rb_tl[q] /\ rb_buf'[q] = rb_buf[q]

LEMMA UntouchedContents ==
  ASSUME NEW q \in Ring, Untouched(q) PROVE Contents(q)' = Contents(q)
BY DEF Contents, RB_LEN, Untouched

\* A step that touches one ring changes one queue.
LEMMA OneRing ==
  ASSUME NEW r \in Ring, NEW s, Contents(r)' = s, \A q \in Ring \ {r} : Untouched(q)
  PROVE  Queues!Becomes(r, s)
<1>1. \A q \in Ring \ {r} : Contents(q)' = Contents(q)
  BY UntouchedContents
<1> QED
  BY <1>1 DEF Queues!Becomes

\* A refused operation.
LEMMA RefusedStep ==
  ASSUME TypeOK, NEW r \in Ring, Refused PROVE TypeOK' /\ Queues!Refused(r)
<1>1. TypeOK'
  BY DEF TypeOK, Refused
<1>2. \A q \in Ring : Contents(q)' = Contents(q)
  BY UntouchedContents DEF Refused, Untouched
<1> QED
  BY <1>1, <1>2 DEF Refused, Queues!Refused

\* The queue has room exactly when the macros of the putting functions say so, and
\* characters exactly when those of the getting functions do.
LEMMA RoomAndLength ==
  ASSUME TypeOK, NEW r \in Ring
  PROVE  /\ Len(Contents(r)) \in 0 .. RBSZ - 1
         /\ RB_SUCC(rb_tl[r]) = rb_hd[r] <=> Len(Contents(r)) = RBSZ - 1
         /\ RB_PRED(rb_hd[r]) = rb_tl[r] <=> Len(Contents(r)) = RBSZ - 1
         /\ rb_hd[r] = rb_tl[r] <=> Len(Contents(r)) = 0
         /\ Len(Contents(r)) = 0 <=> Contents(r) = <<>>
<1>1. /\ rb_hd[r] \in Off /\ rb_tl[r] \in Off
      /\ Len(Contents(r)) = Span(rb_hd[r], rb_tl[r])
      /\ Span(rb_hd[r], rb_tl[r]) \in 0 .. RBSZ - 1
      /\ Contents(r) \in Seq(Char)
  BY ContentsNow
<1>2. /\ RB_SUCC(rb_tl[r]) = rb_hd[r] <=> Span(rb_hd[r], rb_tl[r]) = RBSZ - 1
      /\ RB_PRED(rb_hd[r]) = rb_tl[r] <=> Span(rb_hd[r], rb_tl[r]) = RBSZ - 1
      /\ rb_hd[r] = rb_tl[r] <=> Span(rb_hd[r], rb_tl[r]) = 0
  BY <1>1, RingAssumption DEF Off, RB_SUCC, RB_PRED, Span
<1>3. Len(Contents(r)) = 0 <=> Contents(r) = <<>>
  BY <1>1, EmptySeq
<1> QED
  BY <1>1, <1>2, <1>3

-----------------------------------------------------------------------------
(* One character at a time.                                                *)

\* putc() adds a character at the end.
LEMMA PutStep ==
  ASSUME TypeOK, NEW r \in Ring, NEW c \in Char, putc(c, r)
  PROVE  TypeOK' /\ Queues!PutLast(r, c)
<1>1. CASE RB_SUCC(rb_tl[r]) = rb_hd[r]
  <2>1. Refused /\ Len(Contents(r)) = RBSZ - 1
    BY <1>1, RoomAndLength DEF putc
  <2> QED
    BY <2>1, RefusedStep DEF Queues!PutLast
<1>2. CASE RB_SUCC(rb_tl[r]) # rb_hd[r]
  <2> DEFINE h == rb_hd[r]
             t == rb_tl[r]
             b == rb_buf[r]
             d == [b EXCEPT ![t] = c]
  <2>1. /\ rb_buf' = [rb_buf EXCEPT ![r] = d]
        /\ rb_tl' = [rb_tl EXCEPT ![r] = RB_SUCC(t)]
        /\ rv' = 0 /\ rb_hd' = rb_hd
    BY <1>2 DEF putc, Store, SetTl
  <2>2. h \in Off /\ t \in Off /\ b \in [Off -> Char]
    BY ContentsNow
  <2>3. RB_SUCC(t) \in Off /\ d \in [Off -> Char] /\ RB_SUCC(t) = Round(t + 1)
    BY <2>2, RingAssumption DEF RB_SUCC, Round, Off
  <2>4. TypeOK'
    <3> HIDE DEF d
    <3> QED
      BY <2>1, <2>3, RingAssumption DEF TypeOK
  <2>5. Len(Contents(r)) < RBSZ - 1 /\ Span(h, t) < RBSZ - 1
    BY <1>2, ContentsNow, RoomAndLength, RingAssumption
  <2>6. Line(h, RB_SUCC(t), d) = Append(Line(h, t, b), c)
    <3>1. <<c>> \in Seq(Char) /\ Len(<<c>>) = 1 /\ <<c>>[1] = c
      OBVIOUS
    <3>2. \A k \in 0 .. Len(<<c>>) - 1 : d[Round(t + k)] = <<c>>[k + 1]
      BY <2>2, <3>1, RingAssumption DEF Round, Off
    <3>3. ASSUME NEW k \in 0 .. Span(h, t) - 1 PROVE d[Round(h + k)] = b[Round(h + k)]
      <4>1. Round(h + k) # t
        BY <2>2, <2>5, RingAssumption DEF Round, Off, Span
      <4> QED
        BY <2>2, <4>1
    <3>4. Span(h, t) + Len(<<c>>) < RBSZ
      BY SMTT(30), <2>2, <2>5, <3>1, LineType, RingAssumption
    <3>5. Line(h, RB_SUCC(t), d) = Line(h, t, b) \o <<c>>
      <4>1. PICK s \in Seq(Char) : s = <<c>>
        BY <3>1
      <4> HIDE DEF h, t, b, d
      <4>2. Span(h, t) + Len(s) < RBSZ
        BY <3>4, <4>1
      <4>3. \A k \in 0 .. Len(s) - 1 : d[Round(t + k)] = s[k + 1]
        BY <3>2, <4>1
      <4>4. \A k \in 0 .. Span(h, t) - 1 : d[Round(h + k)] = b[Round(h + k)]
        BY <3>3
      <4>5. Line(h, Round(t + Len(s)), d) = Line(h, t, b) \o s
        BY ZenonT(30), <2>2, <2>3, <4>2, <4>3, <4>4, LineAppend
      <4> QED
        BY <2>3, <3>1, <4>1, <4>5
    <3>6. Line(h, t, b) \in Seq(Char)
      BY <2>2, LineType
    <3> QED
      BY <3>5, <3>6, AppendIsConcat
  <2>7. Contents(r)' = Append(Contents(r), c)
    <3>1. rb_hd'[r] = h /\ rb_tl'[r] = RB_SUCC(t) /\ rb_buf'[r] = d
      BY <2>1 DEF TypeOK
    <3> QED
      BY <2>4, <2>6, <3>1, ContentsNow, ContentsNext
  <2>8. Queues!Becomes(r, Append(Contents(r), c))
    BY <2>1, <2>7, OneRing DEF TypeOK, Untouched
  <2> QED
    BY <2>1, <2>4, <2>5, <2>8 DEF Queues!PutLast
<1> QED
  BY <1>1, <1>2
\* getc() takes the first character.
LEMMA GetStep ==
  ASSUME TypeOK, NEW r \in Ring, getc(r)
  PROVE  TypeOK' /\ Queues!GetFirst(r)
<1>1. CASE rb_hd[r] = rb_tl[r]
  <2>1. Refused /\ Contents(r) = <<>>
    BY <1>1, RoomAndLength DEF getc
  <2> QED
    BY <2>1, RefusedStep DEF Queues!GetFirst
<1>2. CASE rb_hd[r] # rb_tl[r]
  <2> DEFINE h == rb_hd[r]
             t == rb_tl[r]
             b == rb_buf[r]
  <2>1. /\ rb_hd' = [rb_hd EXCEPT ![r] = RB_SUCC(h)]
        /\ rv' = b[h] /\ rb_tl' = rb_tl /\ rb_buf' = rb_buf
    BY <1>2 DEF getc, SetHd
  <2>2. h \in Off /\ t \in Off /\ b \in [Off -> Char]
    BY ContentsNow
  <2>3. RB_SUCC(h) \in Off /\ RB_SUCC(h) = Round(h + 1)
    BY <2>2, RingAssumption DEF RB_SUCC, Round, Off
  <2>4. TypeOK'
    BY <2>1, <2>2, <2>3 DEF TypeOK
  <2>5. Contents(r) # <<>> /\ Len(Contents(r)) \in 1 .. RBSZ - 1
    BY <1>2, RoomAndLength, RingAssumption
  <2>6. /\ Contents(r) = Line(h, t, b) /\ Len(Contents(r)) = Span(h, t)
        /\ Contents(r) \in Seq(Char)
    BY ContentsNow
  <2>7. Line(Round(h + 1), t, b) = SubSeq(Contents(r), 2, Len(Contents(r)))
    <3>1. 1 \in 0 .. Span(h, t) /\ 1 + 1 = 2
      BY <2>5, <2>6
    <3> HIDE DEF h, t, b
    <3>2. Line(Round(h + 1), t, b) = SubSeq(Line(h, t, b), 1 + 1, Len(Line(h, t, b)))
      BY <2>2, <3>1, LineDrop
    <3> QED
      BY <2>6, <3>1, <3>2
  <2>8. Contents(r)' = Tail(Contents(r))
    <3>1. rb_hd'[r] = Round(h + 1) /\ rb_tl'[r] = t /\ rb_buf'[r] = b
      BY <2>1, <2>3 DEF TypeOK
    <3> QED
      BY <2>4, <2>5, <2>6, <2>7, <3>1, ContentsNext, TailIsSubSeq
  <2>9. rv' = Head(Contents(r))
    <3>1. 1 \in 1 .. Span(h, t) /\ Round(h + 1 - 1) = h
      BY <2>2, <2>5, <2>6, RingAssumption DEF Round, Off
    <3>2. Contents(r)[1] = b[h]
      BY <2>2, <2>6, <3>1, LineType
    <3> QED
      BY <2>1, <2>5, <2>6, <3>2
  <2>10. Queues!Becomes(r, Tail(Contents(r)))
    BY <2>1, <2>8, OneRing DEF TypeOK, Untouched
  <2> QED
    BY <2>4, <2>5, <2>9, <2>10 DEF Queues!GetFirst
<1> QED
  BY <1>1, <1>2

\* ungetc() puts a character back in front.
LEMMA UngetStep ==
  ASSUME TypeOK, NEW r \in Ring, NEW c \in Char, ungetc(c, r)
  PROVE  TypeOK' /\ Queues!PutFirst(r, c)
<1>1. CASE RB_PRED(rb_hd[r]) = rb_tl[r]
  <2>1. Refused /\ Len(Contents(r)) = RBSZ - 1
    BY <1>1, RoomAndLength DEF ungetc
  <2> QED
    BY <2>1, RefusedStep DEF Queues!PutFirst
<1>2. CASE RB_PRED(rb_hd[r]) # rb_tl[r]
  <2> DEFINE h == rb_hd[r]
             t == rb_tl[r]
             b == rb_buf[r]
             d == [b EXCEPT ![RB_PRED(h)] = c]
  <2>1. /\ rb_buf' = [rb_buf EXCEPT ![r] = d]
        /\ rb_hd' = [rb_hd EXCEPT ![r] = RB_PRED(h)]
        /\ rv' = 0 /\ rb_tl' = rb_tl
    BY <1>2 DEF ungetc, Store, SetHd
  <2>2. h \in Off /\ t \in Off /\ b \in [Off -> Char]
    BY ContentsNow
  <2>3. RB_PRED(h) \in Off /\ Line(RB_PRED(h), t, d) = <<c>> \o Line(h, t, b)
    <3> HIDE DEF h, t, b
    <3>1. RB_PRED(h) # t
      BY <1>2 DEF h, t
    <3> QED
      BY <2>2, <3>1, LinePrepend DEF d
  <2>4. TypeOK'
    <3>1. d \in [Off -> Char]
      BY <2>2
    <3> HIDE DEF d
    <3> QED
      BY <2>1, <2>3, <3>1, RingAssumption DEF TypeOK
  <2>5. Len(Contents(r)) < RBSZ - 1
    BY <1>2, RoomAndLength, RingAssumption
  <2>6. Contents(r)' = <<c>> \o Contents(r)
    <3>1. rb_hd'[r] = RB_PRED(h) /\ rb_tl'[r] = t /\ rb_buf'[r] = d
      BY <2>1 DEF TypeOK
    <3> HIDE DEF d
    <3> QED
      BY <2>3, <2>4, <3>1, ContentsNow, ContentsNext
  <2>7. Queues!Becomes(r, <<c>> \o Contents(r))
    BY <2>1, <2>6, OneRing DEF TypeOK, Untouched
  <2> QED
    BY <2>1, <2>4, <2>5, <2>7 DEF Queues!PutFirst
<1> QED
  BY <1>1, <1>2

\* unputc() takes the last character.
LEMMA UnputStep ==
  ASSUME TypeOK, NEW r \in Ring, unputc(r)
  PROVE  TypeOK' /\ Queues!GetLast(r)
<1>1. CASE rb_hd[r] = rb_tl[r]
  <2>1. Refused /\ Contents(r) = <<>>
    BY <1>1, RoomAndLength DEF unputc
  <2> QED
    BY <2>1, RefusedStep DEF Queues!GetLast
<1>2. CASE rb_hd[r] # rb_tl[r]
  <2> DEFINE h == rb_hd[r]
             t == rb_tl[r]
             b == rb_buf[r]
  <2>1. /\ rb_tl' = [rb_tl EXCEPT ![r] = RB_PRED(t)]
        /\ rv' = b[RB_PRED(t)] /\ rb_hd' = rb_hd /\ rb_buf' = rb_buf
    BY <1>2 DEF unputc, SetTl
  <2>2. h \in Off /\ t \in Off /\ b \in [Off -> Char]
    BY ContentsNow
  <2>3. /\ RB_PRED(t) \in Off
        /\ Line(h, t, b)[Len(Line(h, t, b))] = b[RB_PRED(t)]
        /\ Line(h, RB_PRED(t), b) = SubSeq(Line(h, t, b), 1, Len(Line(h, t, b)) - 1)
    BY <1>2, <2>2, LineDropLast
  <2>4. TypeOK'
    BY <2>1, <2>2, <2>3 DEF TypeOK
  <2>5. Contents(r) # <<>> /\ Contents(r) = Line(h, t, b)
    BY <1>2, RoomAndLength, ContentsNow
  <2>6. Contents(r)' = SubSeq(Contents(r), 1, Len(Contents(r)) - 1)
    <3>1. rb_hd'[r] = h /\ rb_tl'[r] = RB_PRED(t) /\ rb_buf'[r] = b
      BY <2>1 DEF TypeOK
    <3> QED
      BY <2>3, <2>4, <2>5, <3>1, ContentsNext
  <2>7. Queues!Becomes(r, SubSeq(Contents(r), 1, Len(Contents(r)) - 1))
    BY <2>1, <2>6, OneRing DEF TypeOK, Untouched
  <2> QED
    BY <2>1, <2>3, <2>4, <2>5, <2>7 DEF Queues!GetLast
<1> QED
  BY <1>1, <1>2

\* initrb() empties the queue.
LEMMA FlushStep ==
  ASSUME TypeOK, NEW r \in Ring, initrb(r)
  PROVE  TypeOK' /\ Queues!Flush(r)
<1>1. 0 \in Off
  BY RingAssumption DEF Off
<1>2. TypeOK'
  BY <1>1, RingAssumption DEF TypeOK, initrb, SetHd, SetTl
<1>3. rb_hd'[r] = 0 /\ rb_tl'[r] = 0
  BY DEF TypeOK, initrb, SetHd, SetTl
<1>4. Contents(r)' = <<>>
  BY <1>3 DEF Contents, RB_LEN
<1>5. Queues!Becomes(r, <<>>)
  BY <1>4, OneRing DEF TypeOK, initrb, SetHd, SetTl, Untouched
<1> QED
  BY <1>2, <1>5 DEF initrb, Queues!Flush
-----------------------------------------------------------------------------
(* Runs of characters.                                                     *)

\* The smaller of two numbers.
LEMMA MinOfTwo ==
  ASSUME NEW i \in Int, NEW j \in Int
  PROVE  Min({i, j}) = (IF i <= j THEN i ELSE j) /\ Queues!Min({i, j}) = Min({i, j})
<1> DEFINE m == IF i <= j THEN i ELSE j
<1>1. m \in {i, j} /\ \A x \in {i, j} : m <= x
  OBVIOUS
<1>2. \A y \in {i, j} : (\A x \in {i, j} : y <= x) => y = m
  OBVIOUS
<1> HIDE DEF m
<1>3. Min({i, j}) = m /\ Queues!Min({i, j}) = m
  BY <1>1, <1>2 DEF Min, Queues!Min
<1> QED
  BY <1>3 DEF m

\* The run that RB_CONTIGPUT allows fits in the queue and is empty only if it is full;
\* the one that RB_CONTIGGET allows is in it and is empty only if it is.
LEMMA ContigRuns ==
  ASSUME TypeOK, NEW r \in Ring
  PROVE  /\ RB_CONTIGPUT(r) \in 0 .. RBSZ - 1 - Len(Contents(r))
         /\ rb_tl[r] + RB_CONTIGPUT(r) <= RBSZ
         /\ RB_CONTIGPUT(r) = 0 <=> Len(Contents(r)) = RBSZ - 1
         /\ RB_CONTIGGET(r) \in 0 .. Len(Contents(r))
         /\ rb_hd[r] + RB_CONTIGGET(r) <= RBSZ
         /\ RB_CONTIGGET(r) = 0 <=> Len(Contents(r)) = 0
<1>1. /\ rb_hd[r] \in Off /\ rb_tl[r] \in Off
      /\ Len(Contents(r)) = Span(rb_hd[r], rb_tl[r])
  BY ContentsNow
<1>2. PICK h \in Off : h = rb_hd[r]
  BY <1>1
<1>3. PICK t \in Off : t = rb_tl[r]
  BY <1>1
<1>4. /\ RB_CONTIGPUT(r) = IF RB_PRED(h) < t THEN RBSZ - t ELSE RB_PRED(h) - t
      /\ RB_CONTIGGET(r) = IF h <= t THEN t - h ELSE RBSZ - h
      /\ Len(Contents(r)) = Span(h, t)
  BY <1>1, <1>2, <1>3 DEF RB_CONTIGPUT, RB_CONTIGGET
<1>5. /\ RB_CONTIGPUT(r) \in 0 .. RBSZ - 1 - Len(Contents(r))
      /\ t + RB_CONTIGPUT(r) <= RBSZ
      /\ RB_CONTIGPUT(r) = 0 <=> Len(Contents(r)) = RBSZ - 1
  BY <1>4, RingAssumption DEF Off, Span, RB_PRED
<1>6. /\ RB_CONTIGGET(r) \in 0 .. Len(Contents(r))
      /\ h + RB_CONTIGGET(r) <= RBSZ
      /\ RB_CONTIGGET(r) = 0 <=> Len(Contents(r)) = 0
  BY <1>4, RingAssumption DEF Off, Span
<1> QED
  BY <1>2, <1>3, <1>5, <1>6

\* A run of characters is put at the end.
LEMMA PutRunStep ==
  ASSUME TypeOK, NEW r \in Ring, NEW n \in 1 .. RBSZ, NEW s \in [1 .. n -> Char],
         contig_put(r, s)
  PROVE  /\ TypeOK'
         /\ \E m \in 0 .. RBSZ - 1 : \E u \in [1 .. m -> Char] : Queues!PutRun(r, u)
<1> DEFINE h == rb_hd[r]
           t == rb_tl[r]
           b == rb_buf[r]
           m == Min({RB_CONTIGPUT(r), Len(s)})
           u == [i \in 1 .. m |-> s[i]]
           d == [i \in Off |-> IF i \in t .. t + m - 1 THEN s[i - t + 1] ELSE b[i]]
<1>1. n \in Nat /\ s \in Seq(Char) /\ Len(s) = n
  <2>1. n \in Nat /\ s \in Seq(Char)
    BY SeqDef, RingAssumption
  <2> QED
    BY <2>1, LenProperties
<1>2. /\ h \in Off /\ t \in Off /\ b \in [Off -> Char]
      /\ Contents(r) = Line(h, t, b) /\ Len(Contents(r)) = Span(h, t)
      /\ Len(Contents(r)) \in 0 .. RBSZ - 1
  BY ContentsNow
<1>3. /\ m \in 0 .. RBSZ - 1 - Len(Contents(r)) /\ m <= n /\ t + m <= RBSZ
      /\ m = 0 <=> Len(Contents(r)) = RBSZ - 1
  <2>0. RB_CONTIGPUT(r) \in Int /\ n \in Int
    BY <1>1, ContigRuns
  <2>1. m = IF RB_CONTIGPUT(r) <= n THEN RB_CONTIGPUT(r) ELSE n
    BY <1>1, <2>0, MinOfTwo
  <2> HIDE DEF m
  <2> QED
    BY SMTT(30), <1>1, <1>2, <2>1, ContigRuns, RingAssumption DEF Off
<1>4. u \in [1 .. m -> Char] /\ u \in Seq(Char) /\ Len(u) = m
  <2> HIDE DEF m
  <2>1. m \in Nat /\ u \in [1 .. m -> Char]
    BY <1>1, <1>2, <1>3, RingAssumption
  <2>2. u \in Seq(Char)
    BY <2>1, SeqDef
  <2> HIDE DEF u
  <2> QED
    BY <2>1, <2>2, LenProperties
<1>5. d \in [Off -> Char]
  <2> HIDE DEF m
  <2> SUFFICES ASSUME NEW i \in Off PROVE d[i] \in Char
    OBVIOUS
  <2>1. CASE i \in t .. t + m - 1
    <3>1. i - t + 1 \in 1 .. n
      BY <1>1, <1>2, <1>3, <2>1 DEF Off
    <3> QED
      BY <2>1, <3>1
  <2>2. CASE i \notin t .. t + m - 1
    BY <1>2, <2>2
  <2> QED
    BY <2>1, <2>2
<1>6. /\ rb_buf' = [rb_buf EXCEPT ![r] = d]
      /\ rb_tl' = [rb_tl EXCEPT ![r] = RB_ROLLOVER(t + m)]
      /\ rv' = m /\ rb_hd' = rb_hd
  BY DEF contig_put, SetTl, TypeOK
<1> HIDE DEF m
<1>7. RB_ROLLOVER(t + m) = Round(t + m) /\ Round(t + m) \in Off
  BY <1>2, <1>3, RingAssumption DEF RB_ROLLOVER, Round, Off
<1>8. Line(h, Round(t + m), d) = Line(h, t, b) \o u
  <2>1. ASSUME NEW k \in 0 .. m - 1 PROVE d[Round(t + k)] = u[k + 1]
    <3>1. t \in Off /\ t + m <= RBSZ /\ m \in Nat
      BY <1>2, <1>3
    <3> HIDE DEF t
    <3>2. t + k \in Off /\ t + k \in t .. t + m - 1
      BY <3>1, RingAssumption DEF Off
    <3>3. Round(t + k) = t + k /\ (t + k) - t + 1 = k + 1 /\ k + 1 \in 1 .. m
      BY <3>1, <3>2, RingAssumption DEF Round, Off
    <3> QED
      BY <3>2, <3>3
  <2>2. ASSUME NEW k \in 0 .. Span(h, t) - 1 PROVE d[Round(h + k)] = b[Round(h + k)]
    <3>1. h \in Off /\ t \in Off /\ m <= RBSZ - 1 - Span(h, t) /\ m \in Nat
      BY <1>2, <1>3
    <3> HIDE DEF h, t, b, d, u
    <3>2. Round(h + k) \in Off /\ Round(h + k) \notin t .. t + m - 1
      BY <3>1, RingAssumption DEF Round, Off, Span
    <3> USE DEF d
    <3> QED
      BY <3>2
  <2>3. Span(h, t) + m < RBSZ
    BY <1>2, <1>3, RingAssumption
  <2> HIDE DEF h, t, b, d, u
  <2> QED
    BY <1>2, <1>4, <1>5, <2>1, <2>2, <2>3, LineAppend
<1> HIDE DEF d
<1>9. TypeOK'
  <2>1. m \in 0 .. RBSZ
    BY <1>2, <1>3, RingAssumption
  <2> QED
    BY <1>5, <1>6, <1>7, <2>1 DEF TypeOK
<1> HIDE DEF u
<1>10. Contents(r)' = Contents(r) \o u
  <2>1. rb_hd'[r] = h /\ rb_tl'[r] = Round(t + m) /\ rb_buf'[r] = d
    BY <1>6, <1>7 DEF TypeOK
  <2> QED
    BY <1>2, <1>8, <1>9, <2>1, ContentsNext
<1>11. Queues!Becomes(r, Contents(r) \o u)
  BY <1>6, <1>10, OneRing DEF TypeOK, Untouched
<1>12. Queues!PutRun(r, u)
  <2>1. Len(Contents(r)) + Len(u) <= RBSZ - 1
    BY <1>2, <1>3, <1>4, RingAssumption
  <2>2. u = <<>> <=> Len(u) = 0
    BY <1>4, EmptySeq
  <2>3. (u = <<>>) = (Len(Contents(r)) = RBSZ - 1)
    BY <1>3, <1>4, <2>2
  <2> QED
    BY <1>4, <1>6, <1>11, <2>1, <2>3 DEF Queues!PutRun
<1>13. m \in 0 .. RBSZ - 1
  BY <1>2, <1>3, RingAssumption
<1> QED
  BY <1>4, <1>9, <1>12, <1>13

\* A run of characters is taken from the front.
LEMMA GetRunStep ==
  ASSUME TypeOK, NEW r \in Ring, NEW most \in 1 .. RBSZ, contig_get(r, most)
  PROVE  TypeOK' /\ \E n \in 0 .. RBSZ - 1 : Queues!GetRun(r, n)
<1> DEFINE h == rb_hd[r]
           t == rb_tl[r]
           b == rb_buf[r]
           n == Min({RB_CONTIGGET(r), most})
<1>1. /\ h \in Off /\ t \in Off /\ b \in [Off -> Char]
      /\ Contents(r) = Line(h, t, b) /\ Len(Contents(r)) = Span(h, t)
      /\ Len(Contents(r)) \in 0 .. RBSZ - 1
  BY ContentsNow
<1>2. /\ n \in 0 .. Len(Contents(r)) /\ h + n <= RBSZ
      /\ n = 0 <=> Len(Contents(r)) = 0
  <2>0. RB_CONTIGGET(r) \in Int /\ most \in Int
    BY ContigRuns
  <2>1. n = IF RB_CONTIGGET(r) <= most THEN RB_CONTIGGET(r) ELSE most
    BY <2>0, MinOfTwo
  <2> HIDE DEF n
  <2> QED
    BY <1>1, <2>1, ContigRuns, RingAssumption DEF Off
<1>3. /\ rb_hd' = [rb_hd EXCEPT ![r] = RB_ROLLOVER(h + n)]
      /\ rv' = n /\ rb_tl' = rb_tl /\ rb_buf' = rb_buf
  BY DEF contig_get, SetHd
<1> HIDE DEF n
<1>4. RB_ROLLOVER(h + n) = Round(h + n)
  BY <1>1, <1>2, RingAssumption DEF RB_ROLLOVER, Round, Off
<1>5. /\ Round(h + n) \in Off
      /\ Line(Round(h + n), t, b) = SubSeq(Contents(r), n + 1, Len(Contents(r)))
  <2>1. n \in 0 .. Span(h, t)
    BY <1>1, <1>2
  <2> HIDE DEF h, t, b
  <2> QED
    BY <1>1, <2>1, LineDrop
<1>6. TypeOK'
  <2>1. n \in 0 .. RBSZ
    BY <1>1, <1>2, RingAssumption
  <2> QED
    BY <1>3, <1>4, <1>5, <2>1 DEF TypeOK
<1>7. Contents(r)' = SubSeq(Contents(r), n + 1, Len(Contents(r)))
  <2>1. rb_hd'[r] = Round(h + n) /\ rb_tl'[r] = t /\ rb_buf'[r] = b
    BY <1>3, <1>4 DEF TypeOK
  <2> QED
    BY <1>5, <1>6, <2>1, ContentsNext
<1>8. Queues!Becomes(r, SubSeq(Contents(r), n + 1, Len(Contents(r))))
  BY <1>3, <1>7, OneRing DEF TypeOK, Untouched
<1>9. (n = 0) = (Contents(r) = <<>>)
  BY <1>2, RoomAndLength
<1>10. n <= Len(Contents(r)) /\ n \in 0 .. RBSZ - 1
  BY <1>1, <1>2, RingAssumption
<1>11. Queues!GetRun(r, n)
  BY <1>3, <1>8, <1>9, <1>10 DEF Queues!GetRun
<1> QED
  BY <1>6, <1>10, <1>11

-----------------------------------------------------------------------------
(* catb().                                                                 *)

\* Appending as much of q as fits is appending all and cutting the rest off.
LEMMA CutConcat ==
  ASSUME NEW p \in Seq(Char), NEW q \in Seq(Char), NEW u \in Seq(Char), NEW size \in Nat,
         Len(p) <= size,
         Len(u) = IF Len(q) <= size - Len(p) THEN Len(q) ELSE size - Len(p),
         \A i \in 1 .. Len(u) : u[i] = q[i]
  PROVE  SubSeq(p \o q, 1, Min({Len(p \o q), size})) = p \o u
<1> DEFINE m == Min({Len(p \o q), size})
           R == SubSeq(p \o q, 1, m)
<1>1. Len(p) \in Nat /\ Len(q) \in Nat /\ Len(u) \in Nat
  BY LenProperties
<1>2. /\ p \o q \in Seq(Char) /\ Len(p \o q) = Len(p) + Len(q)
      /\ \A i \in 1 .. Len(p) + Len(q) : (p \o q)[i] = IF i <= Len(p) THEN p[i] ELSE q[i - Len(p)]
  BY ConcatProperties
<1>3. /\ p \o u \in Seq(Char) /\ Len(p \o u) = Len(p) + Len(u)
      /\ \A i \in 1 .. Len(p) + Len(u) : (p \o u)[i] = IF i <= Len(p) THEN p[i] ELSE u[i - Len(p)]
  BY ConcatProperties
<1>4. m = Len(p) + Len(u)
  <2>1. Len(p \o q) \in Int /\ size \in Int
    BY <1>1, <1>2
  <2>2. m = IF Len(p \o q) <= size THEN Len(p \o q) ELSE size
    BY <2>1, MinOfTwo
  <2> HIDE DEF m
  <2> QED
    BY <1>1, <1>2, <2>2
<1> HIDE DEF m
<1>5. m \in Nat /\ m <= Len(p) + Len(q)
  BY <1>1, <1>4
<1>6. R \in Seq(Char) /\ Len(R) = m /\ \A i \in 1 .. m : R[i] = (p \o q)[i]
  <2>1. \A i \in 1 .. m : (p \o q)[i] \in Char
    <3>1. \A i \in 1 .. m : i \in 1 .. Len(p \o q)
      BY <1>1, <1>2, <1>5
    <3> QED
      BY <1>2, <3>1, ElementOfSeq
  <2>2. /\ SubSeq(p \o q, 1, m) \in Seq(Char)
        /\ Len(SubSeq(p \o q, 1, m)) = IF 1 <= m THEN m - 1 + 1 ELSE 0
        /\ \A i \in 1 .. m - 1 + 1 : SubSeq(p \o q, 1, m)[i] = (p \o q)[1 + i - 1]
    BY <1>5, <2>1, SubSeqProperties
  <2> QED
    BY <1>5, <2>2
<1> HIDE DEF R
<1>7. ASSUME NEW i \in 1 .. m PROVE R[i] = (p \o u)[i]
  <2>1. i \in 1 .. Len(p) + Len(q) /\ i \in 1 .. Len(p) + Len(u)
    BY <1>1, <1>4, <1>5
  <2>2. CASE i <= Len(p)
    BY <1>2, <1>3, <1>6, <2>1, <2>2
  <2>3. CASE i > Len(p)
    <3>1. i - Len(p) \in 1 .. Len(u) /\ ~(i <= Len(p))
      BY <1>1, <2>1, <2>3
    <3>2. u[i - Len(p)] = q[i - Len(p)]
      BY <3>1
    <3> QED
      BY <1>2, <1>3, <1>6, <2>1, <3>1, <3>2
  <2>4. i <= Len(p) \/ i > Len(p)
    BY <1>1, <2>1
  <2> QED
    BY <2>2, <2>3, <2>4
<1>8. R = p \o u
  BY <1>3, <1>4, <1>6, <1>7, SeqEqual
<1> QED
  BY <1>8 DEF R, m
\* The places counted from t, as catb() fills them, and the line they lengthen.
LEMMA RankOfPlace ==
  ASSUME NEW h \in Off, NEW t \in Off, NEW n \in 0 .. RBSZ - 1 - Span(h, t)
  PROVE  /\ \A i \in Off : (i - t + RBSZ) % RBSZ = Round(i - t + RBSZ)
         /\ \A k \in 0 .. n - 1 : Round(t + k) \in Off /\ Round(Round(t + k) - t + RBSZ) = k
         /\ \A k \in 0 .. Span(h, t) - 1 :
               Round(h + k) \in Off /\ ~(Round(Round(h + k) - t + RBSZ) < n)
         /\ \A i \in Off : Round(i - t + RBSZ) \in 0 .. RBSZ - 1
<1>1. Span(h, t) \in 0 .. RBSZ - 1
  BY RingAssumption DEF Span, Off
<1>2. ASSUME NEW i \in Off PROVE (i - t + RBSZ) % RBSZ = Round(i - t + RBSZ)
  <2>1. i - t + RBSZ \in 0 .. 2 * RBSZ - 1
    BY RingAssumption DEF Off
  <2> QED
    BY <2>1, Wrap
<1>3. ASSUME NEW k \in 0 .. n - 1
      PROVE  Round(t + k) \in Off /\ Round(Round(t + k) - t + RBSZ) = k
  BY <1>1, RingAssumption DEF Round, Off
<1>4. ASSUME NEW k \in 0 .. Span(h, t) - 1
      PROVE  Round(h + k) \in Off /\ ~(Round(Round(h + k) - t + RBSZ) < n)
  BY <1>1, RingAssumption DEF Round, Off, Span
<1>5. \A i \in Off : Round(i - t + RBSZ) \in 0 .. RBSZ - 1
  BY RingAssumption DEF Round, Off
<1> QED
  BY <1>2, <1>3, <1>4, <1>5

\* catb() moves one queue behind the other and loses what does not fit.
LEMMA MoveStep ==
  ASSUME TypeOK, NEW from \in Ring, NEW to \in Ring, catb(from, to)
  PROVE  TypeOK' /\ Queues!Move(from, to)
<1> DEFINE h == rb_hd[to]
           t == rb_tl[to]
           b == rb_buf[to]
           g == rb_hd[from]
           a == rb_buf[from]
           n == Min({RB_LEN(from), Room(to)})
           P == Contents(to)
           Q == Contents(from)
           u == [i \in 1 .. n |-> Q[i]]
           d == [i \in Off |-> IF (i - t + RBSZ) % RBSZ < n
                               THEN a[(g + ((i - t + RBSZ) % RBSZ)) % RBSZ] ELSE b[i]]
<1>1. /\ h \in Off /\ t \in Off /\ b \in [Off -> Char]
      /\ P = Line(h, t, b) /\ P \in Seq(Char) /\ RB_LEN(to) = Len(P)
      /\ Len(P) = Span(h, t) /\ Len(P) \in 0 .. RBSZ - 1
  BY ContentsNow
<1>2. /\ g \in Off /\ a \in [Off -> Char] /\ Q \in Seq(Char) /\ RB_LEN(from) = Len(Q)
      /\ Len(Q) \in 0 .. RBSZ - 1
      /\ \A i \in 1 .. Len(Q) : Q[i] = a[Round(g + i - 1)]
  <2>1. /\ g \in Off /\ rb_tl[from] \in Off /\ a \in [Off -> Char] /\ Q \in Seq(Char)
        /\ RB_LEN(from) = Len(Q) /\ Len(Q) = Span(g, rb_tl[from])
        /\ Len(Q) \in 0 .. RBSZ - 1 /\ Q = Line(g, rb_tl[from], a)
    BY ContentsNow
  <2>2. \A i \in 1 .. Span(g, rb_tl[from]) : Line(g, rb_tl[from], a)[i] = a[Round(g + i - 1)]
    BY <2>1, LineType
  <2> HIDE DEF g, a, Q
  <2> QED
    BY <2>1, <2>2
<1>3. /\ n = IF Len(Q) <= RBSZ - 1 - Len(P) THEN Len(Q) ELSE RBSZ - 1 - Len(P)
      /\ n \in 0 .. Len(Q) /\ n \in 0 .. RBSZ - 1 - Span(h, t)
  <2>1. Len(Q) \in Int /\ RBSZ - 1 - Len(P) \in Int
    BY <1>1, <1>2, RingAssumption
  <2>2. n = Min({Len(Q), RBSZ - 1 - Len(P)})
    BY <1>1, <1>2 DEF Room
  <2> HIDE DEF n, P, Q
  <2>3. n = IF Len(Q) <= RBSZ - 1 - Len(P) THEN Len(Q) ELSE RBSZ - 1 - Len(P)
    BY <2>1, <2>2, MinOfTwo
  <2> QED
    BY <1>1, <1>2, <2>3, RingAssumption
<1>4. /\ from # to
      /\ rb_hd' = [rb_hd EXCEPT ![from] = rb_tl[from]]
      /\ rb_tl' = [rb_tl EXCEPT ![to] = (t + n) % RBSZ]
      /\ rb_buf' = [rb_buf EXCEPT ![to] = d]
      /\ rv' = 0
  BY DEF catb, SetHd, SetTl, TypeOK
<1> HIDE DEF n
<1>5. u \in Seq(Char) /\ Len(u) = n /\ \A i \in 1 .. Len(u) : u[i] = Q[i]
  <2>1. n \in Nat
    BY <1>3
  <2>2. u \in [1 .. n -> Char]
    BY <1>2, <1>3, ElementOfSeq
  <2>3. u \in Seq(Char)
    BY <2>1, <2>2, SeqDef
  <2>4. Len(u) = n
    <3> HIDE DEF u
    <3> QED
      BY <2>1, <2>2, <2>3, LenProperties
  <2> QED
    BY <2>3, <2>4
<1>6. d = [i \in Off |-> IF Round(i - t + RBSZ) < n
                         THEN a[Round(g + Round(i - t + RBSZ))] ELSE b[i]]
  <2>1. \A i \in Off : /\ (i - t + RBSZ) % RBSZ = Round(i - t + RBSZ)
                       /\ Round(i - t + RBSZ) \in 0 .. RBSZ - 1
    <3> HIDE DEF h, t
    <3> QED
      BY <1>1, <1>3, RankOfPlace
  <2>2. ASSUME NEW k \in 0 .. RBSZ - 1 PROVE (g + k) % RBSZ = Round(g + k)
    <3>1. g + k \in 0 .. 2 * RBSZ - 1
      BY <1>2, RingAssumption DEF Off
    <3> QED
      BY <3>1, Wrap
  <2>3. ASSUME NEW i \in Off
        PROVE  (IF (i - t + RBSZ) % RBSZ < n
                THEN a[(g + ((i - t + RBSZ) % RBSZ)) % RBSZ] ELSE b[i])
                 = (IF Round(i - t + RBSZ) < n
                    THEN a[Round(g + Round(i - t + RBSZ))] ELSE b[i])
    <3>1. PICK k \in 0 .. RBSZ - 1 : k = Round(i - t + RBSZ) /\ k = (i - t + RBSZ) % RBSZ
      BY <2>1
    <3>2. (g + k) % RBSZ = Round(g + k)
      BY <2>2
    <3> QED
      BY <3>1, <3>2
  <2> QED
    BY <2>3
<1> HIDE DEF d
<1>7. d \in [Off -> Char]
  <2> SUFFICES ASSUME NEW i \in Off
               PROVE  (IF Round(i - t + RBSZ) < n
                       THEN a[Round(g + Round(i - t + RBSZ))] ELSE b[i]) \in Char
    BY <1>6
  <2>1. Round(i - t + RBSZ) \in 0 .. RBSZ - 1
    <3> HIDE DEF h, t
    <3> QED
      BY <1>1, <1>3, RankOfPlace
  <2>2. Round(g + Round(i - t + RBSZ)) \in Off
    <3>1. PICK k \in 0 .. RBSZ - 1 : k = Round(i - t + RBSZ)
      BY <2>1
    <3>2. Round(g + k) \in Off
      BY <1>2, RingAssumption DEF Round, Off
    <3> QED
      BY <3>1, <3>2
  <2> QED
    BY <1>1, <1>2, <2>2
<1>8. (t + n) % RBSZ = Round(t + n) /\ Round(t + n) \in Off
  <2>1. t + n \in 0 .. 2 * RBSZ - 1
    BY <1>1, <1>3, RingAssumption DEF Off
  <2> QED
    BY <2>1, Wrap
<1>9. Line(h, Round(t + n), d) = P \o u
  <2>1. ASSUME NEW k \in 0 .. n - 1 PROVE d[Round(t + k)] = u[k + 1]
    <3>1. Round(t + k) \in Off /\ Round(Round(t + k) - t + RBSZ) = k
      <4> HIDE DEF h, t
      <4> QED
        BY <1>1, <1>3, RankOfPlace
    <3>2. k < n
      BY <1>3
    <3>3. d[Round(t + k)] = a[Round(g + k)]
      BY <1>6, <3>1, <3>2
    <3>4. k + 1 \in 1 .. n /\ k + 1 \in 1 .. Len(Q) /\ g + (k + 1) - 1 = g + k
      BY <1>2, <1>3 DEF Off
    <3>5. Q[k + 1] = a[Round(g + (k + 1) - 1)]
      BY <1>2, <3>4
    <3> QED
      BY <3>3, <3>4, <3>5
  <2>2. ASSUME NEW k \in 0 .. Span(h, t) - 1 PROVE d[Round(h + k)] = b[Round(h + k)]
    <3>1. Round(h + k) \in Off /\ ~(Round(Round(h + k) - t + RBSZ) < n)
      <4> HIDE DEF h, t
      <4> QED
        BY <1>1, <1>3, RankOfPlace
    <3> QED
      BY <1>6, <3>1
  <2>3. Span(h, t) + n < RBSZ
    BY <1>1, <1>3, RingAssumption
  <2> HIDE DEF h, t, b, u, P
  <2>4. Line(h, Round(t + n), d) = Line(h, t, b) \o u
    <3>0. h \in Off /\ t \in Off /\ b \in [Off -> Char] /\ u \in Seq(Char)
      BY <1>1, <1>5
    <3>1. Span(h, t) + Len(u) < RBSZ
      BY <1>5, <2>3
    <3>2. \A k \in 0 .. Len(u) - 1 : d[Round(t + k)] = u[k + 1]
      BY <1>5, <2>1
    <3>3. \A k \in 0 .. Span(h, t) - 1 : d[Round(h + k)] = b[Round(h + k)]
      BY <2>2
    <3>4. Line(h, Round(t + Len(u)), d) = Line(h, t, b) \o u
      BY <1>7, <3>0, <3>1, <3>2, <3>3, LineAppend
    <3> QED
      BY <1>5, <3>4
  <2> QED
    BY <1>1, <2>4
<1>10. TypeOK'
  <2>1. rb_tl[from] \in Off
    BY ContentsNow
  <2> QED
    BY <1>4, <1>7, <1>8, <2>1, RingAssumption DEF TypeOK
<1>11. Contents(to)' = P \o u
  <2>1. rb_hd'[to] = h /\ rb_tl'[to] = Round(t + n) /\ rb_buf'[to] = d
    BY <1>4, <1>8 DEF TypeOK
  <2> HIDE DEF P, u
  <2> QED
    BY <1>9, <1>10, <2>1, ContentsNext
<1>12. Contents(from)' = <<>>
  <2>1. rb_hd'[from] = rb_tl[from] /\ rb_tl'[from] = rb_tl[from] /\ rb_tl[from] \in Off
    BY <1>4, ContentsNow DEF TypeOK
  <2>2. RB_LEN(from)' = 0
    BY <2>1 DEF RB_LEN, Off
  <2> QED
    BY <2>2 DEF Contents
<1>13. \A q \in Ring \ {from, to} : Contents(q)' = Contents(q)
  <2>1. \A q \in Ring \ {from, to} : Untouched(q)
    BY <1>4 DEF TypeOK, Untouched
  <2> QED
    BY <2>1, UntouchedContents
<1>14. SubSeq(P \o Q, 1, Queues!Min({Len(P \o Q), RBSZ - 1})) = P \o u
  <2>1. Len(P \o Q) \in Int /\ RBSZ - 1 \in Nat /\ Len(P) <= RBSZ - 1
    <3> HIDE DEF P, Q
    <3> QED
      BY <1>1, <1>2, ConcatProperties, RingAssumption
  <2>2. Queues!Min({Len(P \o Q), RBSZ - 1}) = Min({Len(P \o Q), RBSZ - 1})
    BY <2>1, MinOfTwo
  <2> HIDE DEF P, Q, u
  <2>3. Len(u) = IF Len(Q) <= RBSZ - 1 - Len(P) THEN Len(Q) ELSE RBSZ - 1 - Len(P)
    BY <1>3, <1>5
  <2>4. PICK size \in Nat : size = RBSZ - 1
    BY <2>1
  <2>5. SubSeq(P \o Q, 1, Min({Len(P \o Q), size})) = P \o u
    BY ZenonT(30), <1>1, <1>2, <1>5, <2>1, <2>3, <2>4, CutConcat
  <2> QED
    BY <2>2, <2>4, <2>5
<1>15. Queues!Move(from, to)
  <2> HIDE DEF u
  <2> QED
    BY <1>4, <1>11, <1>12, <1>13, <1>14 DEF Queues!Move
<1> QED
  BY <1>10, <1>15

-----------------------------------------------------------------------------
(* The theorem.                                                            *)

\* The rings start empty.
LEMMA InitRefines == Init => TypeOK /\ Queues!Init
<1> SUFFICES ASSUME Init PROVE TypeOK /\ Queues!Init
  OBVIOUS
<1>1. 0 \in Off
  BY RingAssumption DEF Off
<1>2. rb_buf \in [Ring -> [Off -> Char]]
  BY DEF Init
<1>3. TypeOK
  BY <1>1, <1>2, RingAssumption DEF Init, TypeOK
<1>4. \A r \in Ring : Contents(r) = <<>>
  <2>1. \A r \in Ring : rb_hd[r] = 0 /\ rb_tl[r] = 0
    BY DEF Init
  <2> QED
    BY <2>1 DEF Contents, RB_LEN
<1> QED
  BY <1>3, <1>4 DEF Init, Queues!Init

\* Every step keeps the types and is a step of the queues.
LEMMA StepRefines == TypeOK /\ [Next]_vars => TypeOK' /\ [Queues!Next]_<<[r \in Ring |-> Contents(r)], rv>>
<1> SUFFICES ASSUME TypeOK, [Next]_vars
             PROVE  TypeOK' /\ [Queues!Next]_<<[r \in Ring |-> Contents(r)], rv>>
  OBVIOUS
<1>1. CASE UNCHANGED vars
  <2>1. TypeOK'
    BY <1>1 DEF vars, TypeOK
  <2>2. \A r \in Ring : Contents(r)' = Contents(r)
    BY <1>1, UntouchedContents DEF vars, Untouched
  <2> QED
    BY <1>1, <2>1, <2>2 DEF vars
<1>2. CASE Next
  <2> PICK r \in Ring :
        \/ \E c \in Char : putc(c, r) \/ ungetc(c, r)
        \/ getc(r) \/ unputc(r) \/ initrb(r)
        \/ \E n \in 1 .. RBSZ : contig_get(r, n) \/ \E s \in [1 .. n -> Char] : contig_put(r, s)
        \/ \E to \in Ring : catb(r, to)
    BY <1>2 DEF Next
  <2>1. ASSUME NEW c \in Char, putc(c, r) PROVE TypeOK' /\ Queues!Next
    BY <2>1, PutStep DEF Queues!Next
  <2>2. ASSUME NEW c \in Char, ungetc(c, r) PROVE TypeOK' /\ Queues!Next
    BY <2>2, UngetStep DEF Queues!Next
  <2>3. CASE getc(r)
    BY <2>3, GetStep DEF Queues!Next
  <2>4. CASE unputc(r)
    BY <2>4, UnputStep DEF Queues!Next
  <2>5. CASE initrb(r)
    BY <2>5, FlushStep DEF Queues!Next
  <2>6. ASSUME NEW n \in 1 .. RBSZ, contig_get(r, n) PROVE TypeOK' /\ Queues!Next
    BY <2>6, GetRunStep DEF Queues!Next
  <2>7. ASSUME NEW n \in 1 .. RBSZ, NEW s \in [1 .. n -> Char], contig_put(r, s)
        PROVE  TypeOK' /\ Queues!Next
    BY <2>7, PutRunStep DEF Queues!Next
  <2>8. ASSUME NEW to \in Ring, catb(r, to) PROVE TypeOK' /\ Queues!Next
    BY <2>8, MoveStep DEF Queues!Next
  <2> QED
    BY <2>1, <2>2, <2>3, <2>4, <2>5, <2>6, <2>7, <2>8
<1> QED
  BY <1>1, <1>2

\* The ring buffers are bounded queues: no operation loses, repeats or reorders a
\* character across the end of the buffer, none is refused while there is room or a
\* character to read, and a full ring never looks empty.
THEOREM RingIsFifo == Spec => ImplementsFifo
BY InitRefines, StepRefines, PTL DEF Spec, ImplementsFifo, Queues!Spec

-----------------------------------------------------------------------------
(* Resource lists: the units of a resource are held or on its list.        *)

\* A set of numbers that is not empty has a least one, and it is Min.
LEMMA LeastIs ==
  ASSUME NEW T \in SUBSET Nat, T # {}
  PROVE  Min(T) \in T /\ \A j \in T : Min(T) <= j
<1> DEFINE R == OpToRel(<, Nat)
<1>1. IsWellFoundedOn(R, Nat)
  BY NatLessThanWellFounded
<1>2. \A x, y \in Nat : <<y, x>> \in R <=> y < x
  BY DEF OpToRel
<1> HIDE DEF R
<1>3. PICK i \in T : \A j \in T : ~(<<j, i>> \in R)
  BY <1>1, WFMin
<1>4. \E x \in T : \A y \in T : x =< y
  <2>1. \A y \in T : i =< y
    <3> TAKE y \in T
    <3>1. ~(y < i)
      BY <1>2, <1>3
    <3> QED
      BY <3>1
  <2> QED
    BY <2>1
<1> QED
  BY <1>4 DEF Min

\* The elements of a list, and the units on it.
At(s, i) == s[i].start .. s[i].end
Has(s, u) == \E i \in 1 .. Len(s) : s[i].start <= u /\ u <= s[i].end

\* A list in which no unit is twice: elements with addresses of their own, not
\* empty, that do not overlap.
Apart(d, e) == d.id # e.id /\ (d.end < e.start \/ e.end < d.start)
Proper(e) == e \in Element /\ e.start <= e.end
Good(s) == /\ s \in Seq(Element)
           /\ \A i \in 1 .. Len(s) : Proper(s[i])
           /\ \A i, j \in 1 .. Len(s) : i # j => Apart(s[i], s[j])

\* Elements in order, and with a void between neighbours.
Ordered(s) == \A i, j \in 1 .. Len(s) : i < j => s[i].end < s[j].start
Gaps(s) == \A i, j \in 1 .. Len(s) : i < j => s[i].end + 1 < s[j].start

\* t is s with e in place k; t is s without place k.
Inserted(t, s, k, e) ==
  /\ t \in Seq(Element) /\ Len(t) = Len(s) + 1
  /\ \A i \in 1 .. Len(t) : t[i] = IF i < k THEN s[i] ELSE IF i = k THEN e ELSE s[i - 1]
Removed(t, s, k) ==
  /\ t \in Seq(Element) /\ Len(t) = Len(s) - 1
  /\ \A i \in 1 .. Len(t) : t[i] = IF i < k THEN s[i] ELSE s[i + 1]
\* e goes to place k, where it does not meet the others.
Replaced(t, s, k, e) == t = [s EXCEPT ![k] = e]
FitsIn(s, k, e) == \A i \in 1 .. Len(s) : i # k => Apart(s[i], e)

LEMMA ElementIs ==
  ASSUME NEW e, e \in Element
  PROVE  /\ e.id \in Address /\ e.start \in Unit /\ e.end \in Unit
         /\ e.id \in Int /\ e.start \in Int /\ e.end \in Int
BY RlistAssumption DEF Element, Address, Unit

LEMMA GoodIs ==
  ASSUME NEW s, Good(s)
  PROVE  /\ s \in Seq(Element) /\ Len(s) \in Nat /\ DOMAIN s = 1 .. Len(s)
         /\ \A i \in 1 .. Len(s) :
              /\ s[i] \in Element /\ s[i].start <= s[i].end
              /\ s[i].id \in Address /\ s[i].start \in Unit /\ s[i].end \in Unit
              /\ s[i].id \in Int /\ s[i].start \in Int /\ s[i].end \in Int
<1>1. s \in Seq(Element) /\ \A i \in 1 .. Len(s) : s[i] \in Element /\ s[i].start <= s[i].end
  BY DEF Good, Proper
<1>2. Len(s) \in Nat /\ DOMAIN s = 1 .. Len(s)
  BY <1>1, LenProperties
<1>3. ASSUME NEW i \in 1 .. Len(s)
      PROVE  /\ s[i].id \in Address /\ s[i].start \in Unit /\ s[i].end \in Unit
             /\ s[i].id \in Int /\ s[i].start \in Int /\ s[i].end \in Int
  BY <1>1, ElementIs
<1> QED
  BY <1>1, <1>2, <1>3

LEMMA InsertAtIs ==
  ASSUME NEW s \in Seq(Element), NEW e \in Element, NEW k \in 1 .. Len(s) + 1
  PROVE  Inserted(InsertAt(s, k, e), s, k, e)
<1> DEFINE b == SubSeq(s, 1, k - 1)
           c == SubSeq(s, k, Len(s))
<1>1. Len(s) \in Nat /\ k \in Nat /\ 1 <= k /\ k <= Len(s) + 1
  BY LenProperties
<1>2. b \in Seq(Element) /\ Len(b) = k - 1 /\ \A i \in 1 .. k - 1 : b[i] = s[i]
  BY <1>1, SubSeqProperties
<1>3. c \in Seq(Element) /\ Len(c) = Len(s) - k + 1 /\ \A i \in 1 .. Len(s) - k + 1 : c[i] = s[k + i - 1]
  BY <1>1, SubSeqProperties
<1>4. InsertAt(s, k, e) = b \o <<e>> \o c
  BY DEF InsertAt
<1> HIDE DEF b, c
<1>5. <<e>> \in Seq(Element) /\ Len(<<e>>) = 1 /\ <<e>>[1] = e
  OBVIOUS
<1> DEFINE d == b \o <<e>>
<1>6. d \in Seq(Element) /\ Len(d) = k /\ \A i \in 1 .. k : d[i] = IF i < k THEN s[i] ELSE e
  <2>1. d \in Seq(Element) /\ Len(d) = k
    BY <1>1, <1>2, <1>5
  <2>2. \A i \in 1 .. k : d[i] = IF i <= k - 1 THEN b[i] ELSE <<e>>[i - (k - 1)]
    BY <1>1, <1>2, <1>5, ConcatProperties
  <2>3. ASSUME NEW i \in 1 .. k PROVE d[i] = IF i < k THEN s[i] ELSE e
    <3>1. CASE i < k
      <4>1. i \in 1 .. k - 1 /\ i <= k - 1
        BY <1>1, <3>1
      <4>2. d[i] = b[i]
        BY <2>2, <4>1
      <4> QED
        BY <1>2, <3>1, <4>1, <4>2
    <3>2. CASE i = k
      <4>1. k - (k - 1) = 1 /\ ~(k <= k - 1) /\ ~(k < k)
        BY <1>1
      <4>2. d[k] = <<e>>[1]
        BY <2>2, <3>2, <4>1
      <4> QED
        BY <1>5, <3>2, <4>1, <4>2
    <3>3. i < k \/ i = k
      BY <1>1
    <3> QED
      BY <3>1, <3>2, <3>3
  <2> QED
    BY <2>1, <2>3
<1>7. InsertAt(s, k, e) = d \o c
  BY <1>4
<1> HIDE DEF d
<1>8. d \o c \in Seq(Element) /\ Len(d \o c) = Len(s) + 1
  BY <1>1, <1>3, <1>6
<1>9. \A i \in 1 .. Len(s) + 1 : (d \o c)[i] = IF i <= k THEN d[i] ELSE c[i - k]
  BY <1>1, <1>3, <1>6, ConcatProperties
<1>10. ASSUME NEW i \in 1 .. Len(s) + 1
       PROVE  (d \o c)[i] = IF i < k THEN s[i] ELSE IF i = k THEN e ELSE s[i - 1]
  <2>1. CASE i <= k
    BY <1>1, <1>6, <1>9, <2>1
  <2>2. CASE ~(i <= k)
    <3>1. i - k \in 1 .. Len(s) - k + 1 /\ k + (i - k) - 1 = i - 1 /\ ~(i < k) /\ i # k
      BY <1>1, <2>2
    <3>2. (d \o c)[i] = c[i - k]
      BY <1>9, <2>2
    <3>3. c[i - k] = s[k + (i - k) - 1]
      BY <1>3, <3>1
    <3> QED
      BY <3>1, <3>2, <3>3
  <2> QED
    BY <2>1, <2>2
<1> QED
  BY <1>7, <1>8, <1>10 DEF Inserted

LEMMA AppendIs ==
  ASSUME NEW s \in Seq(Element), NEW e \in Element
  PROVE  Inserted(Append(s, e), s, Len(s) + 1, e)
<1>1. /\ Append(s, e) \in Seq(Element) /\ Len(Append(s, e)) = Len(s) + 1 /\ Len(s) \in Nat
      /\ \A i \in 1 .. Len(s) : Append(s, e)[i] = s[i]
      /\ Append(s, e)[Len(s) + 1] = e
  BY LenProperties, AppendProperties
<1> QED
  BY <1>1 DEF Inserted

LEMMA PrependIs ==
  ASSUME NEW s \in Seq(Element), NEW e \in Element
  PROVE  Inserted(<<e>> \o s, s, 1, e)
<1>1. Len(s) \in Nat
  BY LenProperties
<1>2. <<e>> \in Seq(Element) /\ Len(<<e>>) = 1 /\ <<e>>[1] = e
  OBVIOUS
<1>3. <<e>> \o s \in Seq(Element) /\ Len(<<e>> \o s) = Len(s) + 1
  BY <1>1, <1>2
<1>4. \A i \in 1 .. Len(s) + 1 : (<<e>> \o s)[i] = IF i <= 1 THEN <<e>>[i] ELSE s[i - 1]
  BY <1>1, <1>2, ConcatProperties
<1> QED
  BY <1>1, <1>2, <1>3, <1>4 DEF Inserted

LEMMA RemoveAtIs ==
  ASSUME NEW s \in Seq(Element), NEW k \in 1 .. Len(s)
  PROVE  Removed(RemoveAt(s, k), s, k)
<1> DEFINE b == SubSeq(s, 1, k - 1)
           c == SubSeq(s, k + 1, Len(s))
<1>1. Len(s) \in Nat /\ k \in Nat /\ 1 <= k /\ k <= Len(s)
  BY LenProperties
<1>2. b \in Seq(Element) /\ Len(b) = k - 1 /\ \A i \in 1 .. k - 1 : b[i] = s[i]
  BY <1>1, SubSeqProperties
<1>3. c \in Seq(Element) /\ Len(c) = Len(s) - k /\ \A i \in 1 .. Len(s) - k : c[i] = s[k + 1 + i - 1]
  BY <1>1, SubSeqProperties
<1>4. RemoveAt(s, k) = b \o c
  BY DEF RemoveAt
<1> HIDE DEF b, c
<1>5. b \o c \in Seq(Element) /\ Len(b \o c) = Len(s) - 1
  <2>1. b \o c \in Seq(Element) /\ Len(b \o c) = Len(b) + Len(c)
    BY <1>2, <1>3, ConcatProperties
  <2> QED
    BY <1>1, <1>2, <1>3, <2>1
<1>6. \A i \in 1 .. Len(s) - 1 : (b \o c)[i] = IF i <= k - 1 THEN b[i] ELSE c[i - (k - 1)]
  BY <1>1, <1>2, <1>3, ConcatProperties
<1>7. ASSUME NEW i \in 1 .. Len(s) - 1
      PROVE  (b \o c)[i] = IF i < k THEN s[i] ELSE s[i + 1]
  <2>1. CASE i < k
    <3>1. i \in 1 .. k - 1 /\ i <= k - 1
      BY <1>1, <2>1
    <3>2. (b \o c)[i] = b[i]
      BY <1>6, <3>1
    <3> QED
      BY <1>2, <2>1, <3>1, <3>2
  <2>2. CASE ~(i < k)
    <3>1. i - (k - 1) \in 1 .. Len(s) - k /\ k + 1 + (i - (k - 1)) - 1 = i + 1 /\ ~(i <= k - 1)
      BY <1>1, <2>2
    <3>2. (b \o c)[i] = c[i - (k - 1)]
      BY <1>6, <3>1
    <3>3. c[i - (k - 1)] = s[k + 1 + (i - (k - 1)) - 1]
      BY <1>3, <3>1
    <3> QED
      BY <2>2, <3>1, <3>2, <3>3
  <2> QED
    BY <2>1, <2>2
<1> QED
  BY <1>4, <1>5, <1>7 DEF Removed

-----------------------------------------------------------------------------
(* What happens to a list.                                                 *)

\* An element is added whose address and units are not on the list.
LEMMA InsertGood ==
  ASSUME NEW s, Good(s), NEW e, Proper(e), NEW k \in 1 .. Len(s) + 1, NEW t, Inserted(t, s, k, e),
         \A i \in 1 .. Len(s) : Apart(s[i], e)
  PROVE  /\ Good(t)
         /\ \A u \in Unit : Has(t, u) <=> Has(s, u) \/ u \in e.start .. e.end
         /\ Gaps(s) /\ (\A j \in 1 .. Len(s) : IF j < k THEN s[j].end + 1 < e.start ELSE e.end + 1 < s[j].start)
              => Gaps(t)
<1>1. Len(s) \in Nat /\ k \in Nat /\ 1 <= k /\ k <= Len(s) + 1
  BY GoodIs
<1>2. /\ t \in Seq(Element) /\ Len(t) = Len(s) + 1
      /\ \A i \in 1 .. Len(t) : t[i] = IF i < k THEN s[i] ELSE IF i = k THEN e ELSE s[i - 1]
  BY DEF Inserted
<1>3. /\ \A i \in 1 .. Len(s) : Proper(s[i])
      /\ \A i, j \in 1 .. Len(s) : i # j => Apart(s[i], s[j])
  BY DEF Good
<1>4. ASSUME NEW i \in 1 .. Len(t)
      PROVE  \/ i < k /\ i \in 1 .. Len(s) /\ t[i] = s[i]
             \/ i = k /\ t[i] = e
             \/ i > k /\ i - 1 \in 1 .. Len(s) /\ t[i] = s[i - 1]
  <2>1. i \in Int /\ 1 <= i /\ i <= Len(s) + 1 /\ (i < k \/ i = k \/ i > k)
    BY <1>1, <1>2
  <2>2. CASE i < k
    BY <1>1, <1>2, <2>1, <2>2
  <2>3. CASE i = k
    BY <1>1, <1>2, <2>1, <2>3
  <2>4. CASE i > k
    <3>1. ~(i < k) /\ i # k /\ i - 1 \in 1 .. Len(s)
      BY <1>1, <2>1, <2>4
    <3> QED
      BY <1>2, <2>4, <3>1
  <2> QED
    BY <2>1, <2>2, <2>3, <2>4
<1>4a. ASSUME NEW i \in 1 .. Len(t), i # k
       PROVE  \E m \in 1 .. Len(s) : t[i] = s[m] /\ m = IF i < k THEN i ELSE i - 1
  <2>1. i \in Int
    BY <1>1, <1>2
  <2>2. CASE i < k
    <3>1. i \in 1 .. Len(s) /\ t[i] = s[i]
      BY <1>1, <1>4, <2>1, <2>2
    <3> QED
      BY <2>2, <3>1
  <2>3. CASE ~(i < k)
    <3>1. i - 1 \in 1 .. Len(s) /\ t[i] = s[i - 1]
      BY <1>1, <1>4, <1>4a, <2>1, <2>3
    <3> QED
      BY <2>3, <3>1
  <2> QED
    BY <2>2, <2>3
<1>5. \A i \in 1 .. Len(t) : Proper(t[i])
  BY <1>3, <1>4
<1>6. \A x, y : Apart(x, y) <=> Apart(y, x)
  BY DEF Apart
<1>7. ASSUME NEW i \in 1 .. Len(t), NEW j \in 1 .. Len(t), i # j
      PROVE  Apart(t[i], t[j])
  <2>1. CASE i = k
    <3>1. j # k /\ t[i] = e
      BY <1>1, <1>4, <1>7, <2>1
    <3>2. PICK m \in 1 .. Len(s) : t[j] = s[m]
      BY <1>4, <3>1
    <3> QED
      BY <1>6, <3>1, <3>2
  <2>2. CASE j = k
    <3>1. i # k /\ t[j] = e
      BY <1>1, <1>4, <1>7, <2>2
    <3>2. PICK m \in 1 .. Len(s) : t[i] = s[m]
      BY <1>4, <3>1
    <3> QED
      BY <3>1, <3>2
  <2>3. CASE i # k /\ j # k
    <3>1. PICK m \in 1 .. Len(s) : t[i] = s[m] /\ m = IF i < k THEN i ELSE i - 1
      BY <1>4a, <2>3
    <3>2. PICK n \in 1 .. Len(s) : t[j] = s[n] /\ n = IF j < k THEN j ELSE j - 1
      BY <1>4a, <2>3
    <3>3. m # n
      BY <1>1, <1>7, <2>3, <3>1, <3>2
    <3> QED
      BY <1>3, <3>1, <3>2, <3>3
  <2> QED
    BY <2>1, <2>2, <2>3
<1>8. Good(t)
  BY <1>2, <1>5, <1>7 DEF Good
<1>9. k \in 1 .. Len(t) /\ t[k] = e
  BY <1>1, <1>2
<1>10. ASSUME NEW m \in 1 .. Len(s) PROVE \E i \in 1 .. Len(t) : t[i] = s[m]
  <2>1. CASE m < k
    <3>1. m \in 1 .. Len(t)
      BY <1>1, <1>2
    <3> QED
      BY <1>2, <2>1, <3>1
  <2>2. CASE ~(m < k)
    <3>1. PICK n : n = m + 1
      OBVIOUS
    <3>2. n \in 1 .. Len(t) /\ ~(n < k) /\ n # k /\ n - 1 = m
      BY <1>1, <1>2, <2>2, <3>1
    <3>3. t[n] = s[m]
      BY <1>2, <3>2
    <3> QED
      BY <3>2, <3>3
  <2> QED
    BY <2>1, <2>2
<1>11. e.start \in Int /\ e.end \in Int
  BY ElementIs DEF Proper
<1>12. ASSUME NEW u \in Unit PROVE Has(t, u) <=> Has(s, u) \/ u \in e.start .. e.end
  <2>0. u \in Int
    BY RlistAssumption DEF Unit
  <2>1. ASSUME Has(t, u) PROVE Has(s, u) \/ u \in e.start .. e.end
    <3>1. PICK i \in 1 .. Len(t) : t[i].start <= u /\ u <= t[i].end
      BY <2>1 DEF Has
    <3>2. CASE t[i] = e
      BY <1>11, <2>0, <3>1, <3>2
    <3>3. CASE \E m \in 1 .. Len(s) : t[i] = s[m]
      BY <3>1, <3>3 DEF Has
    <3> QED
      BY <1>4, <3>2, <3>3
  <2>2. ASSUME Has(s, u) PROVE Has(t, u)
    <3>1. PICK m \in 1 .. Len(s) : s[m].start <= u /\ u <= s[m].end
      BY <2>2 DEF Has
    <3> QED
      BY <1>10, <3>1 DEF Has
  <2>3. ASSUME u \in e.start .. e.end PROVE Has(t, u)
    BY <1>9, <1>11, <2>0, <2>3 DEF Has
  <2> QED
    BY <2>1, <2>2, <2>3
<1>13. ASSUME Gaps(s), \A j \in 1 .. Len(s) : IF j < k THEN s[j].end + 1 < e.start ELSE e.end + 1 < s[j].start
       PROVE  Gaps(t)
  <2>1. ASSUME NEW i \in 1 .. Len(t), NEW j \in 1 .. Len(t), i < j PROVE t[i].end + 1 < t[j].start
    <3>1. CASE i = k
      <4>1. t[i] = e /\ j > k /\ j - 1 \in 1 .. Len(s) /\ t[j] = s[j - 1] /\ ~(j - 1 < k)
        BY <1>1, <1>2, <1>4, <2>1, <3>1
      <4> QED
        BY <1>13, <4>1
    <3>2. CASE j = k
      <4>1. t[j] = e /\ i < k /\ i \in 1 .. Len(s) /\ t[i] = s[i]
        BY <1>1, <1>2, <1>4, <2>1, <3>2
      <4> QED
        BY <1>13, <4>1
    <3>3. CASE i # k /\ j # k
      <4>1. PICK m \in 1 .. Len(s) : t[i] = s[m] /\ m = IF i < k THEN i ELSE i - 1
        BY <1>4a, <3>3
      <4>2. PICK n \in 1 .. Len(s) : t[j] = s[n] /\ n = IF j < k THEN j ELSE j - 1
        BY <1>4a, <3>3
      <4>3. m < n
        BY <1>1, <2>1, <3>3, <4>1, <4>2
      <4> QED
        BY <1>13, <4>1, <4>2, <4>3 DEF Gaps
    <3> QED
      BY <3>1, <3>2, <3>3
  <2> QED
    BY <2>1 DEF Gaps
<1> QED
  BY <1>8, <1>12, <1>13

\* An element is taken off the list.
LEMMA RemoveGood ==
  ASSUME NEW s, Good(s), NEW k \in 1 .. Len(s), NEW t, Removed(t, s, k)
  PROVE  /\ Good(t)
         /\ \A u \in Unit : Has(t, u) <=> Has(s, u) /\ u \notin s[k].start .. s[k].end
         /\ Gaps(s) => Gaps(t)
<1>1. Len(s) \in Nat /\ k \in Nat /\ 1 <= k /\ k <= Len(s)
  BY GoodIs
<1>2. /\ t \in Seq(Element) /\ Len(t) = Len(s) - 1
      /\ \A i \in 1 .. Len(t) : t[i] = IF i < k THEN s[i] ELSE s[i + 1]
  BY DEF Removed
<1>3. /\ \A i \in 1 .. Len(s) : Proper(s[i])
      /\ \A i, j \in 1 .. Len(s) : i # j => Apart(s[i], s[j])
  BY DEF Good
<1>4. ASSUME NEW i \in 1 .. Len(t)
      PROVE  \E m \in 1 .. Len(s) : t[i] = s[m] /\ m # k /\ m = IF i < k THEN i ELSE i + 1
  <2>1. i \in 1 .. Len(s) /\ i + 1 \in 1 .. Len(s)
    BY <1>1, <1>2
  <2> QED
    BY <1>1, <1>2, <2>1
<1>5. ASSUME NEW m \in 1 .. Len(s), m # k PROVE \E i \in 1 .. Len(t) : t[i] = s[m]
  <2>1. CASE m < k
    <3>1. m \in 1 .. Len(t)
      BY <1>1, <1>2, <2>1
    <3> QED
      BY <1>2, <2>1, <3>1
  <2>2. CASE ~(m < k)
    <3>1. m - 1 \in 1 .. Len(t) /\ ~(m - 1 < k) /\ m - 1 + 1 = m
      BY <1>1, <1>2, <1>5, <2>2
    <3> QED
      BY <1>2, <3>1
  <2> QED
    BY <2>1, <2>2
<1>6. \A i \in 1 .. Len(t) : Proper(t[i])
  BY <1>3, <1>4
<1>7. ASSUME NEW i \in 1 .. Len(t), NEW j \in 1 .. Len(t), i # j
      PROVE  /\ Apart(t[i], t[j])
             /\ Gaps(s) /\ i < j => t[i].end + 1 < t[j].start
  <2>1. PICK m \in 1 .. Len(s) : t[i] = s[m] /\ m = IF i < k THEN i ELSE i + 1
    BY <1>4
  <2>2. PICK n \in 1 .. Len(s) : t[j] = s[n] /\ n = IF j < k THEN j ELSE j + 1
    BY <1>4
  <2>3. m # n /\ (i < j => m < n)
    BY <1>1, <1>7, <2>1, <2>2
  <2>4. Apart(t[i], t[j])
    BY <1>3, <2>1, <2>2, <2>3
  <2>5. ASSUME Gaps(s), i < j PROVE t[i].end + 1 < t[j].start
    BY <2>1, <2>2, <2>3, <2>5 DEF Gaps
  <2> QED
    BY <2>4, <2>5
<1>8. Good(t)
  BY <1>2, <1>6, <1>7 DEF Good
<1>9. Gaps(s) => Gaps(t)
  <2>1. ASSUME Gaps(s), NEW i \in 1 .. Len(t), NEW j \in 1 .. Len(t), i < j
        PROVE  t[i].end + 1 < t[j].start
    <3>1. i # j
      BY <1>1, <1>2, <2>1
    <3> QED
      BY <1>7, <2>1, <3>1
  <2> QED
    BY <2>1 DEF Gaps
<1>10. ASSUME NEW u \in Unit
       PROVE  Has(t, u) <=> Has(s, u) /\ u \notin s[k].start .. s[k].end
  <2>1. u \in Int /\ \A i \in 1 .. Len(s) : s[i].start \in Int /\ s[i].end \in Int
    BY GoodIs, RlistAssumption DEF Unit
  <2>2. ASSUME Has(t, u) PROVE Has(s, u) /\ u \notin s[k].start .. s[k].end
    <3>1. PICK i \in 1 .. Len(t) : t[i].start <= u /\ u <= t[i].end
      BY <2>2 DEF Has
    <3>2. PICK m \in 1 .. Len(s) : t[i] = s[m] /\ m # k
      BY <1>4
    <3>3. Has(s, u)
      BY <3>1, <3>2 DEF Has
    <3>4. Apart(s[m], s[k])
      BY <1>3, <3>2
    <3>5. s[m].end < s[k].start \/ s[k].end < s[m].start
      BY <3>4 DEF Apart
    <3>6. u \notin s[k].start .. s[k].end
      BY <2>1, <3>1, <3>2, <3>5
    <3> QED
      BY <3>3, <3>6
  <2>3. ASSUME Has(s, u), u \notin s[k].start .. s[k].end PROVE Has(t, u)
    <3>1. PICK m \in 1 .. Len(s) : s[m].start <= u /\ u <= s[m].end
      BY <2>3 DEF Has
    <3>2. m # k
      BY <2>1, <2>3, <3>1
    <3>3. PICK i \in 1 .. Len(t) : t[i] = s[m]
      BY <1>5, <3>2
    <3> QED
      BY <3>1, <3>3 DEF Has
  <2> QED
    BY <2>2, <2>3
<1> QED
  BY <1>8, <1>9, <1>10

\* An element is replaced by one at the same address whose units are not on the
\* rest of the list.
LEMMA ReplaceGood ==
  ASSUME NEW s, Good(s), NEW k \in 1 .. Len(s), NEW e, Proper(e),
         FitsIn(s, k, e), NEW t, Replaced(t, s, k, e)
  PROVE  /\ Good(t) /\ Len(t) = Len(s)
         /\ \A i \in 1 .. Len(s) : t[i] = IF i = k THEN e ELSE s[i]
         /\ \A u \in Unit : Has(t, u) <=> (Has(s, u) /\ u \notin s[k].start .. s[k].end) \/ u \in e.start .. e.end
<1>0. t = [s EXCEPT ![k] = e] /\ \A i \in 1 .. Len(s) : i # k => Apart(s[i], e)
  BY DEF Replaced, FitsIn
<1>1. s \in Seq(Element) /\ e \in Element /\ Len(s) \in Nat /\ DOMAIN s = 1 .. Len(s)
  BY GoodIs DEF Proper
<1>2. t \in Seq(Element) /\ Len(t) = Len(s)
  BY <1>0, <1>1
<1>3. \A i \in 1 .. Len(s) : t[i] = IF i = k THEN e ELSE s[i]
  BY <1>0, <1>1
<1>4. /\ \A i \in 1 .. Len(s) : Proper(s[i])
      /\ \A i, j \in 1 .. Len(s) : i # j => Apart(s[i], s[j])
  BY DEF Good
<1>5. \A i \in 1 .. Len(t) : Proper(t[i])
  BY <1>2, <1>3, <1>4
<1>6. \A x, y : Apart(x, y) <=> Apart(y, x)
  BY DEF Apart
<1>7. \A i, j \in 1 .. Len(t) : i # j => Apart(t[i], t[j])
  BY <1>0, <1>2, <1>3, <1>4, <1>6
<1>8. Good(t)
  BY <1>2, <1>5, <1>7 DEF Good
<1>9. e.start \in Int /\ e.end \in Int /\ \A i \in 1 .. Len(s) : s[i].start \in Int /\ s[i].end \in Int
  BY <1>1, ElementIs, GoodIs
<1>10. ASSUME NEW u \in Unit
       PROVE  Has(t, u) <=> (Has(s, u) /\ u \notin s[k].start .. s[k].end) \/ u \in e.start .. e.end
  <2>1. u \in Int
    BY RlistAssumption DEF Unit
  <2>2. ASSUME Has(t, u) PROVE (Has(s, u) /\ u \notin s[k].start .. s[k].end) \/ u \in e.start .. e.end
    <3>1. PICK i \in 1 .. Len(s) : t[i].start <= u /\ u <= t[i].end
      BY <1>2, <2>2 DEF Has
    <3>2. CASE i = k
      BY <1>3, <1>9, <2>1, <3>1, <3>2
    <3>3. CASE i # k
      <4>1. t[i] = s[i] /\ Apart(s[i], s[k])
        BY <1>3, <1>4, <3>3
      <4>2. s[i].end < s[k].start \/ s[k].end < s[i].start
        BY <4>1 DEF Apart
      <4>3. Has(s, u)
        BY <3>1, <4>1 DEF Has
      <4> QED
        BY <1>9, <2>1, <3>1, <4>1, <4>2, <4>3
    <3> QED
      BY <3>2, <3>3
  <2>3. ASSUME Has(s, u), u \notin s[k].start .. s[k].end PROVE Has(t, u)
    <3>1. PICK m \in 1 .. Len(s) : s[m].start <= u /\ u <= s[m].end
      BY <2>3 DEF Has
    <3>2. m # k
      BY <1>9, <2>1, <2>3, <3>1
    <3>3. t[m] = s[m] /\ m \in 1 .. Len(t)
      BY <1>2, <1>3, <3>2
    <3> QED
      BY <3>1, <3>3 DEF Has
  <2>4. ASSUME u \in e.start .. e.end PROVE Has(t, u)
    <3>1. t[k] = e /\ k \in 1 .. Len(t) /\ e.start <= u /\ u <= e.end
      BY <1>2, <1>3, <1>9, <2>1, <2>4
    <3> QED
      BY <3>1 DEF Has
  <2> QED
    BY <2>2, <2>3, <2>4
<1> QED
  BY <1>2, <1>3, <1>8, <1>10

\* Intervals without a unit in common.
LEMMA NoUnitInBoth ==
  ASSUME NEW d, Proper(d), NEW e, Proper(e), d.id # e.id,
         \A u \in Unit : ~(d.start <= u /\ u <= d.end /\ e.start <= u /\ u <= e.end)
  PROVE  Apart(d, e)
<1>1. /\ d.start \in Unit /\ d.end \in Unit /\ e.start \in Unit /\ e.end \in Unit
      /\ d.start \in Int /\ d.end \in Int /\ e.start \in Int /\ e.end \in Int
      /\ d.start <= d.end /\ e.start <= e.end
  BY ElementIs DEF Proper
<1>2. CASE d.start <= e.start
  BY <1>1, <1>2 DEF Apart
<1>3. CASE e.start <= d.start
  BY <1>1, <1>3 DEF Apart
<1> QED
  BY <1>1, <1>2, <1>3

\* As long as a unit is not on the list there is an address for one more element.
LEMMA FreshIs ==
  ASSUME Good(list), NEW start \in Unit, ~Has(list, start)
  PROVE  Fresh \in Address /\ \A i \in 1 .. Len(list) : list[i].id # Fresh
<1> DEFINE ids == {list[i].id : i \in DOMAIN list}
           f == [a \in Address |-> list[CHOOSE i \in DOMAIN list : list[i].id = a].start]
<1>1. /\ DOMAIN list = 1 .. Len(list)
      /\ \A i \in 1 .. Len(list) : /\ list[i].start \in Unit /\ list[i].start \in Int /\ list[i].end \in Int
                                   /\ list[i].start <= list[i].end
  BY GoodIs
<1>2. \A i, j \in 1 .. Len(list) : i # j => Apart(list[i], list[j])
  BY DEF Good
<1>3. Address \ ids # {}
  <2> SUFFICES ASSUME Address \subseteq ids PROVE FALSE
    OBVIOUS
  <2>1. ASSUME NEW a \in Address
        PROVE  \E i \in 1 .. Len(list) : list[i].id = a /\ f[a] = list[i].start
    <3>1. \E i \in DOMAIN list : list[i].id = a
      OBVIOUS
    <3>2. PICK i : i = CHOOSE x \in DOMAIN list : list[x].id = a
      OBVIOUS
    <3>3. i \in DOMAIN list /\ list[i].id = a
      BY <3>1, <3>2
    <3>4. f[a] = list[i].start
      BY <3>2
    <3> QED
      BY <1>1, <3>3, <3>4
  <2>2. ASSUME NEW a \in Address PROVE f[a] \in Unit \ {start}
    <3>1. PICK i \in 1 .. Len(list) : f[a] = list[i].start
      BY <2>1
    <3> HIDE DEF f
    <3>2. list[i].start # start
      BY <1>1 DEF Has
    <3> QED
      BY <1>1, <3>1, <3>2
  <2>3. f \in [Address -> Unit \ {start}]
    BY <2>2
  <2>4. IsFiniteSet(Address) /\ Cardinality(Address) = Size
    <3>1. Size \in Int /\ ~(1 > Size)
      BY RlistAssumption
    <3> QED
      BY <3>1, FS_Interval DEF Address
  <2>5. IsFiniteSet(Unit \ {start}) /\ Cardinality(Unit \ {start}) = Size - 1
    <3>1. Size - 1 \in Int /\ ~(0 > Size - 1) /\ Size - 1 - 0 + 1 = Size
      BY RlistAssumption
    <3>2. IsFiniteSet(Unit) /\ Cardinality(Unit) = Size
      BY <3>1, FS_Interval DEF Unit
    <3> QED
      BY <3>2, FS_RemoveElement
  <2>6. Cardinality(Unit \ {start}) < Cardinality(Address)
    BY <2>4, <2>5, RlistAssumption
  <2> HIDE DEF f
  <2>7. PICK a \in Address, b \in Address : a # b /\ f[a] = f[b]
    BY <2>3, <2>4, <2>5, <2>6, FS_PigeonHole
  <2>8. PICK i \in 1 .. Len(list) : list[i].id = a /\ f[a] = list[i].start
    BY <2>1
  <2>9. PICK j \in 1 .. Len(list) : list[j].id = b /\ f[b] = list[j].start
    BY <2>1
  <2>10. Apart(list[i], list[j])
    BY <1>2, <2>7, <2>8, <2>9
  <2>11. list[i].end < list[j].start \/ list[j].end < list[i].start
    BY <2>10 DEF Apart
  <2>12. list[i].start = list[j].start
    BY <2>7, <2>8, <2>9
  <2> QED
    BY <1>1, <2>11, <2>12
<1>4. Address \ ids \in SUBSET Nat
  BY RlistAssumption DEF Address
<1>5. Fresh \in Address \ ids
  <2>1. Fresh = Min(Address \ ids)
    BY DEF Fresh
  <2> HIDE DEF ids
  <2> QED
    BY <1>3, <1>4, <2>1, LeastIs
<1>6. ASSUME NEW i \in 1 .. Len(list) PROVE list[i].id \in ids
  BY <1>1
<1> QED
  BY <1>5, <1>6

\* The new element may be added.
LEMMA NewIs ==
  ASSUME Good(list), NEW start \in Unit, NEW end \in Unit, start <= end,
         \A u \in start .. end : ~Has(list, u)
  PROVE  /\ Proper(New(start, end)) /\ New(start, end).start = start /\ New(start, end).end = end
         /\ \A i \in 1 .. Len(list) : Apart(list[i], New(start, end))
<1>1. start \in Int /\ end \in Int /\ start .. end \subseteq Unit /\ start \in start .. end
  BY RlistAssumption DEF Unit
<1>2. Fresh \in Address /\ \A i \in 1 .. Len(list) : list[i].id # Fresh
  BY <1>1, FreshIs
<1>3. PICK e : e = New(start, end)
  OBVIOUS
<1>4. e \in Element /\ e.id = Fresh /\ e.start = start /\ e.end = end
  BY <1>2, <1>3 DEF New, Element
<1>5. Proper(e)
  BY <1>4 DEF Proper
<1>6. ASSUME NEW i \in 1 .. Len(list) PROVE Apart(list[i], e)
  <2>1. Proper(list[i])
    BY DEF Good
  <2>2. \A u \in Unit : ~(list[i].start <= u /\ u <= list[i].end /\ start <= u /\ u <= end)
    <3>1. ASSUME NEW u \in Unit, start <= u, u <= end PROVE ~(list[i].start <= u /\ u <= list[i].end)
      <4>1. u \in start .. end
        BY <1>1, <3>1, RlistAssumption DEF Unit
      <4>2. ~Has(list, u)
        BY <4>1
      <4> QED
        BY <4>2 DEF Has
    <3> QED
      BY <3>1
  <2> QED
    BY <1>2, <1>4, <1>5, <2>1, <2>2, NoUnitInBoth
<1> QED
  BY <1>3, <1>4, <1>5, <1>6

-----------------------------------------------------------------------------
(* Filling a void.                                                         *)

\* t is what Scan() makes of the first m elements of s.
OfFirst(s, m, u) == \E j \in 1 .. m : s[j].start <= u /\ u <= s[j].end
Joined(t, s, m) ==
  /\ Good(t)
  /\ \A i \in 1 .. Len(t) : \E j \in 1 .. m : t[i].id = s[j].id
  /\ \A u \in Unit : Has(t, u) <=> OfFirst(s, m, u)
  /\ Ordered(s) => Gaps(t) /\ \A i \in 1 .. Len(t) : \E j \in 1 .. m : t[i].end = s[j].end

LEMMA JoinIs ==
  ASSUME NEW s, Good(s), NEW m \in 1 .. Len(s), NEW t, Joined(t, s, m - 1)
  PROVE  Joined(Join(t, s[m]), s, m)
<1>1. PICK e : e = s[m]
  OBVIOUS
<1>2. /\ Good(t)
      /\ \A i \in 1 .. Len(t) : \E j \in 1 .. m - 1 : t[i].id = s[j].id
      /\ \A u \in Unit : Has(t, u) <=> OfFirst(s, m - 1, u)
      /\ Ordered(s) => Gaps(t) /\ \A i \in 1 .. Len(t) : \E j \in 1 .. m - 1 : t[i].end = s[j].end
  BY DEF Joined
<1>3. /\ Len(s) \in Nat /\ Len(t) \in Nat /\ t \in Seq(Element) /\ DOMAIN t = 1 .. Len(t)
      /\ \A j \in 1 .. m - 1 : j \in 1 .. Len(s) /\ j \in 1 .. m /\ j # m /\ j < m
      /\ m \in 1 .. m
      /\ \A j \in 1 .. m : j \in 1 .. Len(s) /\ (j # m => j \in 1 .. m - 1)
  BY <1>2, GoodIs
<1>4. /\ Proper(e) /\ e \in Element /\ e.start \in Unit /\ e.end \in Unit /\ e.start \in Int /\ e.end \in Int /\ e.start <= e.end
      /\ \A i \in 1 .. Len(t) : t[i] \in Element /\ Proper(t[i]) /\ t[i].start \in Int /\ t[i].end \in Int /\ t[i].start <= t[i].end
      /\ \A j \in 1 .. Len(s) : s[j].start \in Int /\ s[j].end \in Int
  BY <1>1, <1>2, GoodIs DEF Good
<1>5. \A j \in 1 .. m - 1 : Apart(s[j], e)
  BY <1>1, <1>3 DEF Good
<1>6. ASSUME NEW u \in Unit
      PROVE  OfFirst(s, m, u) <=> Has(t, u) \/ u \in e.start .. e.end
  <2>1. u \in Int
    BY RlistAssumption DEF Unit
  <2>2. u \in e.start .. e.end <=> e.start <= u /\ u <= e.end
    BY <1>4, <2>1
  <2>3. OfFirst(s, m, u) <=> OfFirst(s, m - 1, u) \/ (e.start <= u /\ u <= e.end)
    BY <1>1, <1>3 DEF OfFirst
  <2> QED
    BY <1>2, <2>2, <2>3
<1>7. ASSUME NEW i \in 1 .. Len(t) PROVE Apart(t[i], e)
  <2>1. t[i].id # e.id
    BY <1>2, <1>5 DEF Apart
  <2>2. ASSUME NEW u \in Unit, t[i].start <= u, u <= t[i].end, e.start <= u, u <= e.end PROVE FALSE
    <3>1. Has(t, u)
      BY <2>2 DEF Has
    <3>2. PICK j \in 1 .. m - 1 : s[j].start <= u /\ u <= s[j].end
      BY <1>2, <3>1 DEF OfFirst
    <3>3. s[j].end < e.start \/ e.end < s[j].start
      BY <1>5 DEF Apart
    <3> QED
      BY <1>3, <1>4, <2>2, <3>2, <3>3, RlistAssumption DEF Unit
  <2> QED
    BY <1>4, <2>1, <2>2, NoUnitInBoth
<1>8. ASSUME Ordered(s), NEW i \in 1 .. Len(t) PROVE t[i].end < e.start
  BY <1>1, <1>2, <1>3, <1>8 DEF Ordered
<1>9. CASE t # <<>> /\ Last(t).end + 1 = e.start
  <2>1. PICK k : k = Len(t)
    OBVIOUS
  <2>2. k \in 1 .. Len(t)
    BY <1>3, <1>9, <2>1, EmptySeq
  <2>3. t[k].end + 1 = e.start
    BY <1>9, <2>1 DEF Last
  <2>4. PICK d : d = t[k]
    OBVIOUS
  <2>5. PICK f : f = [d EXCEPT !.end = e.end]
    OBVIOUS
  <2>6. d \in Element /\ d.start \in Int /\ d.end \in Int /\ d.start <= d.end /\ d.end + 1 = e.start
    BY <1>4, <2>2, <2>3, <2>4
  <2>7. f \in Element /\ f.id = d.id /\ f.start = d.start /\ f.end = e.end
    BY <1>4, <2>5, <2>6 DEF Element
  <2>8. Join(t, e) = [t EXCEPT ![k] = f]
    <3>1. Join(t, e) = [t EXCEPT ![Len(t)].end = e.end]
      BY <1>9 DEF Join
    <3> QED
      BY <2>1, <2>4, <2>5, <3>1
  <2>9. Proper(f)
    BY <1>4, <2>6, <2>7 DEF Proper
  <2>10. ASSUME NEW i \in 1 .. Len(t), i # k PROVE Apart(t[i], f)
    <3>1. Apart(t[i], d) /\ Apart(t[i], e)
      BY <1>2, <1>7, <2>2, <2>4, <2>10 DEF Good
    <3> QED
      BY <1>4, <2>6, <2>7, <3>1 DEF Apart
  <2>11. PICK v : v = Join(t, e)
    OBVIOUS
  <2>12. /\ Good(v) /\ Len(v) = Len(t)
         /\ \A i \in 1 .. Len(t) : v[i] = IF i = k THEN f ELSE t[i]
         /\ \A u \in Unit : Has(v, u) <=> (Has(t, u) /\ u \notin t[k].start .. t[k].end) \/ u \in f.start .. f.end
    <3>1. Replaced(v, t, k, f) /\ Good(t)
      BY <1>1, <1>2, <2>8, <2>11 DEF Replaced
    <3>2. FitsIn(t, k, f)
      BY <2>10 DEF FitsIn
    <3> QED
      BY <2>2, <2>9, <3>1, <3>2, ReplaceGood
  <2>13. ASSUME NEW u \in Unit PROVE Has(v, u) <=> OfFirst(s, m, u)
    <3>1. u \in Int
      BY RlistAssumption DEF Unit
    <3>2. u \in f.start .. f.end <=> u \in d.start .. d.end \/ u \in e.start .. e.end
      BY <1>4, <2>6, <2>7, <3>1
    <3>3. u \in d.start .. d.end => Has(t, u)
      BY <2>2, <2>4, <2>6, <3>1 DEF Has
    <3> QED
      BY <1>6, <2>4, <2>12, <3>2, <3>3
  <2>14. \A i \in 1 .. Len(v) : \E j \in 1 .. m : v[i].id = s[j].id
    BY <1>2, <1>3, <2>2, <2>4, <2>7, <2>12
  <2>15. ASSUME Ordered(s) PROVE Gaps(v) /\ \A i \in 1 .. Len(v) : \E j \in 1 .. m : v[i].end = s[j].end
    <3>1. \A i \in 1 .. Len(v) : \E j \in 1 .. m : v[i].end = s[j].end
      BY <1>1, <1>2, <1>3, <2>7, <2>12, <2>15
    <3>2. ASSUME NEW i \in 1 .. Len(v), NEW j \in 1 .. Len(v), i < j PROVE v[i].end + 1 < v[j].start
      <4>0. Len(v) = Len(t) /\ Len(t) \in Nat
        BY <1>3, <2>12
      <4>1. i # k
        BY <2>1, <3>2, <4>0
      <4>2. v[i] = t[i] /\ v[j].start = t[j].start
        BY <2>4, <2>7, <2>12, <4>1
      <4>3. t[i].end + 1 < t[j].start
        BY <1>2, <2>12, <2>15, <3>2 DEF Gaps
      <4> QED
        BY <4>2, <4>3
    <3> QED
      BY <3>1, <3>2 DEF Gaps
  <2> QED
    BY <1>1, <2>11, <2>12, <2>13, <2>14, <2>15 DEF Joined
<1>10. CASE ~(t # <<>> /\ Last(t).end + 1 = e.start)
  <2>1. PICK v : v = Join(t, e)
    OBVIOUS
  <2>2. v = Append(t, e)
    BY <1>10, <2>1 DEF Join
  <2>3. PICK k : k = Len(t) + 1
    OBVIOUS
  <2>4. k \in 1 .. Len(t) + 1 /\ Inserted(v, t, k, e)
    BY <1>3, <1>4, <2>2, <2>3, AppendIs
  <2>5. /\ Good(v)
        /\ \A u \in Unit : Has(v, u) <=> Has(t, u) \/ u \in e.start .. e.end
        /\ Gaps(t) /\ (\A j \in 1 .. Len(t) : IF j < k THEN t[j].end + 1 < e.start ELSE e.end + 1 < t[j].start)
             => Gaps(v)
    BY <1>2, <1>4, <1>7, <2>4, InsertGood
  <2>6. \A i \in 1 .. Len(v) : (i \in 1 .. Len(t) /\ v[i] = t[i]) \/ v[i] = e
    BY <1>3, <2>3, <2>4 DEF Inserted
  <2>7. \A i \in 1 .. Len(v) : \E j \in 1 .. m : v[i].id = s[j].id
    BY <1>1, <1>2, <1>3, <2>6
  <2>8. ASSUME Ordered(s) PROVE Gaps(v) /\ \A i \in 1 .. Len(v) : \E j \in 1 .. m : v[i].end = s[j].end
    <3>1. \A i \in 1 .. Len(v) : \E j \in 1 .. m : v[i].end = s[j].end
      BY <1>1, <1>2, <1>3, <2>6, <2>8
    <3>2. ASSUME NEW j \in 1 .. Len(t) PROVE j < k /\ t[j].end + 1 < e.start
      <4>1. t[j].end < e.start
        BY <1>8, <2>8
      <4>2. CASE j = Len(t)
        <5>1. t # <<>> /\ Last(t) = t[j]
          BY <1>3, <4>2, EmptySeq DEF Last
        <5>2. t[j].end + 1 # e.start
          BY <1>10, <5>1
        <5> QED
          BY <1>3, <1>4, <2>3, <4>1, <4>2, <5>2
      <4>3. CASE j # Len(t)
        <5>1. Len(t) \in 1 .. Len(t) /\ j < Len(t)
          <6>1. Len(t) \in Nat
            BY <1>3
          <6> QED
            BY <4>3, <6>1
        <5>2. t[j].end + 1 < t[Len(t)].start
          BY <1>2, <2>8, <5>1 DEF Gaps
        <5>3. t[Len(t)].end < e.start
          BY <1>8, <2>8, <5>1
        <5>4. t[Len(t)].start <= t[Len(t)].end /\ t[Len(t)].start \in Int /\ t[Len(t)].end \in Int
          BY <1>4, <5>1
        <5>5. t[j].end + 1 < e.start
          BY <1>4, <5>2, <5>3, <5>4
        <5> QED
          BY <1>3, <2>3, <5>1, <5>5
      <4> QED
        BY <4>2, <4>3
    <3>3. Gaps(v)
      BY <1>2, <2>5, <2>8, <3>2
    <3> QED
      BY <3>1, <3>3
  <2>9. \A u \in Unit : Has(v, u) <=> OfFirst(s, m, u)
    BY <1>6, <2>5
  <2> QED
    BY <1>1, <2>1, <2>5, <2>7, <2>8, <2>9 DEF Joined
<1> QED
  BY <1>9, <1>10

LEMMA ScanOfList ==
  ASSUME NEW s, Good(s)
  PROVE  /\ Good(Scan(s))
         /\ \A u \in Unit : Has(Scan(s), u) <=> Has(s, u)
         /\ Ordered(s) => Gaps(Scan(s))
<1> DEFINE Scans(e, m) == e = [i \in 0 .. m |-> IF i = 0 THEN <<>> ELSE Join(e[i - 1], s[i])]
<1>1. Len(s) \in Nat
  BY GoodIs
<1>2. Joined(<<>>, s, 0)
  <2>1. <<>> \in Seq(Element) /\ Len(<<>>) = 0 /\ \A i \in 1 .. 0 : FALSE
    OBVIOUS
  <2> QED
    BY <2>1 DEF Joined, Good, Gaps, Has, OfFirst
<1>3. \A m \in 0 .. Len(s) : \E e : Scans(e, m)
  <2> DEFINE Bad == {m \in 0 .. Len(s) : ~\E e : Scans(e, m)}
  <2>1. SUFFICES ASSUME Bad # {} PROVE FALSE
    OBVIOUS
  <2>2. Bad \in SUBSET Nat
    BY <1>1
  <2>3. PICK m \in Bad : \A k \in Bad : m <= k
    <3> HIDE DEF Bad
    <3> QED
      BY <2>1, <2>2, LeastIs
  <2>4. m \in 0 .. Len(s) /\ \A e : ~Scans(e, m)
    OBVIOUS
  <2>5. CASE m = 0
    <3> DEFINE e == [i \in 0 .. 0 |-> <<>>]
    <3>1. Scans(e, 0)
      <4>1. \A i \in 0 .. 0 : i = 0
        OBVIOUS
      <4> QED
        BY <4>1
    <3> QED
      BY <2>4, <2>5, <3>1
  <2>6. CASE m # 0
    <3>1. m - 1 \in 0 .. Len(s) /\ ~(m <= m - 1) /\ m \in Nat
      BY <1>1, <2>4, <2>6
    <3>2. PICK e : Scans(e, m - 1)
      BY <2>3, <3>1
    <3> DEFINE g == [i \in 0 .. m |-> IF i < m THEN e[i] ELSE Join(e[m - 1], s[m])]
    <3>3. \A i \in 0 .. m - 1 : e[i] = IF i = 0 THEN <<>> ELSE Join(e[i - 1], s[i])
      BY <3>2
    <3>4. ASSUME NEW i \in 0 .. m
          PROVE  g[i] = IF i = 0 THEN <<>> ELSE Join(g[i - 1], s[i])
      <4>1. CASE i = 0
        <5>1. g[0] = e[0] /\ 0 \in 0 .. m - 1
          BY <2>6, <3>1
        <5> QED
          BY <3>3, <4>1, <5>1
      <4>2. CASE i # 0 /\ i < m
        <5>1. g[i] = e[i] /\ g[i - 1] = e[i - 1] /\ i \in 0 .. m - 1
          BY <3>1, <4>2
        <5> QED
          BY <3>3, <4>2, <5>1
      <4>3. CASE i = m
        <5>1. g[m] = Join(e[m - 1], s[m]) /\ g[m - 1] = e[m - 1]
          BY <2>6, <3>1
        <5> QED
          BY <2>6, <4>3, <5>1
      <4> QED
        BY <3>1, <4>1, <4>2, <4>3
    <3>5. g = [i \in 0 .. m |-> g[i]]
      OBVIOUS
    <3> HIDE DEF g
    <3>6. Scans(g, m)
      BY <3>4, <3>5
    <3> QED
      BY <2>4, <3>6
  <2> QED
    BY <2>5, <2>6
<1>4. PICK e : e = CHOOSE x : Scans(x, Len(s))
  OBVIOUS
<1>5. Scans(e, Len(s))
  <2>1. \E x : Scans(x, Len(s))
    BY <1>1, <1>3
  <2> HIDE DEF Scans
  <2> QED
    BY <1>4, <2>1
<1>6. Scan(s) = e[Len(s)]
  BY <1>4 DEF Scan
<1>7. \A i \in 0 .. Len(s) : e[i] = IF i = 0 THEN <<>> ELSE Join(e[i - 1], s[i])
  BY <1>5
<1> HIDE DEF Scans
<1>8. \A m \in 0 .. Len(s) : Joined(e[m], s, m)
  <2> DEFINE Bad == {m \in 0 .. Len(s) : ~Joined(e[m], s, m)}
  <2>1. SUFFICES ASSUME Bad # {} PROVE FALSE
    OBVIOUS
  <2>2. Bad \in SUBSET Nat
    BY <1>1
  <2>3. PICK m \in Bad : \A k \in Bad : m <= k
    <3> HIDE DEF Bad
    <3> QED
      BY <2>1, <2>2, LeastIs
  <2>4. m \in 0 .. Len(s) /\ ~Joined(e[m], s, m)
    OBVIOUS
  <2>5. m # 0
    BY <1>2, <1>7, <2>4
  <2>6. m - 1 \in 0 .. Len(s) /\ ~(m <= m - 1) /\ m \in 1 .. Len(s)
    BY <1>1, <2>4, <2>5
  <2>7. Joined(e[m - 1], s, m - 1)
    BY <2>3, <2>6
  <2>8. Joined(Join(e[m - 1], s[m]), s, m)
    BY <2>6, <2>7, JoinIs
  <2> QED
    BY <1>7, <2>4, <2>5, <2>8
<1>9. Joined(e[Len(s)], s, Len(s))
  BY <1>1, <1>8
<1> QED
  BY <1>6, <1>9 DEF Joined, Has, OfFirst

-----------------------------------------------------------------------------
(* The invariant.                                                          *)

Waiting == [start : Unit, end : Unit, olp : Address \cup {NULL}]
Waits(p, u) == \E w \in asleep[p] : u \in w.start .. w.end

\* A unit is held, on the list, or about to be put on it by one process.
One(u) ==
  /\ u \in held => ~Has(list, u) /\ \A p \in Proc : ~Waits(p, u)
  /\ \A p \in Proc : Waits(p, u) => ~Has(list, u) /\ \A q \in Proc : q # p => ~Waits(q, u)
  /\ u \in held \/ Has(list, u) \/ \E p \in Proc : Waits(p, u)

RlistBase ==
  /\ held \subseteq Unit /\ asleep \in [Proc -> SUBSET Waiting]
  /\ slept \in BOOLEAN /\ wild \in BOOLEAN /\ panicked = FALSE
  /\ \A p \in Proc : \A w \in asleep[p] : w.start <= w.end /\ asleep[p] = {w}
EachOnce == ~wild => \A u \in Unit : One(u)
Calm == ~slept /\ ~wild => (\A p \in Proc : asleep[p] = {}) /\ Gaps(list)
RlistInv == RlistBase /\ Good(list) /\ EachOnce /\ Calm

LEMMA UnitIsInt == Unit \subseteq Int /\ \A a, b \in Unit : a .. b \subseteq Unit
BY RlistAssumption DEF Unit

\* Where the walk stops.
LEMMA StopIs ==
  ASSUME Good(list), NEW start \in Unit, NEW i, i = Stop(start)
  PROVE  /\ i \in 1 .. Len(list) + 1
         /\ i \in 1 .. Len(list) => start <= list[i].end + 1
         /\ \A j \in 1 .. Len(list) : j < i => list[j].end + 1 < start
<1> DEFINE T == {k \in DOMAIN list : start <= list[k].end + 1} \cup {Len(list) + 1}
<1>1. Len(list) \in Nat /\ DOMAIN list = 1 .. Len(list) /\ \A j \in 1 .. Len(list) : list[j].end \in Int
  BY GoodIs
<1>2. T \in SUBSET Nat /\ Len(list) + 1 \in T
  BY <1>1
<1>3. i = Min(T)
  BY DEF Stop
<1>4. i \in T /\ \A j \in T : i <= j
  <2> HIDE DEF T
  <2> QED
    BY <1>2, <1>3, LeastIs
<1>5. ASSUME NEW j \in 1 .. Len(list), j < i PROVE list[j].end + 1 < start
  <2>1. start \in Int /\ list[j].end \in Int /\ i \in Int /\ j \in Int
    BY <1>1, <1>2, <1>4, UnitIsInt
  <2>2. j \notin T
    BY <1>4, <1>5, <2>1
  <2>3. ~(start <= list[j].end + 1)
    BY <1>1, <2>2
  <2> QED
    BY <2>1, <2>3
<1>6. i \in 1 .. Len(list) + 1 /\ (i \in 1 .. Len(list) => start <= list[i].end + 1)
  BY <1>1, <1>4
<1> QED
  BY <1>5, <1>6

\* Units that change from one hand to another.
LEMMA OneIs ==
  ASSUME NEW u, One(u)
  PROVE  /\ u \in held => ~Has(list, u) /\ \A p \in Proc : ~Waits(p, u)
         /\ \A p \in Proc : Waits(p, u) => u \notin held /\ ~Has(list, u) /\ \A q \in Proc : q # p => ~Waits(q, u)
         /\ Has(list, u) => u \notin held /\ \A p \in Proc : ~Waits(p, u)
BY DEF One

\* The extent's units are on the list when the call returns.
Returned(s, start, end) == \A u \in Unit : Has(s, u) <=> Has(list, u) \/ u \in start .. end

\* The list after rlist_free() of units that the caller holds.
LEMMA FreeIs ==
  ASSUME RlistInv, ~wild, NEW start \in Unit, NEW end \in Unit, start <= end,
         start .. end \subseteq held, rlist_free(start, end)
  PROVE  /\ Good(list') /\ Returned(list', start, end) /\ panicked' = FALSE
         /\ Gaps(list) => Gaps(list')
<1>1. PICK i : i = Stop(start)
  OBVIOUS
<1>2. Good(list) /\ panicked = FALSE /\ held \subseteq Unit
  BY DEF RlistInv, RlistBase
<1>3. /\ i \in 1 .. Len(list) + 1
      /\ i \in 1 .. Len(list) => start <= list[i].end + 1
      /\ \A j \in 1 .. Len(list) : j < i => list[j].end + 1 < start
  BY <1>1, <1>2, StopIs
<1>4. /\ start \in Int /\ end \in Int /\ Len(list) \in Nat /\ DOMAIN list = 1 .. Len(list) /\ list \in Seq(Element)
      /\ \A j \in 1 .. Len(list) :
           /\ list[j] \in Element /\ Proper(list[j])
           /\ list[j].start \in Unit /\ list[j].end \in Unit
           /\ list[j].start \in Int /\ list[j].end \in Int /\ list[j].start <= list[j].end
  BY <1>2, UnitIsInt, GoodIs DEF Good
<1>5. \A u \in start .. end : ~Has(list, u)
  BY <1>2, OneIs DEF RlistInv, EachOnce
<1>6. ASSUME NEW j \in 1 .. Len(list), NEW u \in start .. end
      PROVE  ~(list[j].start <= u /\ u <= list[j].end)
  BY <1>5 DEF Has
<1>7. \A j \in 1 .. Len(list) : end < list[j].start \/ list[j].end < start
  <2> TAKE j \in 1 .. Len(list)
  <2>1. start \in start .. end /\ end \in start .. end
    BY <1>4
  <2>2. ~(list[j].start <= start /\ start <= list[j].end)
    BY <1>6, <2>1
  <2>3. CASE start < list[j].start
    <3>1. end < list[j].start \/ list[j].start \in start .. end
      BY <1>4, <2>3
    <3> QED
      BY <1>4, <1>6, <3>1
  <2>4. CASE ~(start < list[j].start)
    BY <1>4, <2>2, <2>4
  <2> QED
    BY <2>3, <2>4
<1>8. PICK e : e = New(start, end)
  OBVIOUS
<1>9. Proper(e) /\ e \in Element /\ e.start = start /\ e.end = end /\ \A j \in 1 .. Len(list) : Apart(list[j], e)
  BY <1>2, <1>5, <1>8, NewIs DEF Proper
<1>10. CASE i > Len(list)
  <2>1. list' = Append(list, e) /\ panicked' = FALSE
    BY <1>1, <1>2, <1>4, <1>8, <1>10 DEF rlist_free, Becomes
  <2>2. PICK k : k = Len(list) + 1
    OBVIOUS
  <2>3. k \in 1 .. Len(list) + 1 /\ Inserted(list', list, k, e)
    BY <1>4, <1>9, <2>1, <2>2, AppendIs
  <2>4. \A j \in 1 .. Len(list) : IF j < k THEN list[j].end + 1 < e.start ELSE e.end + 1 < list[j].start
    BY <1>3, <1>4, <1>9, <1>10, <2>2
  <2>5. PICK t : t = list'
    OBVIOUS
  <2>6. /\ Good(t)
        /\ \A u \in Unit : Has(t, u) <=> Has(list, u) \/ u \in e.start .. e.end
        /\ Gaps(list) => Gaps(t)
    BY <1>2, <1>9, <2>3, <2>4, <2>5, InsertGood
  <2> QED
    BY <1>9, <2>1, <2>5, <2>6 DEF Returned
<1>11. CASE i \in 1 .. Len(list)
  <2>1. PICK d : d = list[i]
    OBVIOUS
  <2>2. /\ d \in Element /\ d.start \in Int /\ d.end \in Int /\ d.start <= d.end
        /\ d.start \in Unit /\ d.end \in Unit /\ Proper(d)
        /\ start <= d.end + 1 /\ (end < d.start \/ d.end < start)
    BY <1>3, <1>4, <1>7, <1>11, <2>1
  <2>3. ~Overlaps(d, start, end)
    BY <1>4, <2>2 DEF Overlaps, Extent
  <2>4. /\ panicked' = FALSE
        /\ \/ end + 1 = d.start /\ list' = Scan([list EXCEPT ![i].start = start])
           \/ end + 1 < d.start /\ list' = InsertAt(list, i, e)
           \/ d.end + 1 = start /\ list' = Scan([list EXCEPT ![i].end = end])
    <3>1. ~(i > Len(list))
      BY <1>4, <1>11
    <3> QED
      BY <1>1, <1>2, <1>8, <2>1, <2>3, <3>1 DEF rlist_free, Becomes
  <2>5. CASE end + 1 < d.start /\ list' = InsertAt(list, i, e)
    <3>1. PICK t : t = list'
      OBVIOUS
    <3>2. Inserted(t, list, i, e)
      BY <1>3, <1>4, <1>9, <2>5, <3>1, InsertAtIs
    <3>3. ASSUME Gaps(list), NEW j \in 1 .. Len(list)
          PROVE  IF j < i THEN list[j].end + 1 < e.start ELSE e.end + 1 < list[j].start
      <4>1. CASE j < i
        BY <1>3, <1>9, <4>1
      <4>2. CASE j = i
        BY <1>4, <1>9, <1>11, <2>1, <2>5, <4>2
      <4>3. CASE i < j
        <5>1. d.end + 1 < list[j].start
          BY <1>11, <2>1, <3>3, <4>3 DEF Gaps
        <5>2. ~(j < i)
          BY <1>4, <1>11, <4>3
        <5> QED
          BY <1>4, <1>9, <2>2, <2>5, <5>1, <5>2
      <4> QED
        BY <1>4, <1>11, <4>1, <4>2, <4>3
    <3>4. /\ Good(t)
          /\ \A u \in Unit : Has(t, u) <=> Has(list, u) \/ u \in e.start .. e.end
          /\ Gaps(list) /\ (\A j \in 1 .. Len(list) : IF j < i THEN list[j].end + 1 < e.start ELSE e.end + 1 < list[j].start)
               => Gaps(t)
      BY <1>2, <1>3, <1>9, <3>2, InsertGood
    <3>5. Gaps(list) => Gaps(t)
      BY <3>3, <3>4
    <3> QED
      BY <1>9, <2>4, <3>1, <3>4, <3>5 DEF Returned
  <2>6. ASSUME NEW f \in Element, f.id = d.id, f.start <= f.end,
               f.start \in Int, f.end \in Int,
               \A u \in Int : u \in f.start .. f.end <=> u \in d.start .. d.end \/ u \in start .. end,
               list' = Scan([list EXCEPT ![i] = f]),
               \/ f.start = start /\ f.end = d.end /\ end + 1 = d.start
               \/ f.start = d.start /\ f.end = end /\ d.end + 1 = start
        PROVE  Good(list') /\ Returned(list', start, end) /\ (Gaps(list) => Gaps(list'))
    <3>1. PICK v : v = [list EXCEPT ![i] = f]
      OBVIOUS
    <3>2. FitsIn(list, i, f)
      <4>1. ASSUME NEW j \in 1 .. Len(list), j # i PROVE Apart(list[j], f)
        <5>1. Apart(list[j], d)
          BY <1>2, <1>11, <2>1, <4>1 DEF Good
        <5>2. list[j].id # d.id /\ (list[j].end < d.start \/ d.end < list[j].start)
          BY <5>1 DEF Apart
        <5>3. list[j].end < f.start \/ f.end < list[j].start
          BY <1>4, <1>7, <2>2, <2>6, <5>2
        <5> QED
          BY <2>6, <5>2, <5>3 DEF Apart
      <4> QED
        BY <4>1 DEF FitsIn
    <3>3. Replaced(v, list, i, f) /\ Proper(f)
      BY <2>6, <3>1 DEF Replaced, Proper
    <3>4. /\ Good(v) /\ Len(v) = Len(list)
          /\ \A j \in 1 .. Len(list) : v[j] = IF j = i THEN f ELSE list[j]
          /\ \A u \in Unit : Has(v, u) <=> (Has(list, u) /\ u \notin d.start .. d.end) \/ u \in f.start .. f.end
      BY <1>2, <1>11, <2>1, <3>2, <3>3, ReplaceGood
    <3>5. ASSUME NEW u \in Unit PROVE Has(v, u) <=> Has(list, u) \/ u \in start .. end
      <4>1. u \in Int
        BY UnitIsInt
      <4>2. u \in d.start .. d.end => Has(list, u)
        BY <1>11, <2>1, <2>2, <4>1 DEF Has
      <4> QED
        BY <2>6, <3>4, <4>1, <4>2
    <3>6. ASSUME Gaps(list) PROVE Ordered(v)
      <4>1. ASSUME NEW j \in 1 .. Len(list), NEW k \in 1 .. Len(list), j < k
            PROVE  v[j].end < v[k].start
        <5>1. list[j].end + 1 < list[k].start
          BY <3>6, <4>1 DEF Gaps
        <5>2. CASE j = i
          <6>1. v[j] = f /\ v[k] = list[k]
            BY <1>4, <3>4, <4>1, <5>2
          <6>2. d.end + 1 < list[k].start /\ (end < list[k].start \/ list[k].end < start)
            BY <1>7, <2>1, <5>1, <5>2
          <6> QED
            BY <1>4, <2>2, <2>6, <6>1, <6>2
        <5>3. CASE k = i
          <6>1. v[k] = f /\ v[j] = list[j]
            BY <1>4, <3>4, <4>1, <5>3
          <6>2. list[j].end + 1 < start /\ list[j].end + 1 < d.start
            BY <1>3, <2>1, <4>1, <5>1, <5>3
          <6> QED
            BY <1>4, <2>2, <2>6, <6>1, <6>2
        <5>4. CASE j # i /\ k # i
          BY <1>4, <3>4, <5>1, <5>4
        <5> QED
          BY <5>2, <5>3, <5>4
      <4> QED
        BY <3>4, <4>1 DEF Ordered
    <3>7. PICK t : t = list'
      OBVIOUS
    <3>8. t = Scan(v)
      BY <2>6, <3>1, <3>7
    <3>9. Good(t) /\ (\A u \in Unit : Has(t, u) <=> Has(v, u)) /\ (Ordered(v) => Gaps(t))
      BY <3>4, <3>8, ScanOfList
    <3> QED
      BY <3>5, <3>6, <3>7, <3>9 DEF Returned
  <2>7. CASE end + 1 = d.start /\ list' = Scan([list EXCEPT ![i].start = start])
    <3>1. PICK f : f = [d EXCEPT !.start = start]
      OBVIOUS
    <3>2. f \in Element /\ f.id = d.id /\ f.start = start /\ f.end = d.end
      BY <2>2, <3>1 DEF Element
    <3>3. list' = Scan([list EXCEPT ![i] = f])
      BY <2>1, <2>7, <3>1
    <3>4. \A u \in Int : u \in f.start .. f.end <=> u \in d.start .. d.end \/ u \in start .. end
      BY <1>4, <2>2, <2>7, <3>2
    <3>5. f.start <= f.end /\ f.start \in Int /\ f.end \in Int
      BY <1>4, <2>2, <2>7, <3>2
    <3> QED
      BY <2>4, <2>6, <2>7, <3>2, <3>3, <3>4, <3>5
  <2>8. CASE d.end + 1 = start /\ list' = Scan([list EXCEPT ![i].end = end])
    <3>1. PICK f : f = [d EXCEPT !.end = end]
      OBVIOUS
    <3>2. f \in Element /\ f.id = d.id /\ f.start = d.start /\ f.end = end
      BY <2>2, <3>1 DEF Element
    <3>3. list' = Scan([list EXCEPT ![i] = f])
      BY <2>1, <2>8, <3>1
    <3>4. \A u \in Int : u \in f.start .. f.end <=> u \in d.start .. d.end \/ u \in start .. end
      BY <1>4, <2>2, <2>8, <3>2
    <3>5. f.start <= f.end /\ f.start \in Int /\ f.end \in Int
      BY <1>4, <2>2, <2>8, <3>2
    <3> QED
      BY <2>4, <2>6, <2>8, <3>2, <3>3, <3>4, <3>5
  <2> QED
    BY <2>4, <2>5, <2>7, <2>8
<1>12. i > Len(list) \/ i \in 1 .. Len(list)
  BY <1>3, <1>4
<1> QED
  BY <1>10, <1>11, <1>12

-----------------------------------------------------------------------------
(* The steps.                                                              *)

LEMMA InitRlistInv == RlistInit => RlistInv
<1> SUFFICES ASSUME RlistInit PROVE RlistInv
  OBVIOUS
<1>1. /\ list = <<>> /\ held = Unit /\ asleep = [p \in Proc |-> {}]
      /\ slept = FALSE /\ wild = FALSE /\ panicked = FALSE
  BY DEF RlistInit
<1>2. list \in Seq(Element) /\ Len(list) = 0 /\ \A i \in 1 .. 0 : FALSE
  BY <1>1
<1>3. Good(list) /\ Gaps(list) /\ \A u : ~Has(list, u)
  BY <1>2 DEF Good, Gaps, Has
<1>4. \A p \in Proc : asleep[p] = {}
  BY <1>1
<1>5. \A p \in Proc : \A u : ~Waits(p, u)
  BY <1>4 DEF Waits
<1>6. RlistBase
  <2>1. asleep \in [Proc -> SUBSET Waiting]
    BY <1>1
  <2> QED
    BY <1>1, <1>4, <2>1 DEF RlistBase
<1>7. \A u \in Unit : One(u)
  BY <1>1, <1>3, <1>5 DEF One
<1> QED
  BY <1>3, <1>4, <1>6, <1>7, <1>1 DEF RlistInv, EachOnce, Calm

LEMMA FreeNowStep ==
  ASSUME RlistInv, NEW start \in Unit, NEW end \in start .. Size - 1, free_now(start, end)
  PROVE  RlistInv'
<1>1. /\ ~wild /\ start .. end \subseteq held /\ rlist_free(start, end)
      /\ held' = held \ start .. end /\ asleep' = asleep /\ slept' = slept /\ wild' = wild
  BY DEF free_now, Alive
<1>2. end \in Unit /\ start <= end /\ start \in Int /\ end \in Int
  BY RlistAssumption DEF Unit
<1>3. /\ Good(list') /\ Returned(list', start, end) /\ panicked' = FALSE
      /\ Gaps(list) => Gaps(list')
  BY <1>1, <1>2, FreeIs
<1>4. RlistBase /\ EachOnce /\ Calm
  BY DEF RlistInv
<1>5. RlistBase'
  <2>1. held' \subseteq Unit
    BY <1>1, <1>4 DEF RlistBase
  <2> QED
    BY <1>1, <1>3, <1>4, <2>1 DEF RlistBase
<1>6. Calm'
  <2>1. ASSUME ~slept PROVE (\A p \in Proc : asleep'[p] = {}) /\ Gaps(list')
    BY <1>1, <1>3, <1>4, <2>1 DEF Calm
  <2> QED
    BY <1>1, <2>1 DEF Calm
<1>7. ASSUME NEW u \in Unit PROVE One(u)'
  <2>1. One(u)
    BY <1>1, <1>4 DEF EachOnce
  <2>2. \A p \in Proc : Waits(p, u)' <=> Waits(p, u)
    BY <1>1 DEF Waits
  <2>3. Has(list, u)' <=> Has(list, u) \/ u \in start .. end
    BY <1>3 DEF Returned
  <2>4. u \in held' <=> u \in held /\ u \notin start .. end
    BY <1>1
  <2>5. u \in start .. end => u \in held
    BY <1>1
  <2> QED
    BY <2>1, <2>2, <2>3, <2>4, <2>5 DEF One
<1> QED
  BY <1>3, <1>5, <1>6, <1>7 DEF RlistInv, EachOnce

LEMMA FreeSleepStep ==
  ASSUME RlistInv, NEW start \in Unit, NEW end \in start .. Size - 1, NEW p \in Proc, free_sleep(p, start, end)
  PROVE  RlistInv'
<1>1. PICK i : i = Stop(start)
  OBVIOUS
<1>2. PICK olp : olp = IF i = 1 THEN NULL ELSE list[i - 1].id
  OBVIOUS
<1>3. PICK w : w = [start |-> start, end |-> end, olp |-> olp]
  OBVIOUS
<1>4. /\ ~wild /\ ~panicked /\ asleep[p] = {} /\ start .. end \subseteq held
      /\ held' = held \ start .. end /\ asleep' = [asleep EXCEPT ![p] = {w}]
      /\ slept' = TRUE /\ list' = list /\ wild' = wild /\ panicked' = panicked
      /\ i \in DOMAIN list
  BY <1>1, <1>2, <1>3 DEF free_sleep, Alive
<1>5. end \in Unit /\ start <= end /\ start \in Int /\ end \in Int
  BY RlistAssumption DEF Unit
<1>6. RlistBase /\ EachOnce /\ Calm /\ Good(list)
  BY DEF RlistInv
<1>7. olp \in Address \cup {NULL}
  <2>1. /\ i \in 1 .. Len(list) /\ Len(list) \in Nat
        /\ \A j \in 1 .. Len(list) : list[j].id \in Address
    BY <1>4, <1>6, GoodIs
  <2>2. i # 1 => i - 1 \in 1 .. Len(list)
    BY <2>1
  <2> QED
    BY <1>2, <2>1, <2>2
<1>8. w \in Waiting /\ w.start = start /\ w.end = end
  BY <1>3, <1>5, <1>7 DEF Waiting
<1>9. /\ asleep \in [Proc -> SUBSET Waiting]
      /\ \A q \in Proc : asleep'[q] = IF q = p THEN {w} ELSE asleep[q]
  BY <1>4, <1>6 DEF RlistBase
<1>10. RlistBase'
  <2>1. asleep' \in [Proc -> SUBSET Waiting]
    BY <1>4, <1>8, <1>9
  <2>2. held' \subseteq Unit
    BY <1>4, <1>6 DEF RlistBase
  <2>3. ASSUME NEW q \in Proc, NEW v \in asleep'[q] PROVE v.start <= v.end /\ asleep'[q] = {v}
    BY <1>5, <1>6, <1>8, <1>9, <2>3 DEF RlistBase
  <2>4. slept' \in BOOLEAN /\ wild' \in BOOLEAN /\ panicked' = FALSE
    BY <1>4, <1>6 DEF RlistBase
  <2> QED
    BY <2>1, <2>2, <2>3, <2>4 DEF RlistBase
<1>11. ASSUME NEW u \in Unit PROVE One(u)'
  <2>1. One(u)
    BY <1>4, <1>6 DEF EachOnce
  <2>2. ASSUME NEW q \in Proc, q # p PROVE Waits(q, u)' <=> Waits(q, u)
    BY <1>9, <2>2 DEF Waits
  <2>3. Waits(p, u)' <=> u \in start .. end
    BY <1>8, <1>9 DEF Waits
  <2>4. ~Waits(p, u)
    BY <1>4 DEF Waits
  <2>5. Has(list, u)' <=> Has(list, u)
    BY <1>4
  <2>6. u \in held' <=> u \in held /\ u \notin start .. end
    BY <1>4
  <2>7. u \in start .. end => u \in held
    BY <1>4
  <2> QED
    BY <2>1, <2>2, <2>3, <2>4, <2>5, <2>6, <2>7 DEF One
<1>12. Calm' /\ Good(list')
  BY <1>4, <1>6 DEF Calm
<1> QED
  BY <1>10, <1>11, <1>12 DEF RlistInv, EachOnce

LEMMA FreeWakeStep ==
  ASSUME RlistInv, NEW p \in Proc, free_wake(p)
  PROVE  RlistInv'
<1>1. PICK w \in asleep[p] : TRUE
  BY DEF free_wake
<1>2. RlistBase /\ EachOnce /\ Calm /\ Good(list)
  BY DEF RlistInv
<1>3. w \in Waiting /\ asleep[p] = {w} /\ asleep \in [Proc -> SUBSET Waiting] /\ w.start <= w.end
  BY <1>1, <1>2 DEF RlistBase
<1>4. w.start \in Unit /\ w.end \in Unit
  BY <1>3 DEF Waiting
<1>5. slept
  BY <1>2, <1>3 DEF Calm, RlistBase, free_wake, Alive
<1> DEFINE Place == {i \in DOMAIN list : list[i].id = w.olp}
           e == New(w.start, w.end)
<1>6. /\ ~wild /\ asleep' = [asleep EXCEPT ![p] = {}]
      /\ held' = held /\ slept' = slept /\ panicked' = panicked
      /\ \/ list' = <<e>> \o list /\ wild' = wild
         \/ Place # {} /\ list' = InsertAt(list, Min(Place) + 1, e) /\ wild' = wild
         \/ wild' = TRUE /\ list' = list
  BY <1>3 DEF free_wake, Alive
<1>7. \A q \in Proc : asleep'[q] = IF q = p THEN {} ELSE asleep[q]
  BY <1>3, <1>6
<1>8. RlistBase'
  <2>1. asleep' \in [Proc -> SUBSET Waiting]
    BY <1>3, <1>6
  <2>2. \A q \in Proc : \A v \in asleep'[q] : v.start <= v.end /\ asleep'[q] = {v}
    BY <1>2, <1>7 DEF RlistBase
  <2>3. held' \subseteq Unit /\ slept' \in BOOLEAN /\ wild' \in BOOLEAN /\ panicked' = FALSE
    BY <1>2, <1>6 DEF RlistBase
  <2> QED
    BY <2>1, <2>2, <2>3 DEF RlistBase
<1>9. Calm'
  BY <1>5, <1>6 DEF Calm
<1>10. CASE wild' = TRUE /\ list' = list
  BY <1>2, <1>8, <1>9, <1>10 DEF RlistInv, EachOnce
<1>11. CASE wild' = wild /\ \E k \in 1 .. Len(list) + 1 : Proper(e) /\ Inserted(list', list, k, e)
  <2>1. PICK k \in 1 .. Len(list) + 1 : Inserted(list', list, k, e)
    BY <1>11
  <2>2. \A u \in w.start .. w.end : ~Has(list, u)
    <3>1. ASSUME NEW u \in w.start .. w.end PROVE ~Has(list, u)
      <4>1. u \in Unit /\ Waits(p, u)
        BY <1>3, <1>4, <3>1, UnitIsInt DEF Waits
      <4> QED
        BY <1>2, <1>6, <4>1, OneIs DEF EachOnce
    <3> QED
      BY <3>1
  <2>3. Proper(e) /\ e.start = w.start /\ e.end = w.end /\ \A i \in 1 .. Len(list) : Apart(list[i], e)
    BY <1>2, <1>3, <1>4, <2>2, NewIs
  <2>4. PICK t : t = list'
    OBVIOUS
  <2>5. PICK d : d = e
    OBVIOUS
  <2>6. /\ Good(t)
        /\ \A u \in Unit : Has(t, u) <=> Has(list, u) \/ u \in d.start .. d.end
    <3>1. Proper(d) /\ Inserted(t, list, k, d) /\ \A i \in 1 .. Len(list) : Apart(list[i], d)
      BY <2>1, <2>3, <2>4, <2>5
    <3> QED
      BY <1>2, <3>1, InsertGood
  <2>7. ASSUME NEW u \in Unit PROVE One(u)'
    <3>1. One(u)
      BY <1>2, <1>6 DEF EachOnce
    <3>2. ASSUME NEW q \in Proc, q # p PROVE Waits(q, u)' <=> Waits(q, u)
      BY <1>7, <3>2 DEF Waits
    <3>3. Waits(p, u) <=> u \in w.start .. w.end
      BY <1>3 DEF Waits
    <3>4. ~Waits(p, u)'
      BY <1>7 DEF Waits
    <3>5. Has(list, u)' <=> Has(list, u) \/ u \in w.start .. w.end
      BY <2>3, <2>4, <2>5, <2>6
    <3>6. u \in held' <=> u \in held
      BY <1>6
    <3> QED
      BY <3>1, <3>2, <3>3, <3>4, <3>5, <3>6 DEF One
  <2>8. Good(list')
    BY <2>4, <2>6
  <2> QED
    BY <1>8, <1>9, <2>7, <2>8 DEF RlistInv, EachOnce
<1>12. Proper(e) /\ e \in Element
  <2>1. \A u \in w.start .. w.end : ~Has(list, u)
    <3>1. ASSUME NEW u \in w.start .. w.end PROVE ~Has(list, u)
      <4>1. u \in Unit /\ Waits(p, u)
        BY <1>3, <1>4, <3>1, UnitIsInt DEF Waits
      <4> QED
        BY <1>2, <1>6, <4>1, OneIs DEF EachOnce
    <3> QED
      BY <3>1
  <2> QED
    BY <1>2, <1>3, <1>4, <2>1, NewIs DEF Proper
<1>13. list \in Seq(Element) /\ Len(list) \in Nat /\ DOMAIN list = 1 .. Len(list)
  BY <1>2, GoodIs
<1>14. CASE list' = <<e>> \o list /\ wild' = wild
  <2>1. Inserted(list', list, 1, e) /\ 1 \in 1 .. Len(list) + 1
    BY <1>12, <1>13, <1>14, PrependIs
  <2> QED
    BY <1>11, <1>12, <1>14, <2>1
<1>15. CASE Place # {} /\ list' = InsertAt(list, Min(Place) + 1, e) /\ wild' = wild
  <2>1. Place \in SUBSET Nat
    BY <1>13
  <2>2. PICK m : m = Min(Place)
    OBVIOUS
  <2>3. m \in Place
    <3> HIDE DEF Place
    <3> QED
      BY <1>15, <2>1, <2>2, LeastIs
  <2>4. PICK k : k = m + 1
    OBVIOUS
  <2>5. k \in 1 .. Len(list) + 1
    BY <1>13, <2>3, <2>4
  <2>6. list' = InsertAt(list, k, e)
    BY <1>15, <2>2, <2>4
  <2>7. Inserted(list', list, k, e)
    BY <1>12, <1>13, <2>5, <2>6, InsertAtIs
  <2> QED
    BY <1>11, <1>12, <1>15, <2>5, <2>7
<1> QED
  BY <1>6, <1>10, <1>14, <1>15

LEMMA AllocStep ==
  ASSUME RlistInv, NEW size \in 1 .. Size, rlist_alloc(size), list' # list \/ held' # held
  PROVE  RlistInv'
<1>1. PICK i : i = Min(Fits(size))
  OBVIOUS
<1>2. /\ ~wild /\ Fits(size) # {} /\ list' = Taken(i, size)
      /\ held' = held \cup list[i].start .. list[i].start + size - 1
      /\ asleep' = asleep /\ slept' = slept /\ wild' = wild /\ panicked' = panicked
  BY <1>1 DEF rlist_alloc, rlistVars, Alive
<1>3. RlistBase /\ EachOnce /\ Calm /\ Good(list)
  BY DEF RlistInv
<1>4. /\ list \in Seq(Element) /\ Len(list) \in Nat /\ DOMAIN list = 1 .. Len(list)
      /\ size \in Int /\ size >= 1
      /\ \A j, k \in 1 .. Len(list) : j # k => Apart(list[j], list[k])
  BY <1>3, GoodIs, RlistAssumption DEF Good
<1>5. i \in 1 .. Len(list) /\ size <= list[i].end - list[i].start + 1
  <2>1. Fits(size) \in SUBSET Nat
    BY <1>4 DEF Fits
  <2>2. i \in Fits(size)
    BY <1>1, <1>2, <2>1, LeastIs
  <2> QED
    BY <1>4, <2>2 DEF Fits
<1>6. PICK d : d = list[i]
  OBVIOUS
<1>7. /\ d \in Element /\ d.start \in Unit /\ d.end \in Unit /\ d.start \in Int /\ d.end \in Int
      /\ d.start <= d.end /\ size <= d.end - d.start + 1
  BY <1>3, <1>5, <1>6, GoodIs
<1>8. PICK given : given = d.start .. d.start + size - 1
  OBVIOUS
<1>9. given \subseteq Unit /\ held' = held \cup given /\ \A u \in given : u \in Int /\ d.start <= u /\ u <= d.end
  BY <1>2, <1>4, <1>6, <1>7, <1>8, UnitIsInt, RlistAssumption DEF Unit
<1>10. \A u \in given : Has(list, u)
  BY <1>5, <1>6, <1>9 DEF Has
<1>11. PICK t : t = list'
  OBVIOUS
<1>12. Good(t) /\ (\A u \in Unit : Has(t, u) <=> Has(list, u) /\ u \notin given) /\ (Gaps(list) => Gaps(t))
  <2>1. CASE d.start + size > d.end
    <3>1. t = RemoveAt(list, i)
      BY <1>2, <1>6, <1>11, <2>1 DEF Taken
    <3>2. Removed(t, list, i)
      BY <1>4, <1>5, <3>1, RemoveAtIs
    <3>3. given = d.start .. d.end
      BY <1>4, <1>7, <1>8, <2>1
    <3> QED
      BY <1>3, <1>5, <1>6, <3>2, <3>3, RemoveGood
  <2>2. CASE ~(d.start + size > d.end)
    <3>1. PICK f : f = [d EXCEPT !.start = d.start + size]
      OBVIOUS
    <3>2. d.start + size \in Unit /\ d.start + size \in Int
      BY <1>4, <1>7, <2>2, RlistAssumption DEF Unit
    <3>3. f \in Element /\ f.id = d.id /\ f.start = d.start + size /\ f.end = d.end
      BY <1>7, <3>1, <3>2 DEF Element
    <3>4. t = [list EXCEPT ![i] = f]
      <4>1. t = [list EXCEPT ![i].start = @ + size]
        BY <1>2, <1>6, <1>11, <2>2 DEF Taken
      <4> QED
        BY <1>6, <3>1, <4>1
    <3>5. Proper(f) /\ Replaced(t, list, i, f)
      BY <1>4, <1>7, <2>2, <3>3, <3>4 DEF Proper, Replaced
    <3>6. FitsIn(list, i, f)
      <4>1. ASSUME NEW j \in 1 .. Len(list), j # i PROVE Apart(list[j], f)
        <5>1. Apart(list[j], d)
          BY <1>4, <1>5, <1>6, <4>1
        <5>2. list[j].end \in Int
          BY <1>3, GoodIs
        <5> QED
          BY <1>4, <1>7, <3>3, <5>1, <5>2 DEF Apart
      <4> QED
        BY <4>1 DEF FitsIn
    <3>7. /\ Good(t) /\ Len(t) = Len(list)
          /\ \A j \in 1 .. Len(list) : t[j] = IF j = i THEN f ELSE list[j]
          /\ \A u \in Unit : Has(t, u) <=> (Has(list, u) /\ u \notin d.start .. d.end) \/ u \in f.start .. f.end
      BY <1>3, <1>5, <1>6, <3>5, <3>6, ReplaceGood
    <3>8. ASSUME NEW u \in Unit PROVE Has(t, u) <=> Has(list, u) /\ u \notin given
      <4>1. u \in Int
        BY UnitIsInt
      <4>2. u \in d.start .. d.end => Has(list, u)
        BY <1>5, <1>6, <1>7, <4>1 DEF Has
      <4>3. u \in f.start .. f.end <=> u \in d.start .. d.end /\ u \notin given
        BY <1>4, <1>7, <1>8, <3>3, <4>1
      <4>4. u \in given => u \in d.start .. d.end
        BY <1>7, <1>9
      <4> QED
        BY <3>7, <4>2, <4>3, <4>4
    <3>9. ASSUME Gaps(list) PROVE Gaps(t)
      <4>1. ASSUME NEW j \in 1 .. Len(list), NEW k \in 1 .. Len(list), j < k
            PROVE  t[j].end + 1 < t[k].start
        <5>1. list[j].end + 1 < list[k].start /\ list[j].end \in Int /\ list[k].start \in Int
          BY <1>3, <3>9, <4>1, GoodIs DEF Gaps
        <5>2. t[j].end = list[j].end
          BY <1>6, <3>3, <3>7
        <5>3. t[k].start = IF k = i THEN list[k].start + size ELSE list[k].start
          BY <1>6, <3>3, <3>7
        <5> QED
          BY <1>4, <5>1, <5>2, <5>3
      <4> QED
        BY <3>7, <4>1 DEF Gaps
    <3> QED
      BY <3>7, <3>8, <3>9
  <2> QED
    BY <2>1, <2>2
<1>13. RlistBase'
  <2>1. held' \subseteq Unit
    BY <1>3, <1>9 DEF RlistBase
  <2> QED
    BY <1>2, <1>3, <2>1 DEF RlistBase
<1>14. Calm'
  <2>1. ASSUME ~slept PROVE (\A p \in Proc : asleep'[p] = {}) /\ Gaps(list')
    BY <1>2, <1>3, <1>11, <1>12, <2>1 DEF Calm
  <2> QED
    BY <1>2, <2>1 DEF Calm
<1>15. ASSUME NEW u \in Unit PROVE One(u)'
  <2>1. One(u)
    BY <1>2, <1>3 DEF EachOnce
  <2>2. \A p \in Proc : Waits(p, u)' <=> Waits(p, u)
    BY <1>2 DEF Waits
  <2>3. Has(list, u)' <=> Has(list, u) /\ u \notin given
    BY <1>11, <1>12
  <2>4. u \in held' <=> u \in held \/ u \in given
    BY <1>9
  <2>5. u \in given => Has(list, u)
    BY <1>10
  <2> QED
    BY <2>1, <2>2, <2>3, <2>4, <2>5 DEF One
<1>16. Good(list')
  BY <1>11, <1>12
<1> QED
  BY <1>13, <1>14, <1>15, <1>16 DEF RlistInv, EachOnce

LEMMA DestroyStep ==
  ASSUME RlistInv, rlist_destroy
  PROVE  RlistInv'
<1>1. /\ Freeing = {} /\ ~wild
      /\ list' = <<>> /\ held' = Unit /\ slept' = FALSE
      /\ asleep' = asleep /\ wild' = wild /\ panicked' = panicked
  BY DEF rlist_destroy, Alive
<1>2. RlistBase
  BY DEF RlistInv
<1>3. ASSUME NEW p \in Proc PROVE asleep[p] = {}
  <2> SUFFICES ASSUME NEW w \in asleep[p] PROVE FALSE
    OBVIOUS
  <2>1. w.start <= w.end /\ w \in Waiting
    BY <1>2 DEF RlistBase
  <2>2. w.start \in Int /\ w.end \in Int
    BY <2>1, UnitIsInt DEF Waiting
  <2>3. w.start \in Extent(w)
    BY <2>1, <2>2 DEF Extent
  <2>4. w.start \in Freeing
    BY <2>3 DEF Freeing
  <2> QED
    BY <1>1, <2>4
<1>4. list' \in Seq(Element) /\ Len(list') = 0 /\ \A i \in 1 .. 0 : FALSE
  BY <1>1
<1>5. PICK t : t = list'
  OBVIOUS
<1>6. Good(t) /\ Gaps(t) /\ \A u : ~Has(t, u)
  BY <1>4, <1>5 DEF Good, Gaps, Has
<1>7. RlistBase'
  BY <1>1, <1>2 DEF RlistBase
<1>8. Calm'
  BY <1>1, <1>3, <1>5, <1>6 DEF Calm
<1>9. ASSUME NEW u \in Unit PROVE One(u)'
  <2>1. \A p \in Proc : ~Waits(p, u)'
    BY <1>1, <1>3 DEF Waits
  <2>2. ~Has(list, u)'
    BY <1>5, <1>6
  <2> QED
    BY <1>1, <2>1, <2>2 DEF One
<1> QED
  BY <1>5, <1>6, <1>7, <1>8, <1>9 DEF RlistInv, EachOnce

LEMMA StepRlistInv == RlistInv /\ [RlistNext]_rlistVars => RlistInv'
<1> SUFFICES ASSUME RlistInv, [RlistNext]_rlistVars PROVE RlistInv'
  OBVIOUS
<1>1. CASE UNCHANGED rlistVars
  BY <1>1 DEF rlistVars, RlistInv, RlistBase, EachOnce, Calm, One, Waits
<1>2. ASSUME NEW start \in Unit, NEW end \in start .. Size - 1, free_now(start, end) PROVE RlistInv'
  BY <1>2, FreeNowStep
<1>3. ASSUME NEW start \in Unit, NEW end \in start .. Size - 1, NEW p \in Proc, free_sleep(p, start, end)
      PROVE  RlistInv'
  BY <1>3, FreeSleepStep
<1>4. ASSUME NEW p \in Proc, free_wake(p) PROVE RlistInv'
  BY <1>4, FreeWakeStep
<1>5. ASSUME NEW size \in 1 .. Size, rlist_alloc(size) PROVE RlistInv'
  <2>1. CASE list' # list \/ held' # held
    BY <1>5, <2>1, AllocStep
  <2>2. CASE list' = list /\ held' = held
    <3>1. UNCHANGED rlistVars
      BY <1>5, <2>2 DEF rlist_alloc, rlistVars
    <3> QED
      BY <1>1, <3>1
  <2> QED
    BY <2>1, <2>2
<1>6. CASE rlist_destroy
  BY <1>6, DestroyStep
<1>7. ASSUME NEW start \in Unit, NEW end \in start .. Size - 1, free_nomem(start, end) PROVE RlistInv'
  <2>1. wild' = TRUE /\ list' = list /\ held' = held /\ asleep' = asleep /\ slept' = slept /\ panicked' = panicked
    BY <1>7 DEF free_nomem
  <2> QED
    BY <2>1 DEF RlistInv, RlistBase, EachOnce, Calm
<1> QED
  BY <1>1, <1>2, <1>3, <1>4, <1>5, <1>6, <1>7 DEF RlistNext

-----------------------------------------------------------------------------
(* What is on the list.                                                    *)

LEMMA RlistIsExact == RlistInv => SpaceIsReturned /\ RegionsAreFound
<1> SUFFICES ASSUME RlistInv PROVE SpaceIsReturned /\ RegionsAreFound
  OBVIOUS
<1>1. RlistBase /\ EachOnce /\ Calm /\ Good(list)
  BY DEF RlistInv
<1>2. /\ list \in Seq(Element) /\ Len(list) \in Nat /\ DOMAIN list = 1 .. Len(list)
      /\ \A i \in 1 .. Len(list) :
           /\ list[i].start \in Unit /\ list[i].end \in Unit
           /\ list[i].start \in Int /\ list[i].end \in Int /\ list[i].start <= list[i].end
  BY <1>1, GoodIs
<1>3. ASSUME NEW i \in DOMAIN list, NEW j \in DOMAIN list, i # j
      PROVE  list[i].id # list[j].id /\ Extent(list[i]) \cap Extent(list[j]) = {}
  <2>1. Apart(list[i], list[j])
    BY <1>1, <1>2, <1>3 DEF Good
  <2>2. list[i].id # list[j].id /\ (list[i].end < list[j].start \/ list[j].end < list[i].start)
    BY <2>1 DEF Apart
  <2>3. ASSUME NEW u, u \in Extent(list[i]), u \in Extent(list[j]) PROVE FALSE
    BY <1>2, <2>2, <2>3 DEF Extent
  <2> QED
    BY <2>2, <2>3
<1>4. RlistTypeOK
  <2>1. \A p \in Proc : \A w \in asleep[p] : w \in Waiting
    BY <1>1 DEF RlistBase
  <2>2. held \subseteq Unit /\ slept \in BOOLEAN /\ wild \in BOOLEAN /\ panicked \in BOOLEAN
    BY <1>1 DEF RlistBase
  <2> QED
    BY <1>2, <1>3, <2>1, <2>2 DEF RlistTypeOK, Waiting
<1>5. \A u : u \in Listed <=> Has(list, u) /\ u \in Unit
  <2>1. ASSUME NEW u, u \in Listed PROVE Has(list, u) /\ u \in Unit
    <3>1. PICK i \in DOMAIN list : u \in Extent(list[i])
      BY <2>1 DEF Listed
    <3>2. u \in list[i].start .. list[i].end
      BY <3>1 DEF Extent
    <3>3. u \in Unit
      BY <1>2, <3>2, UnitIsInt
    <3> QED
      BY <1>2, <3>2, <3>3 DEF Has
  <2>2. ASSUME NEW u \in Unit, Has(list, u) PROVE u \in Listed
    <3>1. PICK i \in 1 .. Len(list) : list[i].start <= u /\ u <= list[i].end
      BY <2>2 DEF Has
    <3>2. u \in Extent(list[i])
      BY <1>2, <3>1, UnitIsInt DEF Extent
    <3> QED
      BY <1>2, <3>2 DEF Listed
  <2> QED
    BY <2>1, <2>2
<1>6. \A u : u \in Freeing <=> \E p \in Proc : Waits(p, u)
  <2>1. ASSUME NEW u, u \in Freeing PROVE \E p \in Proc : Waits(p, u)
    <3>1. PICK p \in Proc : u \in UNION {Extent(w) : w \in asleep[p]}
      BY <2>1 DEF Freeing
    <3>2. PICK w \in asleep[p] : u \in Extent(w)
      BY <3>1
    <3> QED
      BY <3>2 DEF Waits, Extent
  <2>2. ASSUME NEW u, NEW p \in Proc, Waits(p, u) PROVE u \in Freeing
    <3>1. PICK w \in asleep[p] : u \in Extent(w)
      BY <2>2 DEF Waits, Extent
    <3>2. u \in UNION {Extent(x) : x \in asleep[p]}
      BY <3>1
    <3> QED
      BY <3>2 DEF Freeing
  <2> QED
    BY <2>1, <2>2
<1>7. ASSUME ~wild PROVE Listed = Free
  <2>1. ASSUME NEW u PROVE u \in Listed <=> u \in Free
    <3>1. CASE u \in Unit
      <4>1. One(u)
        BY <1>1, <1>7, <3>1 DEF EachOnce
      <4>2. u \in Free <=> u \notin held /\ ~\E p \in Proc : Waits(p, u)
        BY <1>6, <3>1 DEF Free
      <4> QED
        BY <1>5, <3>1, <4>1, <4>2 DEF One
    <3>2. CASE u \notin Unit
      BY <1>5, <3>2 DEF Free
    <3> QED
      BY <3>1, <3>2
  <2> QED
    BY <2>1
<1>8. SpaceIsReturned
  <2>1. Disjoint
    BY <1>3 DEF Disjoint
  <2>2. wild \/ Listed = Free
    BY <1>1, <1>7 DEF RlistBase
  <2> QED
    BY <1>1, <1>4, <2>1, <2>2 DEF SpaceIsReturned, RlistBase
<1>9. ASSUME NEW start \in Unit, NEW end \in Unit, ~slept, ~wild, start <= end, start .. end \subseteq Free
      PROVE  \E i \in DOMAIN list : start .. end \subseteq Extent(list[i])
  <2>1. start \in Int /\ end \in Int
    BY UnitIsInt
  <2>2. Gaps(list) /\ Listed = Free
    BY <1>1, <1>7, <1>9 DEF Calm
  <2>3. \A u \in start .. end : Has(list, u)
    BY <1>5, <1>9, <2>2
  <2>4. PICK i \in 1 .. Len(list) : list[i].start <= start /\ start <= list[i].end
    <3>1. Has(list, start)
      BY <1>9, <2>1, <2>3
    <3> QED
      BY <3>1 DEF Has
  <2>5. end <= list[i].end
    <3> SUFFICES ASSUME list[i].end < end PROVE FALSE
      BY <1>2, <2>1
    <3>1. PICK u : u = list[i].end + 1
      OBVIOUS
    <3>2. u \in start .. end
      BY <1>2, <2>1, <2>4, <3>1
    <3>3. PICK j \in 1 .. Len(list) : list[j].start <= u /\ u <= list[j].end
      BY <2>3, <3>2 DEF Has
    <3>4. i < j \/ j < i \/ i = j
      BY <1>2
    <3>5. CASE i < j
      <4>1. list[i].end + 1 < list[j].start
        BY <2>2, <3>5 DEF Gaps
      <4> QED
        BY <1>2, <3>1, <3>3, <4>1
    <3>6. CASE j < i
      <4>1. list[j].end + 1 < list[i].start
        BY <2>2, <3>6 DEF Gaps
      <4> QED
        BY <1>2, <3>1, <3>3, <4>1
    <3>7. CASE i = j
      BY <1>2, <3>1, <3>3, <3>7
    <3> QED
      BY <3>4, <3>5, <3>6, <3>7
  <2>6. start .. end \subseteq Extent(list[i])
    BY <1>2, <2>1, <2>4, <2>5 DEF Extent
  <2> QED
    BY <1>2, <2>6
<1>10. RegionsAreFound
  BY <1>9 DEF RegionsAreFound
<1> QED
  BY <1>8, <1>10

\* No unit of a resource is lost or is on its list twice, and returning it is never
\* taken for returning it twice, whatever other processes do to the list while
\* rlist_free() sleeps in malloc(), up to the moment it writes to a freed element;
\* for any size of the resource and any number of processes.
THEOREM SpaceIsKept == RlistSpec => []SpaceIsReturned
BY InitRlistInv, StepRlistInv, RlistIsExact, PTL DEF RlistSpec

\* As long as malloc() has not slept a region that is free lies in one element, so
\* that rlist_alloc() finds it: elements that touch were joined, in whatever order
\* they came back.
THEOREM FreeRegionsAreFound == RlistSpec => []RegionsAreFound
BY InitRlistInv, StepRlistInv, RlistIsExact, PTL DEF RlistSpec

-----------------------------------------------------------------------------
(* Advisory locks: the list of a file's locks is in order, loses nobody    *)
(* who waits, and is the table of bytes that it stands for.  Lists of      *)
(* locks are put together from pieces, so first some facts on sequences.   *)

LEMMA SeqIs ==
  ASSUME NEW S, NEW s \in Seq(S)
  PROVE  /\ Len(s) \in Nat /\ DOMAIN s = 1 .. Len(s)
         /\ \A i \in 1 .. Len(s) : s[i] \in S /\ s[i] \in Range(s)
         /\ \A x : x \in Range(s) <=> \E i \in 1 .. Len(s) : s[i] = x
         /\ \A x \in Range(s) : x \in S
<1>1. Len(s) \in Nat /\ DOMAIN s = 1 .. Len(s) /\ \A i \in 1 .. Len(s) : s[i] \in S
  BY LenProperties, ElementOfSeq
<1>2. \A x : x \in Range(s) <=> \E i \in 1 .. Len(s) : s[i] = x
  BY <1>1 DEF Range
<1> QED
  BY <1>1, <1>2

LEMMA IsSeq ==
  ASSUME NEW S, NEW n \in Nat, NEW t \in [1 .. n -> S]
  PROVE  t \in Seq(S) /\ Len(t) = n
<1>1. t \in Seq(S)
  BY SeqDef
<1> QED
  BY <1>1, LenProperties

LEMMA PutIs ==
  ASSUME NEW S, NEW s \in Seq(S), NEW k \in 1 .. Len(s), NEW x \in S
  PROVE  /\ [s EXCEPT ![k] = x] \in Seq(S) /\ Len([s EXCEPT ![k] = x]) = Len(s)
         /\ \A i \in 1 .. Len(s) : [s EXCEPT ![k] = x][i] = IF i = k THEN x ELSE s[i]
<1>1. Len(s) \in Nat /\ DOMAIN s = 1 .. Len(s) /\ s \in [1 .. Len(s) -> S]
  BY LenProperties
<1>2. PICK t : t = [s EXCEPT ![k] = x]
  OBVIOUS
<1>3. t \in [1 .. Len(s) -> S] /\ \A i \in 1 .. Len(s) : t[i] = IF i = k THEN x ELSE s[i]
  BY <1>1, <1>2
<1>4. t \in Seq(S) /\ Len(t) = Len(s)
  BY <1>1, <1>3, IsSeq
<1> QED
  BY <1>2, <1>3, <1>4

LEMMA NoSeq ==
  ASSUME NEW S
  PROVE  <<>> \in Seq(S) /\ Len(<<>>) = 0 /\ Range(<<>>) = {}
BY DEF Range

LEMMA OneSeq ==
  ASSUME NEW S, NEW x \in S
  PROVE  <<x>> \in Seq(S) /\ Len(<<x>>) = 1 /\ <<x>>[1] = x /\ Range(<<x>>) = {x}
<1>1. <<x>> \in Seq(S) /\ Len(<<x>>) = 1 /\ <<x>>[1] = x /\ DOMAIN <<x>> = 1 .. 1
  OBVIOUS
<1>2. \A i \in 1 .. 1 : i = 1
  OBVIOUS
<1> QED
  BY <1>1, <1>2 DEF Range

LEMMA ConcatIs ==
  ASSUME NEW S, NEW s \in Seq(S), NEW t \in Seq(S)
  PROVE  /\ s \o t \in Seq(S) /\ Len(s \o t) = Len(s) + Len(t)
         /\ \A i \in 1 .. Len(s) + Len(t) : (s \o t)[i] = IF i <= Len(s) THEN s[i] ELSE t[i - Len(s)]
         /\ \A x : x \in Range(s \o t) <=> x \in Range(s) \/ x \in Range(t)
<1> DEFINE u == s \o t
<1>1. /\ u \in Seq(S) /\ Len(u) = Len(s) + Len(t) /\ Len(s) \in Nat /\ Len(t) \in Nat
      /\ \A i \in 1 .. Len(s) + Len(t) : u[i] = IF i <= Len(s) THEN s[i] ELSE t[i - Len(s)]
  BY SeqIs
<1>2. /\ \A x : x \in Range(u) <=> \E i \in 1 .. Len(u) : u[i] = x
      /\ \A x : x \in Range(s) <=> \E i \in 1 .. Len(s) : s[i] = x
      /\ \A x : x \in Range(t) <=> \E i \in 1 .. Len(t) : t[i] = x
  BY <1>1, SeqIs
<1> HIDE DEF u
<1>3. ASSUME NEW x, x \in Range(u) PROVE x \in Range(s) \/ x \in Range(t)
  <2>1. PICK i \in 1 .. Len(u) : u[i] = x
    BY <1>2, <1>3
  <2>2. CASE i <= Len(s)
    BY <1>1, <1>2, <2>1, <2>2
  <2>3. CASE ~(i <= Len(s))
    <3>1. i - Len(s) \in 1 .. Len(t) /\ t[i - Len(s)] = x
      BY <1>1, <2>1, <2>3
    <3> QED
      BY <1>2, <3>1
  <2> QED
    BY <2>2, <2>3
<1>4. ASSUME NEW x, x \in Range(s) \/ x \in Range(t) PROVE x \in Range(u)
  <2>1. CASE x \in Range(s)
    <3>1. PICK i \in 1 .. Len(s) : s[i] = x
      BY <1>2, <2>1
    <3>2. i \in 1 .. Len(u) /\ u[i] = x
      BY <1>1, <3>1
    <3> QED
      BY <1>2, <3>2
  <2>2. CASE x \in Range(t)
    <3>1. PICK i \in 1 .. Len(t) : t[i] = x
      BY <1>2, <2>2
    <3>2. PICK n : n = Len(s) + i
      OBVIOUS
    <3>3. n \in 1 .. Len(u) /\ ~(n <= Len(s)) /\ n - Len(s) = i
      BY <1>1, <3>1, <3>2
    <3>4. u[n] = x
      BY <1>1, <3>1, <3>3
    <3> QED
      BY <1>2, <3>3, <3>4
  <2> QED
    BY <1>4, <2>1, <2>2
<1>5. /\ u \in Seq(S) /\ Len(u) = Len(s) + Len(t)
      /\ \A i \in 1 .. Len(s) + Len(t) : u[i] = IF i <= Len(s) THEN s[i] ELSE t[i - Len(s)]
      /\ \A x : x \in Range(u) <=> x \in Range(s) \/ x \in Range(t)
  BY <1>1, <1>3, <1>4
<1> QED
  BY <1>5 DEF u

LEMMA SubSeqIs ==
  ASSUME NEW S, NEW s \in Seq(S), NEW m \in Int, NEW n \in Int, 1 <= m, m <= n + 1, n <= Len(s)
  PROVE  /\ SubSeq(s, m, n) \in Seq(S) /\ Len(SubSeq(s, m, n)) = n - m + 1
         /\ \A i \in 1 .. n - m + 1 : SubSeq(s, m, n)[i] = s[m + i - 1]
         /\ \A x : x \in Range(SubSeq(s, m, n)) <=> \E i \in m .. n : s[i] = x
<1> DEFINE u == SubSeq(s, m, n)
<1>1. Len(s) \in Nat /\ \A i \in 1 .. Len(s) : s[i] \in S
  BY SeqIs
<1>2. /\ u \in Seq(S) /\ Len(u) = n - m + 1
      /\ \A i \in 1 .. n - m + 1 : u[i] = s[m + i - 1]
  BY <1>1, SubSeqProperties
<1>3. \A x : x \in Range(u) <=> \E i \in 1 .. Len(u) : u[i] = x
  BY <1>2, SeqIs
<1> HIDE DEF u
<1>4. ASSUME NEW x, x \in Range(u) PROVE \E i \in m .. n : s[i] = x
  <2>1. PICK i \in 1 .. Len(u) : u[i] = x
    BY <1>3, <1>4
  <2>2. m + i - 1 \in m .. n /\ s[m + i - 1] = x
    BY <1>2, <2>1
  <2> QED
    BY <2>2
<1>5. ASSUME NEW i \in m .. n PROVE s[i] \in Range(u)
  <2>1. i - m + 1 \in 1 .. Len(u) /\ u[i - m + 1] = s[i]
    BY <1>2
  <2> QED
    BY <1>3, <2>1
<1>6. /\ u \in Seq(S) /\ Len(u) = n - m + 1
      /\ \A i \in 1 .. n - m + 1 : u[i] = s[m + i - 1]
      /\ \A x : x \in Range(u) <=> \E i \in m .. n : s[i] = x
  BY <1>2, <1>4, <1>5
<1> QED
  BY <1>6 DEF u

\* The pieces that FlattenSeq() puts together, one after the other.
Builds(e, f, n) ==
  /\ e[0] = <<>> /\ FlattenSeq(f) = e[n]
  /\ \A i \in 1 .. n : e[i] = e[i - 1] \o f[i]

LEMMA FlattenIs ==
  ASSUME NEW S, NEW n \in Nat, NEW f \in [1 .. n -> Seq(S)]
  PROVE  \E e : Builds(e, f, n)
<1>1. f \in Seq(Seq(S)) /\ Len(f) = n
  OBVIOUS
<1>2. CASE n = 0
  <2>1. FlattenSeq(f) = <<>>
    <3>1. FlattenSeq(f) = f
      BY <1>1, <1>2 DEF FlattenSeq
    <3> QED
      BY <1>1, <1>2, <3>1, EmptySeq
  <2>2. PICK e : e = [i \in 0 .. 0 |-> <<>>]
    OBVIOUS
  <2>3. e[0] = <<>>
    BY <2>2
  <2>4. Builds(e, f, n)
    BY <1>2, <2>1, <2>3 DEF Builds
  <2> QED
    BY <2>4
<1>3. CASE n # 0
  <2> DEFINE Flat(e, m) == e = [i \in 1 .. m |-> IF i = 1 THEN f[i] ELSE e[i - 1] \o f[i]]
  <2>1. \A m \in 0 .. n : \E e : Flat(e, m)
    <3> DEFINE Bad == {m \in 0 .. n : ~\E e : Flat(e, m)}
    <3>1. SUFFICES ASSUME Bad # {} PROVE FALSE
      OBVIOUS
    <3>2. Bad \in SUBSET Nat
      <4> HIDE DEF Flat
      <4> QED
        OBVIOUS
    <3>3. PICK m \in Bad : \A k \in Bad : m <= k
      <4> HIDE DEF Bad
      <4> QED
        BY <3>1, <3>2, LeastIs
    <3>4. m \in 0 .. n /\ \A e : ~Flat(e, m)
      OBVIOUS
    <3>5. CASE m = 0
      <4> DEFINE g == [i \in 1 .. 0 |-> f[i]]
      <4>1. Flat(g, 0)
        <5>1. \A i \in 1 .. 0 : FALSE
          OBVIOUS
        <5> QED
          BY <5>1
      <4> QED
        BY <3>4, <3>5, <4>1
    <3>6. CASE m # 0
      <4>1. m - 1 \in 0 .. n /\ ~(m <= m - 1) /\ m \in Nat
        BY <3>4, <3>6
      <4>2. PICK e : Flat(e, m - 1)
        BY <3>3, <4>1
      <4> DEFINE g == [i \in 1 .. m |-> IF i < m THEN e[i] ELSE IF m = 1 THEN f[m] ELSE e[m - 1] \o f[m]]
      <4>3. \A i \in 1 .. m - 1 : e[i] = IF i = 1 THEN f[i] ELSE e[i - 1] \o f[i]
        BY <4>2
      <4>4. ASSUME NEW i \in 1 .. m
            PROVE  g[i] = IF i = 1 THEN f[i] ELSE g[i - 1] \o f[i]
        <5>1. CASE i < m
          <6>1. g[i] = e[i] /\ i \in 1 .. m - 1 /\ (i # 1 => g[i - 1] = e[i - 1])
            BY <4>1, <5>1
          <6> QED
            BY <4>3, <6>1
        <5>2. CASE i = m
          <6>1. m # 1 => g[m - 1] = e[m - 1]
            BY <4>1
          <6> QED
            BY <4>1, <5>2, <6>1
        <5> QED
          BY <4>1, <5>1, <5>2
      <4>5. g = [i \in 1 .. m |-> g[i]]
        OBVIOUS
      <4> HIDE DEF g
      <4>6. Flat(g, m)
        BY <4>4, <4>5
      <4> QED
        BY <3>4, <4>6
    <3> QED
      BY <3>5, <3>6
  <2>2. PICK e : e = CHOOSE x : Flat(x, n)
    OBVIOUS
  <2>3. Flat(e, n)
    <3> HIDE DEF Flat
    <3>1. \E x : Flat(x, n)
      BY <2>1
    <3> QED
      BY <2>2, <3>1
  <2>4. FlattenSeq(f) = e[n]
    BY <1>1, <1>3, <2>2 DEF FlattenSeq
  <2>5. \A i \in 1 .. n : e[i] = IF i = 1 THEN f[i] ELSE e[i - 1] \o f[i]
    BY <2>3
  <2> HIDE DEF Flat
  <2>6. PICK g : g = [i \in 0 .. n |-> IF i = 0 THEN <<>> ELSE e[i]]
    OBVIOUS
  <2>7. g[0] = <<>> /\ g[n] = e[n]
    BY <1>3, <2>6
  <2>8. ASSUME NEW i \in 1 .. n PROVE g[i] = g[i - 1] \o f[i]
    <3>1. CASE i = 1
      <4>1. g[1] = f[1] /\ g[0] = <<>> /\ f[1] \in Seq(S)
        BY <2>5, <2>6, <3>1
      <4>2. f[1] = <<>> \o f[1]
        BY <4>1, ConcatEmptySeq
      <4> QED
        BY <3>1, <4>1, <4>2
    <3>2. CASE i # 1
      <4>1. i - 1 \in 0 .. n /\ i - 1 # 0 /\ i # 0
        BY <3>2
      <4>2. g[i] = e[i] /\ g[i - 1] = e[i - 1]
        BY <2>6, <4>1
      <4> QED
        BY <2>5, <3>2, <4>2
    <3> QED
      BY <3>1, <3>2
  <2>9. Builds(g, f, n)
    BY <2>4, <2>7, <2>8 DEF Builds
  <2> QED
    BY <2>9
<1> QED
  BY <1>2, <1>3
-----------------------------------------------------------------------------
(* Ranges.                                                                 *)

\* The last byte of a range, where EOF stands for all bytes beyond MaxByte.
Top(e) == IF e = EOF THEN MaxByte + 1 ELSE e
Ends == 0 .. MaxByte \cup {EOF}

\* What a chain of blocked requests consists of.
Chained == Procs \cup {FREED}
LockRec == [own : Owners, type : {"RD", "WR"}, start : Bytes, end : Ends, blk : SUBSET Chained]
GoodLocks == {l \in LockRec : l.start <= Top(l.end)}
IsCall(a) ==
  /\ a.own \in Owners /\ a.type \in {"RD", "WR", "UN"}
  /\ a.start \in 0 .. MaxByte /\ a.end \in Ends /\ a.start <= Top(a.end)

\* Lock l has bytes of the range of a.
Meets(l, a) == a.start <= Top(l.end) /\ l.start <= Top(a.end)
OwnMeets(l, a) == Own(l, a) /\ Meets(l, a)

\* Lock l but for the requests that wait for it.
SameRange(x, l) == x.own = l.own /\ x.type = l.type /\ x.start = l.start /\ x.end = l.end

\* What is left of l in front of a, and behind it.
FrontOf(x, l, a) ==
  /\ l.start < a.start
  /\ x \in GoodLocks /\ x.own = l.own /\ x.type = l.type /\ x.start = l.start
  /\ x.end # EOF /\ Top(x.end) = a.start - 1 /\ x.blk = l.blk
BackOf(x, l, a) ==
  /\ a.end # EOF /\ Top(a.end) < Top(l.end)
  /\ x \in GoodLocks /\ x.own = l.own /\ x.type = l.type /\ x.end = l.end
  /\ x.start = Top(a.end) + 1 /\ x.blk = {}

LEMMA ByteIs ==
  /\ MaxByte \in Nat /\ EOF \in Int /\ EOF = -1 /\ EOF \notin 0 .. MaxByte
  /\ \A e \in Ends : /\ e \in Int /\ Top(e) \in 0 .. MaxByte + 1 /\ Top(e) \in Int
                     /\ (e # EOF => Top(e) = e /\ e >= 0 /\ e <= MaxByte)
                     /\ (e = EOF => Top(e) = MaxByte + 1)
BY LockfAssumption DEF Ends, Top, EOF

LEMMA LockIs ==
  ASSUME NEW l \in GoodLocks
  PROVE  /\ l \in LockRec /\ l.own \in Owners /\ l.type \in {"RD", "WR"} /\ l.blk \subseteq Chained
         /\ l.start \in Int /\ 0 <= l.start /\ l.start <= MaxByte + 1 /\ l.start \in Bytes
         /\ l.end \in Ends /\ l.end \in Int /\ Top(l.end) \in Int /\ l.start <= Top(l.end) /\ Top(l.end) <= MaxByte + 1
         /\ (l.end # EOF => Top(l.end) = l.end /\ l.end >= 0 /\ l.end <= MaxByte)
         /\ (l.end = EOF => Top(l.end) = MaxByte + 1)
<1>1. l \in LockRec /\ l.start <= Top(l.end)
  BY DEF GoodLocks
<1>2. l.own \in Owners /\ l.type \in {"RD", "WR"} /\ l.blk \subseteq Chained /\ l.start \in Bytes /\ l.end \in Ends
  BY <1>1 DEF LockRec
<1>3. l.start \in Int /\ 0 <= l.start /\ l.start <= MaxByte + 1
  BY <1>2, LockfAssumption DEF Bytes
<1> QED
  BY <1>1, <1>2, <1>3, ByteIs

LEMMA CallIs ==
  ASSUME NEW a, IsCall(a)
  PROVE  /\ a.own \in Owners /\ a.type \in {"RD", "WR", "UN"}
         /\ a.start \in Int /\ 0 <= a.start /\ a.start <= MaxByte
         /\ a.end \in Ends /\ a.end \in Int /\ Top(a.end) \in Int /\ a.start <= Top(a.end) /\ Top(a.end) <= MaxByte + 1
         /\ (a.end # EOF => Top(a.end) = a.end /\ a.end >= 0 /\ a.end <= MaxByte)
         /\ (a.end = EOF => Top(a.end) = MaxByte + 1)
BY ByteIs DEF IsCall

\* The cases of lf_findoverlap() in terms of first and last bytes.
LEMMA OverlapIs ==
  ASSUME NEW l \in GoodLocks, NEW a, IsCall(a)
  PROVE  /\ ovcase(l, a) # 0 <=> Meets(l, a)
         /\ ovcase(l, a) = 1 <=> l.start = a.start /\ Top(l.end) = Top(a.end)
         /\ ovcase(l, a) = 1 => l.end = a.end
         /\ ovcase(l, a) = 2 => l.start <= a.start /\ Top(a.end) <= Top(l.end) /\ a.end # EOF
         /\ ovcase(l, a) = 2 /\ l.end # a.end => Top(a.end) < Top(l.end)
         /\ ovcase(l, a) = 3 => a.start <= l.start /\ Top(l.end) <= Top(a.end)
         /\ ovcase(l, a) \in {0, 1, 2, 3, 4, 5}
<1>1. /\ l.start \in Int /\ 0 <= l.start /\ l.end \in Int /\ l.start <= Top(l.end) /\ Top(l.end) \in Int
      /\ Top(l.end) <= MaxByte + 1 /\ l.start <= MaxByte + 1
      /\ (l.end # EOF => Top(l.end) = l.end /\ l.end <= MaxByte)
      /\ (l.end = EOF => Top(l.end) = MaxByte + 1)
  BY LockIs
<1>2. /\ a.start \in Int /\ 0 <= a.start /\ a.start <= MaxByte /\ a.end \in Int /\ a.start <= Top(a.end)
      /\ Top(a.end) \in Int /\ Top(a.end) <= MaxByte + 1
      /\ (a.end # EOF => Top(a.end) = a.end /\ a.end <= MaxByte)
      /\ (a.end = EOF => Top(a.end) = MaxByte + 1)
  BY CallIs
<1>3. MaxByte \in Nat /\ EOF \in Int
  BY ByteIs
<1> DEFINE c == ovcase(l, a)
<1>4. c # 0 <=> Meets(l, a)
  BY <1>1, <1>2, <1>3 DEF ovcase, Meets
<1>5. c = 1 <=> l.start = a.start /\ Top(l.end) = Top(a.end)
  BY <1>1, <1>2, <1>3 DEF ovcase
<1>6. c = 1 => l.end = a.end
  BY <1>1, <1>2, <1>3 DEF ovcase
<1>7. c = 2 => l.start <= a.start /\ Top(a.end) <= Top(l.end) /\ a.end # EOF
  BY <1>1, <1>2, <1>3 DEF ovcase
<1>8. c = 2 /\ l.end # a.end => Top(a.end) < Top(l.end)
  BY <1>1, <1>2, <1>3 DEF ovcase
<1>9. c = 3 => a.start <= l.start /\ Top(l.end) <= Top(a.end)
  BY <1>1, <1>2, <1>3 DEF ovcase
<1>10. c \in {0, 1, 2, 3, 4, 5}
  BY DEF ovcase
<1> QED
  BY <1>4, <1>5, <1>6, <1>7, <1>8, <1>9, <1>10

\* What is left of a lock that has bytes of the range.
LEMMA BeforeIs ==
  ASSUME NEW l \in GoodLocks, NEW a, IsCall(a), Meets(l, a)
  PROVE  /\ ~(l.start < a.start) => Before(l, a) = <<>>
         /\ l.start < a.start => \E x : FrontOf(x, l, a) /\ Before(l, a) = <<x>>
<1>1. /\ l \in LockRec /\ l.start \in Int /\ 0 <= l.start /\ l.end \in Int /\ l.start <= Top(l.end) /\ Top(l.end) \in Int
      /\ Top(l.end) <= MaxByte + 1 /\ l.start <= MaxByte + 1
      /\ (l.end # EOF => Top(l.end) = l.end /\ l.end <= MaxByte)
      /\ (l.end = EOF => Top(l.end) = MaxByte + 1)
  BY LockIs
<1>2. /\ a.start \in Int /\ 0 <= a.start /\ a.start <= MaxByte /\ a.end \in Int /\ a.start <= Top(a.end)
      /\ Top(a.end) \in Int /\ Top(a.end) <= MaxByte + 1
      /\ (a.end # EOF => Top(a.end) = a.end /\ a.end <= MaxByte)
      /\ (a.end = EOF => Top(a.end) = MaxByte + 1)
  BY CallIs
<1>3. MaxByte \in Nat /\ EOF \in Int /\ EOF = -1
  BY ByteIs
<1>4. ovcase(l, a) = 4 \/ (ovcase(l, a) = 2 /\ l.start # a.start) <=> l.start < a.start
  BY <1>1, <1>2, <1>3 DEF ovcase, Meets
<1>5. CASE ~(l.start < a.start)
  BY <1>4, <1>5 DEF Before
<1>6. CASE l.start < a.start
  <2>1. PICK x : x = [l EXCEPT !.end = a.start - 1]
    OBVIOUS
  <2>2. Before(l, a) = <<x>>
    BY <1>4, <1>6, <2>1 DEF Before
  <2>3. a.start - 1 \in Ends /\ a.start - 1 # EOF /\ Top(a.start - 1) = a.start - 1
    BY <1>1, <1>2, <1>3, <1>6 DEF Ends, Top
  <2>4. /\ x \in LockRec /\ x.own = l.own /\ x.type = l.type /\ x.start = l.start
        /\ x.end = a.start - 1 /\ x.blk = l.blk
    BY <1>1, <2>1, <2>3 DEF LockRec
  <2>5. x \in GoodLocks
    BY <1>1, <1>2, <1>6, <2>3, <2>4 DEF GoodLocks
  <2>6. FrontOf(x, l, a)
    BY <1>6, <2>3, <2>4, <2>5 DEF FrontOf
  <2> QED
    BY <1>6, <2>2, <2>6
<1> QED
  BY <1>5, <1>6

LEMMA AfterIs ==
  ASSUME NEW l \in GoodLocks, NEW a, IsCall(a), Meets(l, a)
  PROVE  /\ ~(a.end # EOF /\ Top(a.end) < Top(l.end)) => After(l, a) = <<>>
         /\ a.end # EOF /\ Top(a.end) < Top(l.end) => \E x : BackOf(x, l, a) /\ After(l, a) = <<x>>
<1>1. /\ l \in LockRec /\ l.start \in Int /\ 0 <= l.start /\ l.end \in Int /\ l.start <= Top(l.end) /\ Top(l.end) \in Int
      /\ Top(l.end) <= MaxByte + 1 /\ l.start <= MaxByte + 1
      /\ (l.end # EOF => Top(l.end) = l.end /\ l.end <= MaxByte)
      /\ (l.end = EOF => Top(l.end) = MaxByte + 1)
  BY LockIs
<1>2. /\ a.start \in Int /\ 0 <= a.start /\ a.start <= MaxByte /\ a.end \in Int /\ a.start <= Top(a.end)
      /\ Top(a.end) \in Int /\ Top(a.end) <= MaxByte + 1
      /\ (a.end # EOF => Top(a.end) = a.end /\ a.end <= MaxByte)
      /\ (a.end = EOF => Top(a.end) = MaxByte + 1)
  BY CallIs
<1>3. MaxByte \in Nat /\ EOF \in Int /\ EOF = -1
  BY ByteIs
<1>4. ovcase(l, a) = 5 \/ (ovcase(l, a) = 2 /\ l.end # a.end) <=> a.end # EOF /\ Top(a.end) < Top(l.end)
  BY <1>1, <1>2, <1>3 DEF ovcase, Meets
<1>5. CASE ~(a.end # EOF /\ Top(a.end) < Top(l.end))
  BY <1>4, <1>5 DEF After
<1>6. CASE a.end # EOF /\ Top(a.end) < Top(l.end)
  <2>1. PICK x : x = [l EXCEPT !.start = a.end + 1, !.blk = {}]
    OBVIOUS
  <2>2. After(l, a) = <<x>>
    BY <1>4, <1>6, <2>1 DEF After
  <2>3. a.end + 1 \in Bytes /\ a.end + 1 = Top(a.end) + 1
    BY <1>1, <1>2, <1>3, <1>6 DEF Bytes
  <2>4. /\ x \in LockRec /\ x.own = l.own /\ x.type = l.type /\ x.start = Top(a.end) + 1
        /\ x.end = l.end /\ x.blk = {}
    BY <1>1, <2>1, <2>3 DEF LockRec
  <2>5. x \in GoodLocks
    BY <1>1, <1>2, <1>6, <2>3, <2>4 DEF GoodLocks
  <2>6. BackOf(x, l, a)
    BY <1>6, <2>3, <2>4, <2>5 DEF BackOf
  <2> QED
    BY <1>6, <2>2, <2>6
<1> QED
  BY <1>5, <1>6

-----------------------------------------------------------------------------
(* Chains: lists on which the locks of an owner are in order and do not    *)
(* overlap.  No process waits on two blocked lists.                        *)

Ahead(l, m) ==
  /\ l.own = m.own => Top(l.end) < m.start
  /\ (l.blk \cap m.blk) \cap Procs = {}
Chain(s) == s \in Seq(GoodLocks) /\ \A i, j \in 1 .. Len(s) : i < j => Ahead(s[i], s[j])
AllAhead(s, t) == \A x \in Range(s) : \A y \in Range(t) : Ahead(x, y)

Within(x, l) ==
  x.own = l.own /\ l.start <= x.start /\ Top(x.end) <= Top(l.end) /\ x.blk \cap Procs \subseteq l.blk

LEMMA WithinAhead ==
  ASSUME NEW l \in GoodLocks, NEW m \in GoodLocks, NEW x \in GoodLocks, NEW y \in GoodLocks,
         Within(x, l), Within(y, m), Ahead(l, m)
  PROVE  Ahead(x, y)
<1>1. Top(x.end) \in Int /\ Top(l.end) \in Int /\ m.start \in Int /\ y.start \in Int
  BY LockIs
<1> QED
  BY <1>1 DEF Within, Ahead

LEMMA NoChain == Chain(<<>>) /\ Range(<<>>) = {} /\ Len(<<>>) = 0
<1>1. <<>> \in Seq(GoodLocks) /\ Len(<<>>) = 0 /\ Range(<<>>) = {}
  BY NoSeq
<1>2. \A i \in 1 .. 0 : FALSE
  OBVIOUS
<1> QED
  BY <1>1, <1>2 DEF Chain

LEMMA OneChain ==
  ASSUME NEW x \in GoodLocks
  PROVE  Chain(<<x>>) /\ Range(<<x>>) = {x}
<1>1. <<x>> \in Seq(GoodLocks) /\ Len(<<x>>) = 1 /\ Range(<<x>>) = {x}
  BY OneSeq
<1>2. \A i, j \in 1 .. 1 : ~(i < j)
  OBVIOUS
<1> QED
  BY <1>1, <1>2 DEF Chain

LEMMA ChainConcat ==
  ASSUME NEW s, NEW t, Chain(s), Chain(t), AllAhead(s, t)
  PROVE  Chain(s \o t) /\ \A x : x \in Range(s \o t) <=> x \in Range(s) \/ x \in Range(t)
<1>1. /\ s \in Seq(GoodLocks) /\ t \in Seq(GoodLocks) /\ Len(s) \in Nat /\ Len(t) \in Nat
      /\ \A i \in 1 .. Len(s) : s[i] \in Range(s)
      /\ \A i \in 1 .. Len(t) : t[i] \in Range(t)
  BY SeqIs DEF Chain
<1>2. PICK u : u = s \o t
  OBVIOUS
<1>3. /\ u \in Seq(GoodLocks) /\ Len(u) = Len(s) + Len(t)
      /\ \A i \in 1 .. Len(s) + Len(t) : u[i] = IF i <= Len(s) THEN s[i] ELSE t[i - Len(s)]
      /\ \A x : x \in Range(u) <=> x \in Range(s) \/ x \in Range(t)
  BY <1>1, <1>2, ConcatIs
<1>4. ASSUME NEW i \in 1 .. Len(u), NEW j \in 1 .. Len(u), i < j PROVE Ahead(u[i], u[j])
  <2>1. CASE j <= Len(s)
    <3>1. i \in 1 .. Len(s) /\ j \in 1 .. Len(s) /\ u[i] = s[i] /\ u[j] = s[j]
      BY <1>1, <1>3, <1>4, <2>1
    <3> QED
      BY <1>4, <3>1 DEF Chain
  <2>2. CASE i <= Len(s) /\ ~(j <= Len(s))
    <3>1. i \in 1 .. Len(s) /\ j - Len(s) \in 1 .. Len(t) /\ u[i] = s[i] /\ u[j] = t[j - Len(s)]
      BY <1>1, <1>3, <2>2
    <3> QED
      BY <1>1, <3>1 DEF AllAhead
  <2>3. CASE ~(i <= Len(s))
    <3>1. PICK m, n : m = i - Len(s) /\ n = j - Len(s)
      OBVIOUS
    <3>2. m \in 1 .. Len(t) /\ n \in 1 .. Len(t) /\ m < n /\ ~(j <= Len(s))
      BY <1>1, <1>3, <1>4, <2>3, <3>1
    <3>3. u[i] = t[m] /\ u[j] = t[n]
      BY <1>3, <2>3, <3>1, <3>2
    <3> QED
      BY <3>2, <3>3 DEF Chain
  <2>4. j <= Len(s) \/ (i <= Len(s) /\ ~(j <= Len(s))) \/ ~(i <= Len(s))
    OBVIOUS
  <2> QED
    BY <2>1, <2>2, <2>3, <2>4
<1> QED
  BY <1>2, <1>3, <1>4 DEF Chain

LEMMA ChainPart ==
  ASSUME NEW s, Chain(s), NEW m \in Int, NEW n \in Int, 1 <= m, m <= n + 1, n <= Len(s)
  PROVE  Chain(SubSeq(s, m, n)) /\ \A x : x \in Range(SubSeq(s, m, n)) <=> \E i \in m .. n : s[i] = x
<1>1. s \in Seq(GoodLocks) /\ Len(s) \in Nat
  BY SeqIs DEF Chain
<1>2. PICK u : u = SubSeq(s, m, n)
  OBVIOUS
<1>3. /\ u \in Seq(GoodLocks) /\ Len(u) = n - m + 1
      /\ \A i \in 1 .. n - m + 1 : u[i] = s[m + i - 1]
      /\ \A x : x \in Range(u) <=> \E i \in m .. n : s[i] = x
  BY <1>1, <1>2, SubSeqIs
<1>4. ASSUME NEW i \in 1 .. Len(u), NEW j \in 1 .. Len(u), i < j PROVE Ahead(u[i], u[j])
  <2>1. PICK a, b : a = m + i - 1 /\ b = m + j - 1
    OBVIOUS
  <2>2. a \in 1 .. Len(s) /\ b \in 1 .. Len(s) /\ a < b
    BY <1>1, <1>3, <1>4, <2>1
  <2>3. u[i] = s[a] /\ u[j] = s[b]
    BY <1>3, <2>1
  <2> QED
    BY <2>2, <2>3 DEF Chain
<1> QED
  BY <1>2, <1>3, <1>4 DEF Chain

\* A list with as many locks, none of which got larger.
Shrunk(t, s) ==
  /\ t \in Seq(GoodLocks) /\ Len(t) = Len(s)
  /\ \A i \in 1 .. Len(s) : Within(t[i], s[i])

LEMMA ShrunkChain ==
  ASSUME NEW s, Chain(s), NEW t, Shrunk(t, s)
  PROVE  Chain(t)
<1>1. s \in Seq(GoodLocks) /\ Len(s) \in Nat /\ \A i \in 1 .. Len(s) : s[i] \in GoodLocks
  BY SeqIs DEF Chain
<1>2. t \in Seq(GoodLocks) /\ Len(t) = Len(s) /\ \A i \in 1 .. Len(s) : t[i] \in GoodLocks /\ Within(t[i], s[i])
  BY SeqIs DEF Shrunk
<1>3. \A i, j \in 1 .. Len(s) : i < j => Ahead(s[i], s[j])
  BY DEF Chain
<1>4. \A i, j \in 1 .. Len(s) : i < j => Ahead(t[i], t[j])
  BY <1>1, <1>2, <1>3, WithinAhead
<1> QED
  BY <1>2, <1>4 DEF Chain

-----------------------------------------------------------------------------
(* Trimming.                                                               *)

\* x is what is left of l; and all that is left of l is among R.
PieceOf(x, l, a) == IF OwnMeets(l, a) THEN FrontOf(x, l, a) \/ BackOf(x, l, a) ELSE x = l
HasPieces(R, l, a) ==
  /\ ~OwnMeets(l, a) => l \in R
  /\ OwnMeets(l, a) /\ l.start < a.start => \E x \in R : FrontOf(x, l, a)
  /\ OwnMeets(l, a) /\ a.end # EOF /\ Top(a.end) < Top(l.end) => \E x \in R : BackOf(x, l, a)

LEMMA PieceWithin ==
  ASSUME NEW l \in GoodLocks, NEW a, IsCall(a), NEW x, PieceOf(x, l, a)
  PROVE  x \in GoodLocks /\ Within(x, l)
<1>1. l.start \in Int /\ Top(l.end) \in Int
  BY LockIs
<1>2. a.start \in Int /\ Top(a.end) \in Int /\ a.start <= Top(a.end)
  BY CallIs
<1>3. CASE OwnMeets(l, a) /\ FrontOf(x, l, a)
  <2>1. x \in GoodLocks /\ x.own = l.own /\ x.start = l.start /\ Top(x.end) = a.start - 1 /\ x.blk = l.blk
    BY <1>3 DEF FrontOf
  <2>2. a.start <= Top(l.end)
    BY <1>3 DEF OwnMeets, Meets
  <2> QED
    BY <1>1, <1>2, <2>1, <2>2 DEF Within
<1>4. CASE OwnMeets(l, a) /\ BackOf(x, l, a)
  <2>1. x \in GoodLocks /\ x.own = l.own /\ x.end = l.end /\ x.start = Top(a.end) + 1 /\ x.blk = {}
    BY <1>4 DEF BackOf
  <2>2. l.start <= Top(a.end)
    BY <1>4 DEF OwnMeets, Meets
  <2> QED
    BY <1>1, <1>2, <2>1, <2>2 DEF Within
<1>5. CASE ~OwnMeets(l, a)
  BY <1>1, <1>5 DEF PieceOf, Within
<1> QED
  BY <1>3, <1>4, <1>5 DEF PieceOf

\* The pieces of a lock that has bytes of the range.
LEMMA FrontIs ==
  ASSUME NEW l \in GoodLocks, NEW a, IsCall(a), OwnMeets(l, a)
  PROVE  /\ Chain(Before(l, a)) /\ \A x \in Range(Before(l, a)) : FrontOf(x, l, a)
         /\ l.start < a.start => \E x \in Range(Before(l, a)) : FrontOf(x, l, a)
<1>1. Meets(l, a)
  BY DEF OwnMeets
<1>2. CASE ~(l.start < a.start)
  <2>1. Before(l, a) = <<>>
    BY <1>1, <1>2, BeforeIs
  <2> QED
    BY <1>2, <2>1, NoChain
<1>3. CASE l.start < a.start
  <2>1. PICK x : FrontOf(x, l, a) /\ Before(l, a) = <<x>>
    BY <1>1, <1>3, BeforeIs
  <2>2. x \in GoodLocks
    BY <2>1 DEF FrontOf
  <2>3. Chain(<<x>>) /\ Range(<<x>>) = {x}
    BY <2>2, OneChain
  <2> QED
    BY <2>1, <2>3
<1> QED
  BY <1>2, <1>3

LEMMA BackIs ==
  ASSUME NEW l \in GoodLocks, NEW a, IsCall(a), OwnMeets(l, a)
  PROVE  /\ Chain(After(l, a)) /\ \A x \in Range(After(l, a)) : BackOf(x, l, a)
         /\ a.end # EOF /\ Top(a.end) < Top(l.end) => \E x \in Range(After(l, a)) : BackOf(x, l, a)
<1>1. Meets(l, a)
  BY DEF OwnMeets
<1>2. CASE ~(a.end # EOF /\ Top(a.end) < Top(l.end))
  <2>1. After(l, a) = <<>>
    BY <1>1, <1>2, AfterIs
  <2> QED
    BY <1>2, <2>1, NoChain
<1>3. CASE a.end # EOF /\ Top(a.end) < Top(l.end)
  <2>1. PICK x : BackOf(x, l, a) /\ After(l, a) = <<x>>
    BY <1>1, <1>3, AfterIs
  <2>2. x \in GoodLocks
    BY <2>1 DEF BackOf
  <2>3. Chain(<<x>>) /\ Range(<<x>>) = {x}
    BY <2>2, OneChain
  <2> QED
    BY <2>1, <2>3
<1> QED
  BY <1>2, <1>3

LEMMA FrontBeforeBack ==
  ASSUME NEW l \in GoodLocks, NEW a, IsCall(a), NEW x, NEW y, FrontOf(x, l, a), BackOf(y, l, a)
  PROVE  Ahead(x, y)
<1>1. a.start \in Int /\ Top(a.end) \in Int /\ a.start <= Top(a.end)
  BY CallIs
<1>2. Top(x.end) = a.start - 1 /\ y.start = Top(a.end) + 1 /\ y.blk = {}
  BY DEF FrontOf, BackOf
<1>3. Top(x.end) < y.start
  BY <1>1, <1>2
<1> QED
  BY <1>2, <1>3 DEF Ahead

LEMMA PiecesOfOne ==
  ASSUME NEW l \in GoodLocks, NEW a, IsCall(a), NEW q,
         q = IF Own(l, a) /\ ovcase(l, a) # 0 THEN Before(l, a) \o After(l, a) ELSE <<l>>
  PROVE  Chain(q) /\ (\A x \in Range(q) : PieceOf(x, l, a)) /\ HasPieces(Range(q), l, a)
<1>1. Own(l, a) /\ ovcase(l, a) # 0 <=> OwnMeets(l, a)
  BY OverlapIs DEF OwnMeets
<1>2. CASE ~OwnMeets(l, a)
  <2>1. q = <<l>>
    BY <1>1, <1>2
  <2>2. Chain(q) /\ Range(q) = {l}
    BY <2>1, OneChain
  <2> QED
    BY <1>2, <2>2 DEF PieceOf, HasPieces
<1>3. CASE OwnMeets(l, a)
  <2>1. PICK b, c : b = Before(l, a) /\ c = After(l, a)
    OBVIOUS
  <2>2. q = b \o c
    BY <1>1, <1>3, <2>1
  <2>3. /\ Chain(b) /\ \A x \in Range(b) : FrontOf(x, l, a)
        /\ l.start < a.start => \E x \in Range(b) : FrontOf(x, l, a)
    BY <1>3, <2>1, FrontIs
  <2>4. /\ Chain(c) /\ \A x \in Range(c) : BackOf(x, l, a)
        /\ a.end # EOF /\ Top(a.end) < Top(l.end) => \E x \in Range(c) : BackOf(x, l, a)
    BY <1>3, <2>1, BackIs
  <2>5. AllAhead(b, c)
    BY <2>3, <2>4, FrontBeforeBack DEF AllAhead
  <2>6. Chain(q) /\ \A x : x \in Range(q) <=> x \in Range(b) \/ x \in Range(c)
    BY <2>2, <2>3, <2>4, <2>5, ChainConcat
  <2>7. \A x \in Range(q) : PieceOf(x, l, a)
    BY <1>3, <2>3, <2>4, <2>6 DEF PieceOf
  <2>8. HasPieces(Range(q), l, a)
    BY <1>3, <2>3, <2>4, <2>6 DEF HasPieces
  <2> QED
    BY <2>6, <2>7, <2>8
<1> QED
  BY <1>2, <1>3

LEMMA MorePieces ==
  ASSUME NEW R, NEW Q, R \subseteq Q, NEW l, NEW a, HasPieces(R, l, a)
  PROVE  HasPieces(Q, l, a)
BY DEF HasPieces

\* t is what is left of s.
IsTrimmed(t, s, a) ==
  /\ Chain(t)
  /\ \A x \in Range(t) : \E l \in Range(s) : PieceOf(x, l, a)
  /\ \A l \in Range(s) : HasPieces(Range(t), l, a)

LEMMA TrimmedIs ==
  ASSUME NEW s, Chain(s), NEW a, IsCall(a)
  PROVE  IsTrimmed(Trimmed(s, a), s, a)
<1> DEFINE Q(l) == IF Own(l, a) /\ ovcase(l, a) # 0 THEN Before(l, a) \o After(l, a) ELSE <<l>>
           f == [i \in DOMAIN s |-> Q(s[i])]
           n == Len(s)
           First(i) == {s[j] : j \in 1 .. i}
           Done(e, i) == /\ Chain(e)
                         /\ \A x \in Range(e) : \E j \in 1 .. i : PieceOf(x, s[j], a)
                         /\ \A j \in 1 .. i : HasPieces(Range(e), s[j], a)
<1>1. /\ s \in Seq(GoodLocks) /\ n \in Nat /\ DOMAIN s = 1 .. n /\ \A i \in 1 .. n : s[i] \in GoodLocks
      /\ \A x : x \in Range(s) <=> \E i \in 1 .. n : s[i] = x
  BY SeqIs DEF Chain
<1>2. ASSUME NEW i \in 1 .. n
      PROVE  Chain(f[i]) /\ (\A x \in Range(f[i]) : PieceOf(x, s[i], a)) /\ HasPieces(Range(f[i]), s[i], a)
  <2>1. f[i] = IF Own(s[i], a) /\ ovcase(s[i], a) # 0 THEN Before(s[i], a) \o After(s[i], a) ELSE <<s[i]>>
    BY <1>1
  <2>2. PICK q : q = f[i]
    OBVIOUS
  <2>3. PICK l : l = s[i] /\ l \in GoodLocks
    BY <1>1
  <2> HIDE DEF f
  <2>4. Chain(q) /\ (\A x \in Range(q) : PieceOf(x, l, a)) /\ HasPieces(Range(q), l, a)
    BY <2>1, <2>2, <2>3, PiecesOfOne
  <2> QED
    BY <2>2, <2>3, <2>4
<1>3. Trimmed(s, a) = FlattenSeq(f)
  BY DEF Trimmed
<1>4. DOMAIN f = 1 .. n /\ f = [i \in 1 .. n |-> f[i]]
  BY <1>1
<1> HIDE DEF f
<1>5. f \in [1 .. n -> Seq(GoodLocks)]
  <2>1. \A i \in 1 .. n : f[i] \in Seq(GoodLocks)
    BY <1>2 DEF Chain
  <2> QED
    BY <1>4, <2>1
<1>6. PICK e : /\ e[0] = <<>> /\ FlattenSeq(f) = e[n]
               /\ \A i \in 1 .. n : e[i] = e[i - 1] \o f[i]
  <2>1. PICK m : m = n
    OBVIOUS
  <2>2. m \in Nat /\ f \in [1 .. m -> Seq(GoodLocks)]
    BY <1>1, <1>5, <2>1
  <2>3. PICK e : Builds(e, f, m)
    BY <2>2, FlattenIs
  <2> QED
    BY <2>1, <2>3 DEF Builds
<1>7. \A i \in 0 .. n : Done(e[i], i)
  <2> DEFINE Bad == {i \in 0 .. n : ~Done(e[i], i)}
  <2>1. SUFFICES ASSUME Bad # {} PROVE FALSE
    OBVIOUS
  <2>2. Bad \in SUBSET Nat
    BY <1>1
  <2>3. PICK m \in Bad : \A k \in Bad : m <= k
    <3> HIDE DEF Bad
    <3> QED
      BY <2>1, <2>2, LeastIs
  <2>4. m \in 0 .. n /\ ~Done(e[m], m)
    OBVIOUS
  <2>5. CASE m = 0
    <3>1. \A j \in 1 .. 0 : FALSE
      OBVIOUS
    <3>2. Done(e[0], 0)
      BY <1>6, <3>1, NoChain
    <3> QED
      BY <2>4, <2>5, <3>2
  <2>6. CASE m # 0
    <3>1. m - 1 \in 0 .. n /\ ~(m <= m - 1) /\ m \in 1 .. n
      BY <1>1, <2>4, <2>6
    <3>2. PICK d, g : d = e[m - 1] /\ g = f[m]
      OBVIOUS
    <3>3. Done(d, m - 1)
      BY <2>3, <3>1, <3>2
    <3>4. Chain(g) /\ (\A x \in Range(g) : PieceOf(x, s[m], a)) /\ HasPieces(Range(g), s[m], a)
      BY <1>2, <3>1, <3>2
    <3>5. AllAhead(d, g)
      <4>1. ASSUME NEW x \in Range(d), NEW y \in Range(g) PROVE Ahead(x, y)
        <5>1. PICK j \in 1 .. m - 1 : PieceOf(x, s[j], a)
          BY <3>3
        <5>2. PieceOf(y, s[m], a)
          BY <3>4
        <5>3. j \in 1 .. n /\ j < m /\ s[j] \in GoodLocks /\ s[m] \in GoodLocks
          BY <1>1, <3>1
        <5>4. Ahead(s[j], s[m])
          BY <3>1, <5>3 DEF Chain
        <5>5. x \in GoodLocks /\ Within(x, s[j]) /\ y \in GoodLocks /\ Within(y, s[m])
          BY <5>1, <5>2, <5>3, PieceWithin
        <5> QED
          BY <5>3, <5>4, <5>5, WithinAhead
      <4> QED
        BY <4>1 DEF AllAhead
    <3>6. PICK h : h = e[m]
      OBVIOUS
    <3>7. h = d \o g
      BY <1>6, <3>1, <3>2, <3>6
    <3>8. Chain(h) /\ \A x : x \in Range(h) <=> x \in Range(d) \/ x \in Range(g)
      BY <3>3, <3>4, <3>5, <3>7, ChainConcat
    <3>9. \A j \in 1 .. m : j \in 1 .. m - 1 \/ j = m
      BY <3>1
    <3>10. ASSUME NEW j \in 1 .. m PROVE HasPieces(Range(h), s[j], a)
      <4>1. CASE j = m
        BY <3>4, <3>8, <4>1, MorePieces
      <4>2. CASE j \in 1 .. m - 1
        BY <3>3, <3>8, <4>2, MorePieces
      <4> QED
        BY <3>9, <4>1, <4>2
    <3>11. ASSUME NEW x \in Range(h) PROVE \E j \in 1 .. m : PieceOf(x, s[j], a)
      <4>1. CASE x \in Range(d)
        <5>1. PICK j \in 1 .. m - 1 : PieceOf(x, s[j], a)
          BY <3>3, <4>1
        <5>2. j \in 1 .. m
          BY <3>1
        <5> QED
          BY <5>1, <5>2
      <4>2. CASE x \in Range(g)
        <5>1. m \in 1 .. m
          BY <3>1
        <5> QED
          BY <3>4, <4>2, <5>1
      <4> QED
        BY <3>8, <4>1, <4>2
    <3>12. Done(h, m)
      BY <3>8, <3>10, <3>11
    <3> QED
      BY <2>4, <3>6, <3>12
  <2> QED
    BY <2>5, <2>6
<1>8. Done(e[n], n)
  <2>1. n \in 0 .. n
    BY <1>1
  <2> HIDE DEF Done, n
  <2> QED
    BY <1>7, <2>1
<1>9. PICK t : t = Trimmed(s, a)
  OBVIOUS
<1>10. t = e[n]
  BY <1>3, <1>6, <1>9
<1>11. Chain(t)
  BY <1>8, <1>10
<1>12. ASSUME NEW x \in Range(t) PROVE \E l \in Range(s) : PieceOf(x, l, a)
  <2>1. PICK j \in 1 .. n : PieceOf(x, s[j], a)
    BY <1>8, <1>10
  <2> QED
    BY <1>1, <2>1
<1>13. ASSUME NEW l \in Range(s) PROVE HasPieces(Range(t), l, a)
  <2>1. PICK j \in 1 .. n : s[j] = l
    BY <1>1
  <2> QED
    BY <1>8, <1>10, <2>1
<1> QED
  BY <1>9, <1>11, <1>12, <1>13 DEF IsTrimmed

-----------------------------------------------------------------------------
(* Adding a lock.                                                          *)

\* The list without the requests that wait for the owner's locks in the range.
Rest(a) == Unblocked(i_lockf, SelfOverlaps(a))
NewOf(a) == NewLock(a, BlockedOn(TakenOver(a)))

\* t is what is left of s, and a new lock.
IsParted(t, s, a, new) ==
  /\ Chain(t) /\ new \in Range(t)
  /\ \A x \in Range(t) : x = new \/ \E l \in Range(s) : PieceOf(x, l, a)
  /\ \A l \in Range(s) : HasPieces(Range(t), l, a)

LEMMA ListIs ==
  ASSUME NEW s, Chain(s)
  PROVE  /\ s \in Seq(GoodLocks) /\ Len(s) \in Nat /\ DOMAIN s = 1 .. Len(s)
         /\ \A i \in 1 .. Len(s) : s[i] \in GoodLocks /\ s[i] \in Range(s)
         /\ \A x : x \in Range(s) <=> \E i \in 1 .. Len(s) : s[i] = x
         /\ \A x \in Range(s) : x \in GoodLocks
         /\ \A i, j \in 1 .. Len(s) : i < j => Ahead(s[i], s[j])
BY SeqIs DEF Chain

LEMMA OverlapsAre ==
  ASSUME Chain(i_lockf), NEW a, IsCall(a)
  PROVE  /\ \A i : i \in SelfOverlaps(a) <=> i \in 1 .. Len(i_lockf) /\ OwnMeets(i_lockf[i], a)
         /\ SelfOverlaps(a) \in SUBSET Nat
<1>1. Len(i_lockf) \in Nat /\ DOMAIN i_lockf = 1 .. Len(i_lockf) /\ \A i \in 1 .. Len(i_lockf) : i_lockf[i] \in GoodLocks
  BY ListIs
<1>2. \A i \in 1 .. Len(i_lockf) : ovcase(i_lockf[i], a) # 0 <=> Meets(i_lockf[i], a)
  BY <1>1, OverlapIs
<1> QED
  BY <1>1, <1>2 DEF SelfOverlaps, OwnMeets

\* Two locks of the owner in order.
LEMMA InOrder ==
  ASSUME NEW s, Chain(s), NEW i \in 1 .. Len(s), NEW j \in 1 .. Len(s), NEW a,
         Own(s[i], a), Own(s[j], a)
  PROVE  i < j => Top(s[i].end) < s[j].start
<1>1. i < j => Ahead(s[i], s[j])
  BY ListIs
<1> QED
  BY <1>1 DEF Ahead, Own

\* A lock of the owner that contains the range is the only one that has bytes of it.
LEMMA OnlyOne ==
  ASSUME Chain(i_lockf), NEW a, IsCall(a), NEW k \in SelfOverlaps(a),
         i_lockf[k].start <= a.start, Top(a.end) <= Top(i_lockf[k].end)
  PROVE  SelfOverlaps(a) = {k}
<1>1. k \in 1 .. Len(i_lockf) /\ OwnMeets(i_lockf[k], a) /\ Len(i_lockf) \in Nat
  BY OverlapsAre, ListIs
<1>2. ASSUME NEW i \in SelfOverlaps(a), i # k PROVE FALSE
  <2>1. i \in 1 .. Len(i_lockf) /\ OwnMeets(i_lockf[i], a)
    BY OverlapsAre
  <2>2. /\ i < k => Top(i_lockf[i].end) < i_lockf[k].start
        /\ k < i => Top(i_lockf[k].end) < i_lockf[i].start
    BY <1>1, <2>1, InOrder DEF OwnMeets
  <2>3. /\ i_lockf[i].start \in Int /\ Top(i_lockf[i].end) \in Int /\ i_lockf[k].start \in Int /\ Top(i_lockf[k].end) \in Int
    BY <1>1, <2>1, LockIs, ListIs
  <2>4. a.start \in Int /\ Top(a.end) \in Int
    BY CallIs
  <2>5. a.start <= Top(i_lockf[i].end) /\ i_lockf[i].start <= Top(a.end)
    BY <2>1 DEF OwnMeets, Meets
  <2>6. i < k \/ k < i
    BY <1>1, <1>2, <2>1
  <2> QED
    BY <2>2, <2>3, <2>4, <2>5, <2>6
<1> QED
  BY <1>2

LEMMA NewIsLock ==
  ASSUME NEW a, IsCall(a), a.type # "UN", NEW b \in SUBSET Chained
  PROVE  /\ NewLock(a, b) \in GoodLocks /\ NewLock(a, b).own = a.own /\ NewLock(a, b).type = a.type
         /\ NewLock(a, b).start = a.start /\ NewLock(a, b).end = a.end /\ NewLock(a, b).blk = b
<1>1. PICK x : x = NewLock(a, b)
  OBVIOUS
<1>2. x.own = a.own /\ x.type = a.type /\ x.start = a.start /\ x.end = a.end /\ x.blk = b
  BY <1>1 DEF NewLock
<1>3. a.start \in Bytes
  BY CallIs, ByteIs DEF Bytes
<1>4. x \in LockRec
  BY <1>1, <1>3, CallIs DEF NewLock, LockRec
<1>5. x \in GoodLocks
  BY <1>2, <1>4, CallIs DEF GoodLocks
<1> QED
  BY <1>1, <1>2, <1>5

\* The list without the requests that wait for the locks in o.
LEMMA UnblockedIs ==
  ASSUME NEW s, Chain(s), NEW o
  PROVE  /\ Chain(Unblocked(s, o)) /\ Len(Unblocked(s, o)) = Len(s)
         /\ \A i \in 1 .. Len(s) :
              /\ SameRange(Unblocked(s, o)[i], s[i])
              /\ i \in o => Unblocked(s, o)[i].blk = {}
              /\ i \notin o => Unblocked(s, o)[i] = s[i]
<1>1. s \in Seq(GoodLocks) /\ Len(s) \in Nat /\ DOMAIN s = 1 .. Len(s) /\ \A i \in 1 .. Len(s) : s[i] \in GoodLocks
  BY ListIs
<1>2. PICK t : t = Unblocked(s, o)
  OBVIOUS
<1>3. t = [i \in 1 .. Len(s) |-> IF i \in o THEN [s[i] EXCEPT !.blk = {}] ELSE s[i]]
  BY <1>1, <1>2 DEF Unblocked
<1>4. ASSUME NEW i \in 1 .. Len(s)
      PROVE  /\ t[i] \in GoodLocks /\ SameRange(t[i], s[i]) /\ t[i].blk \subseteq s[i].blk
             /\ i \in o => t[i].blk = {}
             /\ i \notin o => t[i] = s[i]
  <2>1. CASE i \in o
    <3>1. PICK l : l = s[i] /\ l \in LockRec /\ l.start <= Top(l.end)
      BY <1>1 DEF GoodLocks
    <3>2. PICK x : x = [l EXCEPT !.blk = {}]
      OBVIOUS
    <3>3. x \in LockRec /\ SameRange(x, l) /\ x.blk = {}
      BY <3>1, <3>2 DEF LockRec, SameRange
    <3>4. x \in GoodLocks
      BY <3>1, <3>3 DEF GoodLocks, SameRange
    <3>5. t[i] = x
      BY <1>3, <2>1, <3>1, <3>2
    <3> QED
      BY <2>1, <3>1, <3>3, <3>4, <3>5
  <2>2. CASE i \notin o
    BY <1>1, <1>3, <2>2 DEF SameRange
  <2> QED
    BY <2>1, <2>2
<1>5. t \in Seq(GoodLocks) /\ Len(t) = Len(s)
  <2>1. t \in [1 .. Len(s) -> GoodLocks]
    BY <1>3, <1>4
  <2> QED
    BY <1>1, <2>1, IsSeq
<1>6. \A i \in 1 .. Len(s) : Within(t[i], s[i])
  <2>1. ASSUME NEW i \in 1 .. Len(s) PROVE Within(t[i], s[i])
    <3>1. s[i].start \in Int /\ Top(s[i].end) \in Int
      BY <1>1, LockIs
    <3> QED
      BY <1>4, <3>1 DEF Within, SameRange
  <2> QED
    BY <2>1
<1>7. Chain(t)
  BY <1>5, <1>6, ShrunkChain DEF Shrunk
<1> QED
  BY <1>2, <1>4, <1>5, <1>7

\* Who waits behind locks at different places.
LEMMA BlkApart ==
  ASSUME NEW s, Chain(s), NEW i \in 1 .. Len(s), NEW j \in 1 .. Len(s), i # j
  PROVE  (s[i].blk \cap s[j].blk) \cap Procs = {}
<1>1. Len(s) \in Nat /\ (i < j => Ahead(s[i], s[j])) /\ (j < i => Ahead(s[j], s[i]))
  BY ListIs
<1>2. i < j \/ j < i
  BY <1>1
<1> QED
  BY <1>1, <1>2 DEF Ahead

\* No lock of the owner has bytes of the range: the new one goes to its place.
LEMMA LinkInsert ==
  ASSUME Chain(i_lockf), NEW a, IsCall(a), a.type # "UN", SelfOverlaps(a) = {}
  PROVE  IsParted(Linked(a), Rest(a), a, NewOf(a))
<1> DEFINE s == i_lockf
           n == Len(i_lockf)
           T == {i \in DOMAIN i_lockf : Own(i_lockf[i], a) /\ a.end # EOF /\ i_lockf[i].start > a.end} \cup {Len(i_lockf) + 1}
<1>1. /\ n \in Nat /\ DOMAIN s = 1 .. n /\ \A i \in 1 .. n : s[i] \in GoodLocks
      /\ \A x : x \in Range(s) <=> \E i \in 1 .. n : s[i] = x
  BY ListIs
<1>2. PICK k : k = NoOverlapAt(a)
  OBVIOUS
<1>3. k \in T /\ \A i \in T : k <= i
  <2>1. k = Min(T)
    BY <1>2 DEF NoOverlapAt
  <2>2. T \in SUBSET Nat /\ T # {}
    BY <1>1
  <2> HIDE DEF T
  <2> QED
    BY <2>1, <2>2, LeastIs
<1>4. k \in 1 .. n + 1 /\ k \in Int
  BY <1>1, <1>3
<1>5. PICK new : new = NewLock(a, {})
  OBVIOUS
<1>6. new \in GoodLocks /\ new.own = a.own /\ new.start = a.start /\ new.end = a.end /\ new.blk = {}
  BY <1>5, NewIsLock
<1>7. PICK b, c : b = SubSeq(s, 1, k - 1) /\ c = SubSeq(s, k, n)
  OBVIOUS
<1>8. Linked(a) = b \o <<new>> \o c
  BY <1>2, <1>5, <1>7 DEF Linked, InsertAt
<1>9. Chain(b) /\ \A x : x \in Range(b) <=> \E i \in 1 .. k - 1 : s[i] = x
  <2>1. 1 \in Int /\ k - 1 \in Int /\ 1 <= k - 1 + 1 /\ k - 1 <= n
    BY <1>1, <1>4
  <2> QED
    BY <1>7, <2>1, ChainPart
<1>10. Chain(c) /\ \A x : x \in Range(c) <=> \E i \in k .. n : s[i] = x
  <2>1. n \in Int /\ 1 <= k /\ k <= n + 1 /\ n <= Len(s)
    BY <1>1, <1>4
  <2> QED
    BY <1>4, <1>7, <2>1, ChainPart
<1>11. a.start \in Int /\ Top(a.end) \in Int /\ (a.end # EOF => Top(a.end) = a.end) /\ (a.end = EOF => Top(a.end) = MaxByte + 1)
  BY CallIs
<1>12. ASSUME NEW i \in 1 .. n, Own(s[i], a) PROVE Top(s[i].end) < a.start \/ Top(a.end) < s[i].start
  <2>1. ~Meets(s[i], a)
    <3>1. i \notin SelfOverlaps(a)
      OBVIOUS
    <3> QED
      BY <1>1, <1>12, <3>1, OverlapsAre DEF OwnMeets
  <2>2. Top(s[i].end) \in Int /\ s[i].start \in Int
    BY <1>1, LockIs
  <2> QED
    BY <1>11, <2>1, <2>2 DEF Meets
<1>13. ASSUME NEW i \in 1 .. n, i < k PROVE Ahead(s[i], new)
  <2>1. ASSUME Own(s[i], a) PROVE Top(s[i].end) < a.start
    <3>1. i \notin T
      BY <1>1, <1>3, <1>4, <1>13
    <3>2. ~(a.end # EOF /\ s[i].start > a.end)
      BY <1>1, <2>1, <3>1
    <3>3. s[i].start \in Int /\ s[i].start <= MaxByte + 1
      BY <1>1, LockIs
    <3>4. ~(Top(a.end) < s[i].start)
      BY <1>11, <3>2, <3>3, ByteIs
    <3> QED
      BY <1>12, <2>1, <3>4
  <2> QED
    BY <1>6, <2>1 DEF Ahead, Own
<1>14. ASSUME NEW i \in 1 .. n, k <= i PROVE Ahead(new, s[i])
  <2>1. ASSUME Own(s[i], a) PROVE Top(a.end) < s[i].start
    <3>1. k \in 1 .. n
      BY <1>1, <1>4, <1>14
    <3>2. Own(s[k], a) /\ a.end # EOF /\ s[k].start > a.end
      <4>1. k # n + 1
        BY <1>1, <3>1
      <4> QED
        BY <1>1, <1>3, <4>1
    <3>3. s[k].start \in Int /\ s[i].start \in Int /\ Top(s[k].end) \in Int /\ s[k].start <= Top(s[k].end)
      BY <1>1, <3>1, LockIs
    <3>4. k < i => Top(s[k].end) < s[i].start
      BY <2>1, <3>1, <3>2, InOrder
    <3>5. k = i \/ k < i
      BY <1>1, <1>4, <1>14
    <3> QED
      BY <1>11, <3>2, <3>3, <3>4, <3>5
  <2> QED
    BY <1>6, <2>1 DEF Ahead, Own
<1>15. Chain(<<new>>) /\ Range(<<new>>) = {new}
  BY <1>6, OneChain
<1>16. PICK d : d = b \o <<new>>
  OBVIOUS
<1>17. Chain(d) /\ \A x : x \in Range(d) <=> x \in Range(b) \/ x = new
  <2>1. AllAhead(b, <<new>>)
    <3>1. ASSUME NEW x \in Range(b) PROVE Ahead(x, new)
      <4>1. PICK i \in 1 .. k - 1 : s[i] = x
        BY <1>9
      <4>2. i \in 1 .. n /\ i < k
        BY <1>1, <1>4
      <4> QED
        BY <1>13, <4>1, <4>2
    <3> QED
      BY <1>15, <3>1 DEF AllAhead
  <2> QED
    BY <1>9, <1>15, <1>16, <2>1, ChainConcat
<1>18. PICK t : t = d \o c
  OBVIOUS
<1>19. Chain(t) /\ \A x : x \in Range(t) <=> x \in Range(d) \/ x \in Range(c)
  <2>1. ASSUME NEW x \in Range(d), NEW y \in Range(c) PROVE Ahead(x, y)
    <3>1. PICK j \in k .. n : s[j] = y
      BY <1>10
    <3>2. j \in 1 .. n /\ k <= j
      BY <1>1, <1>4
    <3>3. CASE x = new
      BY <1>14, <3>1, <3>2, <3>3
    <3>4. CASE x \in Range(b)
      <4>1. PICK i \in 1 .. k - 1 : s[i] = x
        BY <1>9, <3>4
      <4>2. i \in 1 .. n /\ i < j
        BY <1>1, <1>4, <3>2
      <4> QED
        BY <3>1, <3>2, <4>1, <4>2 DEF Chain
    <3> QED
      BY <1>17, <3>3, <3>4
  <2>2. AllAhead(d, c)
    BY <2>1 DEF AllAhead
  <2> QED
    BY <1>10, <1>17, <1>18, <2>2, ChainConcat
<1>20. ASSUME NEW x PROVE x \in Range(t) <=> x \in Range(s) \/ x = new
  <2>1. \A i \in 1 .. n : i \in 1 .. k - 1 \/ i \in k .. n
    BY <1>1, <1>4
  <2>2. (\A i \in 1 .. k - 1 : i \in 1 .. n) /\ (\A i \in k .. n : i \in 1 .. n)
    BY <1>1, <1>4
  <2> QED
    BY <1>1, <1>9, <1>10, <1>17, <1>19, <2>1, <2>2
<1>21. Linked(a) = t
  BY <1>8, <1>16, <1>18
<1>22. NewOf(a) = new
  <2>1. TakenOver(a) = {}
    BY DEF TakenOver
  <2>2. BlockedOn({}) = {}
    BY DEF BlockedOn
  <2> QED
    BY <1>5, <2>1, <2>2 DEF NewOf
<1>23. \A l : l \in Range(Rest(a)) <=> l \in Range(s)
  <2>1. PICK r : r = Rest(a)
    OBVIOUS
  <2>2. Chain(r) /\ Len(r) = n /\ \A i \in 1 .. n : r[i] = s[i]
    BY <2>1, UnblockedIs DEF Rest
  <2>3. \A x : x \in Range(r) <=> \E i \in 1 .. n : r[i] = x
    BY <2>2, ListIs
  <2> QED
    BY <1>1, <2>1, <2>2, <2>3
<1>24. ASSUME NEW l \in Range(s) PROVE ~OwnMeets(l, a)
  BY <1>1, OverlapsAre
<1>25. \A x \in Range(t) : x = new \/ \E l \in Range(Rest(a)) : PieceOf(x, l, a)
  BY <1>20, <1>23, <1>24 DEF PieceOf
<1>26. \A l \in Range(Rest(a)) : HasPieces(Range(t), l, a)
  BY <1>20, <1>23, <1>24 DEF HasPieces
<1>27. new \in Range(t)
  BY <1>20
<1> QED
  BY <1>19, <1>21, <1>22, <1>25, <1>26, <1>27 DEF IsParted

\* The owner's locks lose the range, and the new one goes in front of what is
\* left behind it.
LEMMA LinkPart ==
  ASSUME Chain(i_lockf), NEW a, IsCall(a), a.type # "UN",
         NEW k \in SelfOverlaps(a), \A i \in SelfOverlaps(a) : k <= i,
         NEW t, t = SubSeq(Rest(a), 1, k - 1) \o Before(Rest(a)[k], a) \o <<NewOf(a)>>
                    \o After(Rest(a)[k], a) \o Trimmed(SubSeq(Rest(a), k + 1, Len(Rest(a))), a)
  PROVE  IsParted(t, Rest(a), a, NewOf(a))
<1>1. PICK s : s = i_lockf
  OBVIOUS
<1>2. PICK n : n = Len(s)
  OBVIOUS
<1>3. PICK r : r = Rest(a)
  OBVIOUS
<1>4. /\ Chain(s) /\ n \in Nat
      /\ \A i \in 1 .. n : s[i] \in GoodLocks
      /\ \A i : i \in SelfOverlaps(a) <=> i \in 1 .. n /\ OwnMeets(s[i], a)
  BY <1>1, <1>2, ListIs, OverlapsAre
<1>5. /\ Chain(r) /\ Len(r) = n
      /\ \A i \in 1 .. n : /\ SameRange(r[i], s[i])
                           /\ i \in SelfOverlaps(a) => r[i].blk = {}
                           /\ i \notin SelfOverlaps(a) => r[i] = s[i]
  BY <1>1, <1>2, <1>3, <1>4, UnblockedIs DEF Rest
<1>6. /\ \A i \in 1 .. n : r[i] \in GoodLocks
      /\ \A x : x \in Range(r) <=> \E i \in 1 .. n : r[i] = x
      /\ \A i, j \in 1 .. n : i < j => Ahead(r[i], r[j])
  BY <1>5, ListIs
<1>7. \A i \in 1 .. n : OwnMeets(r[i], a) <=> OwnMeets(s[i], a)
  BY <1>5 DEF SameRange, OwnMeets, Own, Meets
<1>8. k \in 1 .. n /\ OwnMeets(r[k], a) /\ k \in Int
  BY <1>4, <1>7
<1>9. PICK f : f = r[k] /\ f \in GoodLocks /\ OwnMeets(f, a)
  BY <1>6, <1>8
<1>10. PICK new : new = NewOf(a)
  OBVIOUS
<1>11. /\ new \in GoodLocks /\ new.own = a.own /\ new.start = a.start /\ new.end = a.end
       /\ new.blk = BlockedOn(TakenOver(a))
  <2>1. BlockedOn(TakenOver(a)) \subseteq Chained
    <3>1. ASSUME NEW q \in BlockedOn(TakenOver(a)) PROVE q \in Chained
      <4>1. PICK i \in TakenOver(a) : q \in i_lockf[i].blk
        BY <3>1 DEF BlockedOn
      <4>2. i \in 1 .. n
        BY <1>4, <4>1 DEF TakenOver
      <4> QED
        BY <1>1, <1>4, <4>1, <4>2, LockIs
    <3> QED
      BY <3>1
  <2> QED
    BY <1>10, <2>1, NewIsLock DEF NewOf
<1>12. a.start \in Int /\ Top(a.end) \in Int /\ a.start <= Top(a.end)
  BY CallIs
<1>13. PICK A, B, C, D, E :
         /\ A = SubSeq(r, 1, k - 1) /\ B = Before(f, a) /\ C = After(f, a)
         /\ E = SubSeq(r, k + 1, n) /\ D = Trimmed(E, a)
  OBVIOUS
<1>14. t = A \o B \o <<new>> \o C \o D
  BY <1>3, <1>5, <1>9, <1>10, <1>13
<1>15. Chain(A) /\ \A x : x \in Range(A) <=> \E i \in 1 .. k - 1 : r[i] = x
  <2>1. PICK h : h = k - 1
    OBVIOUS
  <2>2. 1 \in Int /\ h \in Int /\ 1 <= 1 /\ 1 <= h + 1 /\ h <= Len(r)
    BY <1>4, <1>5, <1>8, <2>1
  <2>3. A = SubSeq(r, 1, h) /\ Chain(r)
    BY <1>5, <1>13, <2>1
  <2>4. Chain(A) /\ \A x : x \in Range(A) <=> \E i \in 1 .. h : r[i] = x
    BY <2>2, <2>3, ChainPart
  <2> QED
    BY <2>1, <2>4
<1>16. Chain(E) /\ \A x : x \in Range(E) <=> \E i \in k + 1 .. n : r[i] = x
  <2>1. PICK h : h = k + 1
    OBVIOUS
  <2>2. h \in Int /\ n \in Int /\ 1 <= h /\ h <= n + 1 /\ n <= Len(r)
    BY <1>4, <1>5, <1>8, <2>1
  <2>3. E = SubSeq(r, h, n) /\ Chain(r)
    BY <1>5, <1>13, <2>1
  <2>4. Chain(E) /\ \A x : x \in Range(E) <=> \E i \in h .. n : r[i] = x
    BY <2>2, <2>3, ChainPart
  <2> QED
    BY <2>1, <2>4
<1>17. /\ Chain(B) /\ \A x \in Range(B) : FrontOf(x, f, a)
       /\ f.start < a.start => \E x \in Range(B) : FrontOf(x, f, a)
  BY <1>9, <1>13, FrontIs
<1>18. /\ Chain(C) /\ \A x \in Range(C) : BackOf(x, f, a)
       /\ a.end # EOF /\ Top(a.end) < Top(f.end) => \E x \in Range(C) : BackOf(x, f, a)
  BY <1>9, <1>13, BackIs
<1>19. IsTrimmed(D, E, a)
  BY <1>13, <1>16, TrimmedIs
<1>20. /\ Chain(D)
       /\ \A x \in Range(D) : \E i \in k + 1 .. n : PieceOf(x, r[i], a)
       /\ \A i \in k + 1 .. n : HasPieces(Range(D), r[i], a)
  <2>1. \A x \in Range(D) : \E i \in k + 1 .. n : PieceOf(x, r[i], a)
    <3>1. ASSUME NEW x \in Range(D) PROVE \E i \in k + 1 .. n : PieceOf(x, r[i], a)
      <4>1. PICK l \in Range(E) : PieceOf(x, l, a)
        BY <1>19 DEF IsTrimmed
      <4> QED
        BY <1>16, <4>1
    <3> QED
      BY <3>1
  <2>2. \A i \in k + 1 .. n : HasPieces(Range(D), r[i], a)
    BY <1>16, <1>19 DEF IsTrimmed
  <2> QED
    BY <1>19, <2>1, <2>2 DEF IsTrimmed
<1>21. Chain(<<new>>) /\ Range(<<new>>) = {new}
  BY <1>11, OneChain
\* What the pieces are parts of.
<1>22. \A x \in Range(A) : \E i \in 1 .. k - 1 : x = r[i]
  BY <1>15
<1>23. \A x \in Range(B) : x \in GoodLocks /\ Within(x, f) /\ Top(x.end) < a.start /\ x.blk = {}
  <2>1. ASSUME NEW x \in Range(B) PROVE x \in GoodLocks /\ Within(x, f) /\ Top(x.end) < a.start /\ x.blk = {}
    <3>1. FrontOf(x, f, a) /\ PieceOf(x, f, a)
      BY <1>9, <1>17 DEF PieceOf
    <3>2. x \in GoodLocks /\ Within(x, f)
      BY <1>9, <3>1, PieceWithin
    <3>3. f.blk = {}
      BY <1>5, <1>8, <1>9
    <3> QED
      BY <1>12, <3>1, <3>2, <3>3 DEF FrontOf
  <2> QED
    BY <2>1
<1>24. \A x \in Range(C) : x \in GoodLocks /\ Within(x, f) /\ Top(a.end) < x.start /\ x.blk = {}
  <2>1. ASSUME NEW x \in Range(C) PROVE x \in GoodLocks /\ Within(x, f) /\ Top(a.end) < x.start /\ x.blk = {}
    <3>1. BackOf(x, f, a) /\ PieceOf(x, f, a)
      BY <1>9, <1>18 DEF PieceOf
    <3>2. x \in GoodLocks /\ Within(x, f)
      BY <1>9, <3>1, PieceWithin
    <3> QED
      BY <1>12, <3>1, <3>2 DEF BackOf
  <2> QED
    BY <2>1
<1>25. ASSUME NEW x \in Range(D)
       PROVE  \E i \in 1 .. n : k < i /\ x \in GoodLocks /\ Within(x, r[i]) /\ PieceOf(x, r[i], a)
  <2>1. PICK i \in k + 1 .. n : PieceOf(x, r[i], a)
    BY <1>20
  <2>2. i \in 1 .. n /\ k < i
    BY <1>4, <1>8
  <2>3. x \in GoodLocks /\ Within(x, r[i])
    BY <1>6, <2>1, <2>2, PieceWithin
  <2> QED
    BY <2>1, <2>2, <2>3
<1>26. \A l \in GoodLocks : Within(l, l)
  BY LockIs DEF Within
\* One after the other.
<1>27. ASSUME NEW i \in 1 .. k - 1
       PROVE  /\ i \in 1 .. n /\ i < k /\ r[i] \in GoodLocks /\ Within(r[i], r[i]) /\ Ahead(r[i], f)
              /\ Ahead(r[i], new)
  <2>1. i \in 1 .. n /\ i < k /\ r[i] \in GoodLocks /\ Within(r[i], r[i])
    <3>1. i \in 1 .. n /\ i < k
      BY <1>4, <1>8
    <3>2. r[i] \in GoodLocks
      BY <1>6, <3>1
    <3> QED
      BY <1>26, <3>1, <3>2
  <2>2. Ahead(r[i], f)
    BY <1>6, <1>8, <1>9, <2>1
  <2>3. ~OwnMeets(r[i], a) /\ r[i] = s[i] /\ i \notin SelfOverlaps(a)
    <3>1. i \notin SelfOverlaps(a)
      BY <1>8, <2>1
    <3> QED
      BY <1>4, <1>5, <1>7, <2>1, <3>1
  <2>4. ASSUME r[i].own = a.own PROVE Top(r[i].end) < a.start
    <3>1. Own(f, a) /\ f.start <= Top(a.end) /\ f.start \in Int /\ Top(r[i].end) \in Int /\ r[i].start \in Int
          /\ r[i].start <= Top(r[i].end)
      BY <1>9, <2>1, LockIs DEF OwnMeets, Meets
    <3>2. Top(r[i].end) < f.start
      BY <2>2, <2>4, <3>1 DEF Ahead, Own
    <3>3. ~(a.start <= Top(r[i].end) /\ r[i].start <= Top(a.end))
      BY <2>3, <2>4 DEF OwnMeets, Own, Meets
    <3>4. r[i].start <= Top(a.end)
      BY <1>12, <3>1, <3>2
    <3>5. ~(a.start <= Top(r[i].end))
      BY <3>3, <3>4
    <3> QED
      BY <1>12, <3>1, <3>5
  <2>5. (r[i].blk \cap new.blk) \cap Procs = {}
    <3>1. ASSUME NEW q \in Procs, q \in r[i].blk, q \in new.blk PROVE FALSE
      <4>1. PICK j \in TakenOver(a) : q \in s[j].blk
        BY <1>1, <1>11, <3>1 DEF BlockedOn
      <4>2. j \in 1 .. n /\ j \in SelfOverlaps(a)
        BY <1>4, <4>1 DEF TakenOver
      <4>3. i # j
        BY <2>3, <4>2
      <4> QED
        BY <1>2, <1>4, <2>1, <2>3, <3>1, <4>1, <4>2, <4>3, BlkApart
    <3> QED
      BY <3>1
  <2>6. Ahead(r[i], new)
    BY <1>11, <2>4, <2>5 DEF Ahead
  <2> QED
    BY <2>1, <2>2, <2>6
<1>28. PICK t1, t2, t3 : t1 = A \o B /\ t2 = t1 \o <<new>> /\ t3 = t2 \o C
  OBVIOUS
<1>29. Chain(t1) /\ \A x : x \in Range(t1) <=> x \in Range(A) \/ x \in Range(B)
  <2>1. ASSUME NEW x \in Range(A), NEW y \in Range(B) PROVE Ahead(x, y)
    <3>1. PICK i \in 1 .. k - 1 : x = r[i]
      BY <1>22
    <3>2. x \in GoodLocks /\ Within(x, x) /\ Ahead(x, f)
      BY <1>27, <3>1
    <3>3. y \in GoodLocks /\ Within(y, f)
      BY <1>23
    <3> QED
      BY <1>9, <3>2, <3>3, WithinAhead
  <2> QED
    BY <1>15, <1>17, <1>28, <2>1, ChainConcat DEF AllAhead
<1>30. Chain(t2) /\ \A x : x \in Range(t2) <=> x \in Range(t1) \/ x = new
  <2>1. ASSUME NEW x \in Range(t1) PROVE Ahead(x, new)
    <3>1. CASE x \in Range(A)
      BY <1>22, <1>27, <3>1
    <3>2. CASE x \in Range(B)
      BY <1>11, <1>23, <3>2 DEF Ahead
    <3> QED
      BY <1>29, <3>1, <3>2
  <2>2. AllAhead(t1, <<new>>)
    BY <1>21, <2>1 DEF AllAhead
  <2> QED
    BY <1>21, <1>28, <1>29, <2>2, ChainConcat
<1>31. Chain(t3) /\ \A x : x \in Range(t3) <=> x \in Range(t2) \/ x \in Range(C)
  <2>1. ASSUME NEW x \in Range(t2), NEW y \in Range(C) PROVE Ahead(x, y)
    <3>1. CASE x \in Range(A)
      <4>1. PICK i \in 1 .. k - 1 : x = r[i]
        BY <1>22, <3>1
      <4>2. x \in GoodLocks /\ Within(x, x) /\ Ahead(x, f)
        BY <1>27, <4>1
      <4>3. y \in GoodLocks /\ Within(y, f)
        BY <1>24
      <4> QED
        BY <1>9, <4>2, <4>3, WithinAhead
    <3>2. CASE x \in Range(B)
      BY <1>9, <1>17, <1>18, <3>2, FrontBeforeBack
    <3>3. CASE x = new
      BY <1>11, <1>24, <3>3 DEF Ahead
    <3> QED
      BY <1>29, <1>30, <3>1, <3>2, <3>3
  <2>2. AllAhead(t2, C)
    BY <2>1 DEF AllAhead
  <2> QED
    BY <1>18, <1>28, <1>30, <2>2, ChainConcat
<1>32. ASSUME NEW y \in Range(D) PROVE Ahead(new, y)
  <2>1. PICK i \in 1 .. n : k < i /\ y \in GoodLocks /\ Within(y, r[i]) /\ PieceOf(y, r[i], a)
    BY <1>25
  <2>2. Ahead(f, r[i]) /\ r[i] \in GoodLocks
    BY <1>6, <1>8, <1>9, <2>1
  <2>3. /\ r[i].start \in Int /\ Top(r[i].end) \in Int /\ r[i].start <= Top(r[i].end)
        /\ f.start \in Int /\ Top(f.end) \in Int /\ f.start <= Top(f.end)
        /\ a.start <= Top(f.end) /\ f.own = a.own
    BY <1>9, <2>2, LockIs DEF OwnMeets, Meets, Own
  <2>4. y.own = r[i].own /\ r[i].start <= y.start /\ y.start \in Int
    BY <2>1, LockIs DEF Within
  <2>5. ASSUME y.own = a.own PROVE Top(a.end) < y.start
    <3>1. Top(f.end) < r[i].start
      BY <2>2, <2>3, <2>4, <2>5 DEF Ahead
    <3>2. CASE OwnMeets(r[i], a)
      <4>1. ~FrontOf(y, r[i], a)
        BY <1>12, <2>3, <3>1 DEF FrontOf
      <4>2. BackOf(y, r[i], a)
        BY <2>1, <3>2, <4>1 DEF PieceOf
      <4> QED
        BY <1>12, <4>2 DEF BackOf
    <3>3. CASE ~OwnMeets(r[i], a)
      <4>1. ~(a.start <= Top(r[i].end) /\ r[i].start <= Top(a.end))
        BY <2>4, <2>5, <3>3 DEF OwnMeets, Own, Meets
      <4> QED
        BY <1>12, <2>3, <2>4, <3>1, <4>1
    <3> QED
      BY <3>2, <3>3
  <2>6. ASSUME NEW q \in Procs, q \in new.blk, q \in y.blk PROVE FALSE
    <3>1. PICK j \in TakenOver(a) : q \in s[j].blk
      BY <1>1, <1>11, <2>6 DEF BlockedOn
    <3>2. j \in 1 .. n /\ j \in SelfOverlaps(a)
      BY <1>4, <3>1 DEF TakenOver
    <3>3. q \in r[i].blk
      BY <2>1, <2>6 DEF Within
    <3>4. i \notin SelfOverlaps(a) /\ r[i] = s[i]
      BY <1>5, <2>1, <3>3
    <3> QED
      BY <1>2, <1>4, <2>1, <2>6, <3>1, <3>2, <3>3, <3>4, BlkApart
  <2> QED
    BY <1>11, <2>5, <2>6 DEF Ahead
<1>33. t = t3 \o D
  BY <1>14, <1>28
<1>34. Chain(t) /\ \A x : x \in Range(t) <=> x \in Range(t3) \/ x \in Range(D)
  <2>1. ASSUME NEW x \in Range(t3), NEW y \in Range(D) PROVE Ahead(x, y)
    <3>1. PICK j \in 1 .. n : k < j /\ y \in GoodLocks /\ Within(y, r[j])
      BY <1>25
    <3>2. r[j] \in GoodLocks /\ Ahead(f, r[j])
      BY <1>6, <1>8, <1>9, <3>1
    <3>3. CASE x \in Range(A)
      <4>1. PICK i \in 1 .. k - 1 : x = r[i]
        BY <1>22, <3>3
      <4>2. i \in 1 .. n /\ i < j /\ r[i] \in GoodLocks /\ Within(r[i], r[i])
        BY <1>4, <1>8, <1>27, <3>1
      <4>3. Ahead(r[i], r[j])
        BY <1>6, <3>1, <4>2
      <4> QED
        BY <3>1, <3>2, <4>1, <4>2, <4>3, WithinAhead
    <3>4. CASE x \in Range(B)
      BY <1>9, <1>23, <3>1, <3>2, <3>4, WithinAhead
    <3>5. CASE x \in Range(C)
      BY <1>9, <1>24, <3>1, <3>2, <3>5, WithinAhead
    <3>6. CASE x = new
      BY <1>32, <3>6
    <3> QED
      BY <1>29, <1>30, <1>31, <3>3, <3>4, <3>5, <3>6
  <2>2. AllAhead(t3, D)
    BY <2>1 DEF AllAhead
  <2> QED
    BY <1>20, <1>31, <1>33, <2>2, ChainConcat
<1>35. \A x : x \in Range(t) <=> x \in Range(A) \/ x \in Range(B) \/ x = new \/ x \in Range(C) \/ x \in Range(D)
  BY <1>29, <1>30, <1>31, <1>34
<1>36. ASSUME NEW x \in Range(t), x # new PROVE \E l \in Range(r) : PieceOf(x, l, a)
  <2>1. \A i \in 1 .. n : r[i] \in Range(r)
    BY <1>6
  <2>2. CASE x \in Range(A)
    <3>1. PICK i \in 1 .. k - 1 : x = r[i]
      BY <1>22, <2>2
    <3>2. i \in 1 .. n /\ i < k
      BY <1>27
    <3>3. ~OwnMeets(r[i], a)
      BY <1>4, <1>7, <1>8, <3>2
    <3> QED
      BY <2>1, <3>1, <3>2, <3>3 DEF PieceOf
  <2>3. CASE x \in Range(B)
    BY <1>8, <1>9, <1>17, <2>1, <2>3 DEF PieceOf
  <2>4. CASE x \in Range(C)
    BY <1>8, <1>9, <1>18, <2>1, <2>4 DEF PieceOf
  <2>5. CASE x \in Range(D)
    BY <1>25, <2>1, <2>5
  <2> QED
    BY <1>35, <1>36, <2>2, <2>3, <2>4, <2>5
<1>37. ASSUME NEW l \in Range(r) PROVE HasPieces(Range(t), l, a)
  <2>1. PICK i \in 1 .. n : r[i] = l
    BY <1>6
  <2>2. CASE i < k
    <3>1. ~OwnMeets(r[i], a)
      BY <1>4, <1>7, <1>8, <2>2
    <3>2. i \in 1 .. k - 1
      BY <1>4, <1>8, <2>2
    <3>3. l \in Range(t)
      BY <1>15, <1>35, <2>1, <3>2
    <3> QED
      BY <2>1, <3>1, <3>3 DEF HasPieces
  <2>3. CASE i = k
    BY <1>9, <1>17, <1>18, <1>35, <2>1, <2>3 DEF HasPieces
  <2>4. CASE k < i
    <3>1. i \in k + 1 .. n
      BY <1>4, <1>8, <2>4
    <3>2. Range(D) \subseteq Range(t)
      BY <1>35
    <3>3. HasPieces(Range(D), l, a)
      BY <1>20, <2>1, <3>1
    <3> QED
      BY <3>2, <3>3, MorePieces
  <2> QED
    BY <1>4, <1>8, <2>2, <2>3, <2>4
<1>38. new \in Range(t)
  BY <1>35
<1> QED
  BY <1>3, <1>10, <1>34, <1>36, <1>37, <1>38 DEF IsParted

\* The lock has that range already and changes its type.
IsRetyped(t, s, a, k) ==
  /\ Chain(t) /\ Len(t) = Len(s) /\ k \in 1 .. Len(s) /\ OwnMeets(s[k], a)
  /\ s[k].start = a.start /\ s[k].end = a.end
  /\ \A i \in 1 .. Len(s) : i # k => t[i] = s[i]
  /\ t[k].own = s[k].own /\ t[k].type = a.type /\ t[k].start = s[k].start /\ t[k].end = s[k].end
  /\ t[k].blk = IF Downgrades(s[k], a) THEN {} ELSE s[k].blk

LEMMA LinkRetype ==
  ASSUME Chain(i_lockf), NEW a, IsCall(a), a.type # "UN", NEW k \in SelfOverlaps(a),
         ovcase(i_lockf[k], a) = 1, NEW t,
         t = [i_lockf EXCEPT ![k] = [i_lockf[k] EXCEPT !.type = a.type,
                                                      !.blk = IF Downgrades(i_lockf[k], a) THEN {} ELSE @]]
  PROVE  IsRetyped(t, i_lockf, a, k)
<1>1. PICK s : s = i_lockf
  OBVIOUS
<1>2. /\ Chain(s) /\ s \in Seq(GoodLocks) /\ Len(s) \in Nat /\ DOMAIN s = 1 .. Len(s)
      /\ \A i \in 1 .. Len(s) : s[i] \in GoodLocks
      /\ k \in 1 .. Len(s) /\ OwnMeets(s[k], a)
  BY <1>1, ListIs, OverlapsAre
<1>3. PICK f : f = s[k]
  OBVIOUS
<1>4. PICK b : b = IF Downgrades(f, a) THEN {} ELSE f.blk
  OBVIOUS
<1>5. PICK x : x = [f EXCEPT !.type = a.type, !.blk = IF Downgrades(f, a) THEN {} ELSE @]
  OBVIOUS
<1>6. f \in LockRec /\ f.start <= Top(f.end) /\ f.blk \subseteq Chained /\ f \in GoodLocks
  BY <1>2, <1>3, LockIs
<1>7. a.type \in {"RD", "WR"}
  BY CallIs
<1>8. x = [f EXCEPT !.type = a.type, !.blk = b]
  BY <1>4, <1>5
<1>9. x \in LockRec /\ x.own = f.own /\ x.type = a.type /\ x.start = f.start /\ x.end = f.end /\ x.blk = b
  BY <1>4, <1>6, <1>7, <1>8 DEF LockRec
<1>10. x \in GoodLocks
  BY <1>6, <1>9 DEF GoodLocks
<1>11. Within(x, f)
  <2>1. f.start \in Int /\ Top(f.end) \in Int
    BY <1>6, LockIs
  <2> QED
    BY <1>4, <1>9, <2>1 DEF Within
<1>12. t = [s EXCEPT ![k] = x]
  BY <1>1, <1>3, <1>5
<1>13. t \in Seq(GoodLocks) /\ Len(t) = Len(s) /\ \A i \in 1 .. Len(s) : t[i] = IF i = k THEN x ELSE s[i]
  <2>1. s \in Seq(GoodLocks) /\ k \in 1 .. Len(s) /\ x \in GoodLocks
    BY <1>2, <1>10
  <2>2. PICK u : u = [s EXCEPT ![k] = x]
    OBVIOUS
  <2>3. u \in Seq(GoodLocks) /\ Len(u) = Len(s) /\ \A i \in 1 .. Len(s) : u[i] = IF i = k THEN x ELSE s[i]
    BY <2>1, <2>2, PutIs
  <2>4. u = t
    BY <1>12, <2>2
  <2> QED
    BY <2>3, <2>4
<1>14. \A i \in 1 .. Len(s) : Within(t[i], s[i])
  <2>1. ASSUME NEW i \in 1 .. Len(s) PROVE Within(t[i], s[i])
    <3>1. s[i].start \in Int /\ Top(s[i].end) \in Int
      BY <1>2, LockIs
    <3>2. Within(s[i], s[i])
      BY <3>1 DEF Within
    <3> QED
      BY <1>3, <1>11, <1>13, <3>2
  <2> QED
    BY <2>1
<1>15. Chain(t)
  BY <1>2, <1>13, <1>14, ShrunkChain DEF Shrunk
<1>16. f.start = a.start /\ f.end = a.end
  BY <1>1, <1>3, <1>6, OverlapIs
<1> QED
  BY <1>1, <1>2, <1>3, <1>4, <1>9, <1>13, <1>15, <1>16 DEF IsRetyped

\* The lock with that range is there, or one with that type around it.
LEMMA LinkedIs ==
  ASSUME Chain(i_lockf), NEW a, IsCall(a), a.type # "UN"
  PROVE  \/ /\ IsParted(Linked(a), Rest(a), a, NewOf(a))
            /\ \A i \in SelfOverlaps(a) :
                 /\ ovcase(i_lockf[i], a) # 1
                 /\ ovcase(i_lockf[i], a) = 2 => i_lockf[i].type # a.type
         \/ \E k : SelfOverlaps(a) = {k} /\ ovcase(i_lockf[k], a) = 1 /\ IsRetyped(Linked(a), i_lockf, a, k)
         \/ \E k : /\ SelfOverlaps(a) = {k} /\ ovcase(i_lockf[k], a) = 2
                   /\ i_lockf[k].type = a.type /\ Linked(a) = i_lockf
<1>1. CASE SelfOverlaps(a) = {}
  BY <1>1, LinkInsert
<1>2. CASE SelfOverlaps(a) # {}
  <2>1. PICK k : k = Min(SelfOverlaps(a))
    OBVIOUS
  <2>2. k \in SelfOverlaps(a) /\ \A i \in SelfOverlaps(a) : k <= i
    BY <1>2, <2>1, OverlapsAre, LeastIs
  <2>3. PICK f : f = i_lockf[k]
    OBVIOUS
  <2>4. \A i \in SelfOverlaps(a) : i_lockf[i] \in GoodLocks
    BY OverlapsAre, ListIs
  <2>5. ASSUME NEW i \in SelfOverlaps(a), ovcase(i_lockf[i], a) \in {1, 2}
        PROVE  SelfOverlaps(a) = {i} /\ i = k
    <3>1. i_lockf[i].start <= a.start /\ Top(a.end) <= Top(i_lockf[i].end)
      <4>1. i_lockf[i].start \in Int /\ Top(i_lockf[i].end) \in Int
        BY <2>4, LockIs
      <4>2. CASE ovcase(i_lockf[i], a) = 1
        BY <2>4, <4>1, <4>2, OverlapIs
      <4>3. CASE ovcase(i_lockf[i], a) = 2
        BY <2>4, <4>3, OverlapIs
      <4> QED
        BY <2>5, <4>2, <4>3
    <3>2. SelfOverlaps(a) = {i}
      BY <3>1, OnlyOne
    <3> QED
      BY <2>2, <3>2
  <2>6. CASE ovcase(f, a) = 1
    <3>1. Linked(a) = [i_lockf EXCEPT ![k] = [f EXCEPT !.type = a.type,
                                                      !.blk = IF Downgrades(f, a) THEN {} ELSE @]]
      BY <1>2, <2>1, <2>3, <2>6 DEF Linked
    <3>2. PICK t : t = Linked(a)
      OBVIOUS
    <3>3. IsRetyped(t, i_lockf, a, k)
      BY <2>2, <2>3, <2>6, <3>1, <3>2, LinkRetype
    <3> QED
      BY <2>2, <2>3, <2>5, <2>6, <3>2, <3>3
  <2>7. CASE ovcase(f, a) = 2 /\ f.type = a.type
    <3>1. Linked(a) = i_lockf
      BY <1>2, <2>1, <2>3, <2>7 DEF Linked
    <3> QED
      BY <2>2, <2>3, <2>5, <2>7, <3>1
  <2>8. CASE ovcase(f, a) # 1 /\ ~(ovcase(f, a) = 2 /\ f.type = a.type)
    <3>1. Linked(a) = SubSeq(Rest(a), 1, k - 1) \o Before(Rest(a)[k], a) \o <<NewOf(a)>>
                      \o After(Rest(a)[k], a) \o Trimmed(SubSeq(Rest(a), k + 1, Len(Rest(a))), a)
      BY <1>2, <2>1, <2>3, <2>8 DEF Linked, Rest, NewOf
    <3>2. PICK t : t = Linked(a)
      OBVIOUS
    <3>3. IsParted(t, Rest(a), a, NewOf(a))
      BY <2>2, <3>1, <3>2, LinkPart
    <3>4. \A i \in SelfOverlaps(a) :
                 /\ ovcase(i_lockf[i], a) # 1
                 /\ ovcase(i_lockf[i], a) = 2 => i_lockf[i].type # a.type
      BY <2>3, <2>5, <2>8
    <3> QED
      BY <3>2, <3>3, <3>4
  <2> QED
    BY <2>6, <2>7, <2>8
<1> QED
  BY <1>1, <1>2

-----------------------------------------------------------------------------
(* The invariant.                                                          *)

Calls(p) == PosixCall(p) \cup FlockCall
AllCalls == {NoCall} \cup UNION {Calls(p) : p \in Procs}
Places == {"idle", "call", "asleep", "woken", "split"}

\* A process that is not idle is in a call of its own; one that waits for a lock
\* wants to set one.
CallFits(p) ==
  IF at[p] = "idle" THEN lock[p] = NoCall
  ELSE lock[p] \in Calls(p) /\ (at[p] \in {"asleep", "woken"} => lock[p].type # "UN")

LockfBase ==
  /\ lock \in [Procs -> AllCalls] /\ at \in [Procs -> Places]
  /\ nxt \in [Procs -> Owners \cup {FREED, NONE}] /\ stranded \subseteq Procs
  /\ \A p \in Procs : CallFits(p)

\* What waits behind a lock is asleep and kept out by the lock; and what is asleep
\* waits behind a lock.
Queued ==
  /\ \A x \in Range(i_lockf) : \A q \in Procs :
       q \in x.blk => at[q] = "asleep" /\ (q \in stranded \/ Blocks(x, lock[q]))
  /\ \A q \in Procs : at[q] = "asleep" => \E x \in Range(i_lockf) : q \in x.blk

\* The lock that is about to be split for a process is still there.
Around(x, a) == x.start < a.start /\ a.end # EOF /\ Top(a.end) < Top(x.end)
SplitWaits == \A q \in Procs : at[q] = "split" =>
  /\ lock[q].own = q
  /\ lock[q].type = "UN" => \E x \in Range(i_lockf) : x.own = q /\ Around(x, lock[q])

LockfInv == LockfBase /\ Chain(i_lockf) /\ Queued /\ SplitWaits

LEMMA NamesDiffer ==
  /\ FREED \notin Owners /\ NONE \notin Owners /\ Procs \subseteq Owners
  /\ \A p \in Procs : p \notin Files /\ p # NONE /\ p # FREED
BY LockfAssumption DEF Owners

LEMMA CallsAre ==
  ASSUME NEW p \in Procs, NEW a \in Calls(p)
  PROVE  /\ IsCall(a) /\ a # NoCall
         /\ a.own = p \/ (a.own \in Files /\ a.start = 0 /\ a.end = EOF)
         /\ a.own \in Procs => a.own = p
<1>1. CASE a \in PosixCall(p)
  <2>1. PICK t \in {"RD", "WR", "UN"}, r \in Extents : a = [own |-> p, type |-> t, start |-> r[1], end |-> r[2]]
    BY <1>1 DEF PosixCall
  <2>2. r[1] \in 0 .. MaxByte /\ r[2] \in (r[1] .. MaxByte) \cup {EOF}
    BY LockfAssumption
  <2>3. r[2] \in Ends /\ r[1] <= Top(r[2])
    BY <2>2, ByteIs DEF Ends, Top
  <2>4. a.own = p /\ a.type = t /\ a.start = r[1] /\ a.end = r[2]
    BY <2>1
  <2>5. IsCall(a)
    BY <2>2, <2>3, <2>4 DEF IsCall, Owners
  <2>6. a # NoCall
    <3>1. "own" \in DOMAIN a /\ "own" \notin DOMAIN NoCall
      BY <2>1 DEF NoCall
    <3> QED
      BY <3>1
  <2> QED
    BY <2>4, <2>5, <2>6
<1>2. CASE a \in FlockCall
  <2>1. PICK f \in Files, t \in {"RD", "WR", "UN"} : a = [own |-> f, type |-> t, start |-> 0, end |-> EOF]
    BY <1>2 DEF FlockCall
  <2>2. 0 \in 0 .. MaxByte /\ EOF \in Ends /\ 0 <= Top(EOF)
    BY ByteIs DEF Ends, Top
  <2>3. a.own = f /\ a.type = t /\ a.start = 0 /\ a.end = EOF
    BY <2>1
  <2>4. IsCall(a)
    BY <2>2, <2>3 DEF IsCall, Owners
  <2>5. a # NoCall
    <3>1. "own" \in DOMAIN a /\ "own" \notin DOMAIN NoCall
      BY <2>1 DEF NoCall
    <3> QED
      BY <3>1
  <2> QED
    BY <2>3, <2>4, <2>5, LockfAssumption
<1> QED
  BY <1>1, <1>2 DEF Calls

\* The call of a process that is not idle.
LEMMA CallOf ==
  ASSUME LockfBase, NEW p \in Procs, at[p] # "idle"
  PROVE  lock[p] \in Calls(p) /\ IsCall(lock[p]) /\ (at[p] \in {"asleep", "woken"} => lock[p].type # "UN")
<1>1. lock[p] \in Calls(p) /\ (at[p] \in {"asleep", "woken"} => lock[p].type # "UN")
  BY DEF LockfBase, CallFits
<1> QED
  BY <1>1, CallsAre

-----------------------------------------------------------------------------
(* What the steps have in common.                                          *)

\* p goes to place x and the sleepers in w are woken.
Turns(p, x, w) ==
  /\ at' = [q \in Procs |-> IF q = p THEN x ELSE IF q \in w /\ at[q] = "asleep" THEN "woken" ELSE at[q]]
  /\ \A q \in Procs : q # p => lock'[q] = lock[q]

LEMMA BaseKept ==
  ASSUME LockfBase, NEW p \in Procs, NEW x \in Places, NEW w, Turns(p, x, w),
         lock' \in [Procs -> AllCalls], nxt' \in [Procs -> Owners \cup {FREED, NONE}], stranded' \subseteq Procs,
         IF x = "idle" THEN lock'[p] = NoCall
         ELSE lock'[p] \in Calls(p) /\ (x \in {"asleep", "woken"} => lock'[p].type # "UN")
  PROVE  LockfBase'
<1>1. /\ \A q \in Procs : at'[q] = IF q = p THEN x ELSE IF q \in w /\ at[q] = "asleep" THEN "woken" ELSE at[q]
      /\ \A q \in Procs : q # p => lock'[q] = lock[q]
  BY DEF Turns
<1>2. \A q \in Procs : at[q] \in Places /\ CallFits(q)
  BY DEF LockfBase
<1>3. at' \in [Procs -> Places]
  <2>1. \A q \in Procs : at'[q] \in Places
    BY <1>1, <1>2 DEF Places
  <2>2. at' = [q \in Procs |-> at'[q]]
    BY DEF Turns
  <2> QED
    BY <2>1, <2>2
<1>4. ASSUME NEW q \in Procs PROVE CallFits(q)'
  <2>1. CASE q = p
    BY <1>1, <2>1 DEF CallFits
  <2>2. CASE q # p
    <3>1. lock'[q] = lock[q] /\ (at'[q] = at[q] \/ (at[q] = "asleep" /\ at'[q] = "woken"))
      BY <1>1, <2>2
    <3> QED
      BY <1>2, <3>1 DEF CallFits
  <2> QED
    BY <2>1, <2>2
<1> QED
  BY <1>3, <1>4 DEF LockfBase

\* Blocked lists are carried over but for the requests that are woken.
Carries(w) ==
  /\ \A y \in Range(i_lockf') : \A q \in Procs : q \in y.blk =>
       q \notin w /\ \E x \in Range(i_lockf) :
         q \in x.blk /\ (q \in stranded' \/ (Blocks(x, lock[q]) => Blocks(y, lock[q])))
  /\ \A x \in Range(i_lockf) : \A q \in Procs : q \in x.blk => q \in w \/ \E y \in Range(i_lockf') : q \in y.blk

LEMMA QueuedKept ==
  ASSUME LockfBase, Queued, NEW p \in Procs, at[p] # "asleep", NEW x, x # "asleep", NEW w, Turns(p, x, w),
         Chain(i_lockf), Chain(i_lockf)', Carries(w), stranded \ (w \cup {p}) \subseteq stranded'
  PROVE  Queued'
<1>1. /\ \A q \in Procs : at'[q] = IF q = p THEN x ELSE IF q \in w /\ at[q] = "asleep" THEN "woken" ELSE at[q]
      /\ \A q \in Procs : q # p => lock'[q] = lock[q]
  BY DEF Turns
<1>3. ASSUME NEW y \in Range(i_lockf'), NEW q \in Procs, q \in y.blk
      PROVE  at'[q] = "asleep" /\ (q \in stranded' \/ Blocks(y, lock'[q]))
  <2>1. q \notin w
    BY <1>3 DEF Carries
  <2>2. PICK l \in Range(i_lockf) : q \in l.blk /\ (q \in stranded' \/ (Blocks(l, lock[q]) => Blocks(y, lock[q])))
    BY <1>3 DEF Carries
  <2>3. at[q] = "asleep" /\ (q \in stranded \/ Blocks(l, lock[q])) /\ q \in Procs
    BY <1>3, <2>2 DEF Queued
  <2>4. q # p /\ at'[q] = "asleep" /\ lock'[q] = lock[q]
    BY <1>1, <2>1, <2>3
  <2>5. q \in stranded => q \in stranded'
    BY <2>1, <2>4
  <2> QED
    BY <2>2, <2>3, <2>4, <2>5
<1>4. ASSUME NEW q \in Procs, at'[q] = "asleep" PROVE \E y \in Range(i_lockf') : q \in y.blk
  <2>1. q # p /\ at[q] = "asleep" /\ q \notin w
    BY <1>1, <1>4
  <2>2. PICK l \in Range(i_lockf) : q \in l.blk
    BY <1>4, <2>1 DEF Queued
  <2> QED
    BY <1>4, <2>1, <2>2 DEF Carries
<1> QED
  BY <1>3, <1>4 DEF Queued

\* The locks of owner o keep their place.
Keeps(o) == \A x \in Range(i_lockf) : x.own = o =>
  \E y \in Range(i_lockf') : y.own = o /\ y.start = x.start /\ y.end = x.end

LEMMA SplitKept ==
  ASSUME LockfBase, SplitWaits, NEW p \in Procs, NEW x, NEW w, Turns(p, x, w),
         \A q \in Procs : q # p => Keeps(q),
         x = "split" => /\ lock'[p].own = p
                        /\ lock'[p].type = "UN" => \E y \in Range(i_lockf') : y.own = p /\ Around(y, lock'[p])
  PROVE  SplitWaits'
<1>1. /\ \A q \in Procs : at'[q] = IF q = p THEN x ELSE IF q \in w /\ at[q] = "asleep" THEN "woken" ELSE at[q]
      /\ \A q \in Procs : q # p => lock'[q] = lock[q]
  BY DEF Turns
<1>2. ASSUME NEW q \in Procs, at'[q] = "split"
      PROVE  /\ lock'[q].own = q
             /\ lock'[q].type = "UN" => \E y \in Range(i_lockf') : y.own = q /\ Around(y, lock'[q])
  <2>1. CASE q = p
    BY <1>1, <1>2, <2>1
  <2>2. CASE q # p
    <3>1. at[q] = "split" /\ lock'[q] = lock[q]
      BY <1>1, <1>2, <2>2
    <3>2. lock[q].own = q
      BY <3>1 DEF SplitWaits
    <3>3. ASSUME lock[q].type = "UN" PROVE \E y \in Range(i_lockf') : y.own = q /\ Around(y, lock[q])
      <4>1. PICK l \in Range(i_lockf) : l.own = q /\ Around(l, lock[q])
        BY <3>1, <3>3 DEF SplitWaits
      <4>2. PICK y \in Range(i_lockf') : y.own = q /\ y.start = l.start /\ y.end = l.end
        BY <2>2, <4>1 DEF Keeps
      <4> QED
        BY <4>1, <4>2 DEF Around
    <3> QED
      BY <3>1, <3>2, <3>3
  <2> QED
    BY <2>1, <2>2
<1> QED
  BY <1>2 DEF SplitWaits

\* A step that leaves the list alone.
LEMMA ListKept ==
  ASSUME LockfInv, NEW p \in Procs, at[p] # "asleep", NEW x \in {"idle", "call"}, Turns(p, x, {}),
         i_lockf' = i_lockf,
         lock' \in [Procs -> AllCalls], nxt' \in [Procs -> Owners \cup {FREED, NONE}], stranded' \subseteq Procs,
         stranded \ {p} \subseteq stranded',
         IF x = "idle" THEN lock'[p] = NoCall ELSE lock'[p] \in Calls(p)
  PROVE  LockfInv'
<1>1. LockfBase /\ Chain(i_lockf) /\ Queued /\ SplitWaits
  BY DEF LockfInv
<1>2. LockfBase'
  <2>1. x \in Places /\ x \notin {"asleep", "woken"}
    BY DEF Places
  <2> QED
    BY <1>1, <2>1, BaseKept
<1>3. Chain(i_lockf)'
  BY <1>1
<1>4. SplitWaits'
  <2>1. \A q \in Procs : q # p => Keeps(q)
    BY DEF Keeps
  <2> QED
    BY <1>1, <2>1, SplitKept
<1>5. Queued'
  <2>1. Carries({})
    BY DEF Carries
  <2> QED
    BY <1>1, <1>3, <2>1, QueuedKept
<1> QED
  BY <1>2, <1>3, <1>4, <1>5 DEF LockfInv

-----------------------------------------------------------------------------
(* The steps that leave the list alone, but for who is freed on it.        *)

LEMMA InitLockfInv == ASSUME LockfInit PROVE LockfInv
<1>1. LockfBase
  <2>1. NoCall \in AllCalls /\ "idle" \in Places /\ NONE \in Owners \cup {FREED, NONE}
    BY DEF AllCalls, Places
  <2>2. /\ lock \in [Procs -> AllCalls] /\ at \in [Procs -> Places]
        /\ nxt \in [Procs -> Owners \cup {FREED, NONE}] /\ stranded \subseteq Procs
    BY <2>1 DEF LockfInit
  <2>3. \A p \in Procs : at[p] = "idle" /\ lock[p] = NoCall
    BY DEF LockfInit
  <2> QED
    BY <2>2, <2>3 DEF LockfBase, CallFits
<1>2. Chain(i_lockf) /\ Range(i_lockf) = {}
  BY NoChain DEF LockfInit
<1>3. Queued /\ SplitWaits
  <2>1. \A p \in Procs : at[p] = "idle"
    BY DEF LockfInit
  <2> QED
    BY <1>2, <2>1 DEF Queued, SplitWaits
<1> QED
  BY <1>1, <1>2, <1>3 DEF LockfInv

\* p returns and nobody is woken.
LEMMA ReturnStep ==
  ASSUME LockfInv, NEW p \in Procs, at[p] # "asleep", Return(p),
         at' = [q \in Procs |-> IF q = p THEN "idle" ELSE at[q]], i_lockf' = i_lockf,
         nxt' \in [Procs -> Owners \cup {FREED, NONE}], stranded' \subseteq Procs, stranded \ {p} \subseteq stranded'
  PROVE  LockfInv'
<1>1. lock \in [Procs -> AllCalls] /\ NoCall \in AllCalls
  BY DEF LockfInv, LockfBase, AllCalls
<1>2. lock' \in [Procs -> AllCalls] /\ lock'[p] = NoCall /\ \A q \in Procs : q # p => lock'[q] = lock[q]
  BY <1>1 DEF Return
<1>3. Turns(p, "idle", {})
  BY <1>2 DEF Turns
<1>4. "idle" \in {"idle", "call"}
  OBVIOUS
<1> QED
  BY <1>2, <1>3, <1>4, ListKept

LEMMA AdvlockStep ==
  ASSUME LockfInv, NEW p \in Procs, NEW a \in Calls(p), ufs_advlock(p, a)
  PROVE  LockfInv'
<1>1. lock \in [Procs -> AllCalls] /\ a \in AllCalls /\ at \in [Procs -> Places] /\ nxt \in [Procs -> Owners \cup {FREED, NONE}]
      /\ stranded \subseteq Procs
  BY DEF LockfInv, LockfBase, AllCalls
<1>2. lock' = [lock EXCEPT ![p] = a] /\ at' = [at EXCEPT ![p] = "call"] /\ at[p] = "idle"
      /\ i_lockf' = i_lockf /\ nxt' = nxt /\ stranded' = stranded
  BY DEF ufs_advlock
<1>3. lock' \in [Procs -> AllCalls] /\ lock'[p] = a /\ \A q \in Procs : q # p => lock'[q] = lock[q]
  BY <1>1, <1>2
<1>4. Turns(p, "call", {})
  BY <1>1, <1>2, <1>3 DEF Turns
<1>5. "call" \in {"idle", "call"}
  OBVIOUS
<1> QED
  BY <1>1, <1>2, <1>3, <1>4, <1>5, ListKept

LEMMA DeniedStep ==
  ASSUME LockfInv, NEW p \in Procs, setlock_eagain(p) \/ setlock_edeadlk(p)
  PROVE  LockfInv'
<1>1. nxt \in [Procs -> Owners \cup {FREED, NONE}] /\ stranded \subseteq Procs
  BY DEF LockfInv, LockfBase
<1>2. Return(p) /\ Go(p, "idle", {}, {}) /\ i_lockf' = i_lockf /\ at[p] # "asleep"
  BY DEF setlock_eagain, setlock_edeadlk, Blocked, Setting, Running
<1>3. at' = [q \in Procs |-> IF q = p THEN "idle" ELSE at[q]] /\ nxt' = [q \in Procs |-> nxt[q]] /\ stranded' = stranded
  BY <1>2 DEF Go
<1>4. nxt' = nxt
  BY <1>1, <1>3
<1> QED
  BY <1>1, <1>2, <1>3, <1>4, ReturnStep

\* p stood behind lock l, and is freed there.
FreedIn(l, p) == IF p \in l.blk THEN [l EXCEPT !.blk = (@ \ {p}) \cup {FREED}] ELSE l

LEMMA FreedIs ==
  ASSUME NEW l \in GoodLocks, NEW p \in Procs
  PROVE  /\ FreedIn(l, p) \in GoodLocks /\ SameRange(FreedIn(l, p), l) /\ p \notin FreedIn(l, p).blk
         /\ Within(FreedIn(l, p), l)
         /\ \A q \in Procs : q # p => (q \in FreedIn(l, p).blk <=> q \in l.blk)
<1>1. l \in LockRec /\ l.start <= Top(l.end) /\ l.blk \subseteq Chained
      /\ l.start \in Int /\ Top(l.end) \in Int
  BY LockIs DEF GoodLocks
<1>2. p # FREED /\ FREED \notin Procs
  BY NamesDiffer DEF Owners
<1>3. CASE p \in l.blk
  <2>1. PICK b : b = (l.blk \ {p}) \cup {FREED}
    OBVIOUS
  <2>2. b \in SUBSET Chained /\ p \notin b /\ \A q \in Procs : q # p => (q \in b <=> q \in l.blk)
    BY <1>1, <1>2, <2>1 DEF Chained
  <2>3. PICK x : x = [l EXCEPT !.blk = b]
    OBVIOUS
  <2>4. x \in LockRec /\ SameRange(x, l) /\ x.blk = b
    BY <1>1, <2>2, <2>3 DEF LockRec, SameRange
  <2>5. x \in GoodLocks
    BY <1>1, <2>4 DEF GoodLocks, SameRange
  <2>6. x = FreedIn(l, p)
    BY <1>3, <2>1, <2>3 DEF FreedIn
  <2>7. Within(x, l)
    BY <1>1, <2>2, <2>4 DEF Within, SameRange
  <2> QED
    BY <2>2, <2>4, <2>5, <2>6, <2>7
<1>4. CASE p \notin l.blk
  BY <1>1, <1>4 DEF FreedIn, SameRange, Within
<1> QED
  BY <1>3, <1>4

LEMMA EintrStep ==
  ASSUME LockfInv, NEW p \in Procs, setlock_eintr(p)
  PROVE  LockfInv'
<1>1. LockfBase /\ Chain(i_lockf) /\ Queued /\ SplitWaits
  BY DEF LockfInv
<1>2. nxt \in [Procs -> Owners \cup {FREED, NONE}] /\ stranded \subseteq Procs /\ at \in [Procs -> Places]
      /\ lock \in [Procs -> AllCalls] /\ NoCall \in AllCalls
  BY <1>1 DEF LockfBase, AllCalls
<1>3. at' = [q \in Procs |-> IF q = p THEN "idle" ELSE at[q]]
  BY <1>2 DEF setlock_eintr
<1>4. nxt' \in [Procs -> Owners \cup {FREED, NONE}] /\ stranded' = stranded \ {p}
  BY <1>2 DEF setlock_eintr
<1>5. lock' \in [Procs -> AllCalls] /\ lock'[p] = NoCall /\ \A q \in Procs : q # p => lock'[q] = lock[q]
  BY <1>2 DEF setlock_eintr, Return
<1>6. Turns(p, "idle", {})
  BY <1>3, <1>5 DEF Turns
<1>7. LockfBase'
  <2>1. "idle" \in Places
    BY DEF Places
  <2> QED
    BY <1>1, <1>2, <1>4, <1>5, <1>6, <2>1, BaseKept
<1>8. PICK t : t = i_lockf'
  OBVIOUS
<1>9. PICK n : n = Len(i_lockf)
  OBVIOUS
<1>10. /\ i_lockf \in Seq(GoodLocks) /\ n \in Nat /\ DOMAIN i_lockf = 1 .. n
       /\ \A i \in 1 .. n : i_lockf[i] \in GoodLocks
       /\ \A x : x \in Range(i_lockf) <=> \E i \in 1 .. n : i_lockf[i] = x
  BY <1>1, <1>9, ListIs
<1>11. t = [i \in 1 .. n |-> FreedIn(i_lockf[i], p)]
  BY <1>8, <1>10 DEF setlock_eintr, FreedIn
<1>12. \A i \in 1 .. n : t[i] = FreedIn(i_lockf[i], p) /\ t[i] \in GoodLocks /\ Within(t[i], i_lockf[i])
  BY <1>10, <1>11, FreedIs
<1>13. t \in Seq(GoodLocks) /\ Len(t) = n
  <2>1. t \in [1 .. n -> GoodLocks]
    BY <1>11, <1>12
  <2> QED
    BY <1>10, <2>1, IsSeq
<1>14. Chain(t)
  BY <1>1, <1>9, <1>12, <1>13, ShrunkChain DEF Shrunk
<1>15. \A x : x \in Range(t) <=> \E i \in 1 .. n : t[i] = x
  BY <1>13, <1>14, ListIs
<1>16. SplitWaits'
  <2>1. ASSUME NEW o PROVE Keeps(o)
    <3>1. ASSUME NEW x \in Range(i_lockf), x.own = o
          PROVE  \E y \in Range(t) : y.own = o /\ y.start = x.start /\ y.end = x.end
      <4>1. PICK i \in 1 .. n : i_lockf[i] = x
        BY <1>10
      <4>2. t[i] \in Range(t) /\ SameRange(t[i], x)
        BY <1>10, <1>12, <1>15, <4>1, FreedIs
      <4> QED
        BY <3>1, <4>2 DEF SameRange
    <3> QED
      BY <1>8, <3>1 DEF Keeps
  <2> QED
    BY <1>1, <1>6, <2>1, SplitKept
<1>17. ASSUME NEW y \in Range(t), NEW q \in Procs, q \in y.blk
       PROVE  at'[q] = "asleep" /\ (q \in stranded' \/ Blocks(y, lock'[q]))
  <2>1. PICK i \in 1 .. n : t[i] = y
    BY <1>15
  <2>2. i_lockf[i] \in GoodLocks /\ i_lockf[i] \in Range(i_lockf) /\ y = FreedIn(i_lockf[i], p)
    BY <1>10, <1>12, <2>1
  <2>3. q # p /\ q \in i_lockf[i].blk /\ SameRange(y, i_lockf[i]) /\ y \in GoodLocks
    BY <1>17, <2>2, FreedIs
  <2>4. at[q] = "asleep" /\ (q \in stranded \/ Blocks(i_lockf[i], lock[q]))
    BY <1>1, <2>2, <2>3 DEF Queued
  <2>5. at'[q] = "asleep" /\ lock'[q] = lock[q] /\ (q \in stranded => q \in stranded')
    BY <1>3, <1>4, <1>5, <2>3, <2>4
  <2>6. Blocks(i_lockf[i], lock[q]) => Blocks(y, lock[q])
    BY <2>3 DEF SameRange, Blocks, Own, ovcase
  <2> QED
    BY <2>4, <2>5, <2>6
<1>18. ASSUME NEW q \in Procs, at'[q] = "asleep" PROVE \E y \in Range(t) : q \in y.blk
  <2>1. q # p /\ at[q] = "asleep"
    BY <1>3, <1>18
  <2>2. PICK l \in Range(i_lockf) : q \in l.blk
    BY <1>1, <2>1 DEF Queued
  <2>3. PICK i \in 1 .. n : i_lockf[i] = l
    BY <1>10
  <2>4. q \in t[i].blk /\ t[i] \in Range(t)
    BY <1>10, <1>12, <1>15, <2>1, <2>2, <2>3, FreedIs
  <2> QED
    BY <2>4
<1>19. Queued'
  BY <1>8, <1>17, <1>18 DEF Queued
<1> QED
  BY <1>7, <1>8, <1>14, <1>16, <1>19 DEF LockfInv
-----------------------------------------------------------------------------
(* Setting a lock.                                                         *)

\* A step that changes the list: p goes to x, and those in w are woken.
LEMMA ListChanged ==
  ASSUME LockfInv, NEW p \in Procs, at[p] # "asleep", NEW x \in {"idle", "split"}, NEW w, Turns(p, x, w),
         Chain(i_lockf)', Carries(w), \A q \in Procs : q # p => Keeps(q),
         lock' \in [Procs -> AllCalls], nxt' \in [Procs -> Owners \cup {FREED, NONE}], stranded' \subseteq Procs,
         stranded \ (w \cup {p}) \subseteq stranded',
         x = "idle" => lock'[p] = NoCall,
         x = "split" => /\ lock'[p] \in Calls(p) /\ lock'[p].own = p
                        /\ lock'[p].type = "UN" => \E y \in Range(i_lockf') : y.own = p /\ Around(y, lock'[p])
  PROVE  LockfInv'
<1>1. LockfBase /\ Chain(i_lockf) /\ Queued /\ SplitWaits
  BY DEF LockfInv
<1>2. x \in Places /\ x # "asleep" /\ x \notin {"asleep", "woken"}
  BY DEF Places
<1>3. LockfBase'
  BY <1>1, <1>2, BaseKept
<1>4. SplitWaits'
  BY <1>1, SplitKept
<1>5. Queued'
  BY <1>1, <1>2, QueuedKept
<1> QED
  BY <1>3, <1>4, <1>5 DEF LockfInv

LEMMA GoIs ==
  ASSUME LockfBase, NEW p \in Procs, NEW x, NEW w, NEW s, Go(p, x, w, s), \A q \in Procs : q # p => lock'[q] = lock[q]
  PROVE  /\ Turns(p, x, w)
         /\ nxt' \in [Procs -> Owners \cup {FREED, NONE}] /\ stranded' \subseteq Procs
         /\ stranded \ (w \cup {p}) \subseteq stranded'
<1>1. nxt \in [Procs -> Owners \cup {FREED, NONE}] /\ stranded \subseteq Procs
  BY DEF LockfBase
<1>2. Turns(p, x, w) /\ stranded' = stranded \ w
  BY DEF Go, Turns
<1>3. nxt' = [q \in Procs |-> IF q \in w THEN NONE ELSE IF q \in s THEN FREED ELSE nxt[q]]
  BY DEF Go
<1>4. \A q \in Procs : (IF q \in w THEN NONE ELSE IF q \in s THEN FREED ELSE nxt[q]) \in Owners \cup {FREED, NONE}
  BY <1>1
<1>5. nxt' \in [Procs -> Owners \cup {FREED, NONE}]
  BY <1>3, <1>4
<1> QED
  BY <1>1, <1>2, <1>5

\* A lock that covers at least what x covers, of its owner and not weaker, blocks what x blocks.
LEMMA BlocksToo ==
  ASSUME NEW x \in GoodLocks, NEW y \in GoodLocks, NEW c, IsCall(c), Blocks(x, c),
         y.own = x.own, x.type = "WR" => y.type = "WR", y.start <= x.start, Top(x.end) <= Top(y.end)
  PROVE  Blocks(y, c)
<1>1. ~Own(x, c) /\ Meets(x, c) /\ (c.type = "WR" \/ x.type = "WR")
  BY OverlapIs DEF Blocks
<1>2. /\ x.start \in Int /\ Top(x.end) \in Int /\ y.start \in Int /\ Top(y.end) \in Int
      /\ c.start \in Int /\ Top(c.end) \in Int
  BY LockIs, CallIs
<1>3. Meets(y, c)
  BY <1>1, <1>2 DEF Meets
<1>4. ~Own(y, c)
  BY <1>1 DEF Own
<1> QED
  BY <1>1, <1>3, <1>4, OverlapIs DEF Blocks

\* The requests behind the overlaps: those that the new lock takes over and the rest.
LEMMA BlockedOnIs == ASSUME NEW s PROVE \A q : q \in BlockedOn(s) <=> \E i \in s : q \in i_lockf[i].blk
BY DEF BlockedOn

LEMMA OverlapsRest ==
  ASSUME Chain(i_lockf), NEW a, IsCall(a)
  PROVE  /\ Chain(Rest(a)) /\ Len(Rest(a)) = Len(i_lockf) /\ Len(i_lockf) \in Nat
         /\ \A i \in 1 .. Len(i_lockf) : IF i \in SelfOverlaps(a)
              THEN OwnMeets(Rest(a)[i], a) /\ SameRange(Rest(a)[i], i_lockf[i]) /\ Rest(a)[i].blk = {}
              ELSE ~OwnMeets(Rest(a)[i], a) /\ Rest(a)[i] = i_lockf[i]
         /\ \A x : x \in Range(i_lockf) <=> \E i \in 1 .. Len(i_lockf) : i_lockf[i] = x
         /\ \A x : x \in Range(Rest(a)) <=> \E i \in 1 .. Len(i_lockf) : Rest(a)[i] = x
<1>1. PICK r : r = Rest(a)
  OBVIOUS
<1>2. /\ Chain(r) /\ Len(r) = Len(i_lockf)
      /\ \A i \in 1 .. Len(i_lockf) :
              /\ SameRange(r[i], i_lockf[i])
              /\ i \in SelfOverlaps(a) => r[i].blk = {}
              /\ i \notin SelfOverlaps(a) => r[i] = i_lockf[i]
  BY <1>1, UnblockedIs DEF Rest
<1>3. \A i \in 1 .. Len(i_lockf) : i \in SelfOverlaps(a) <=> OwnMeets(i_lockf[i], a)
  BY OverlapsAre
<1>4. \A i \in 1 .. Len(i_lockf) : OwnMeets(r[i], a) <=> OwnMeets(i_lockf[i], a)
  BY <1>2 DEF OwnMeets, Own, Meets, SameRange
<1>5. Len(i_lockf) \in Nat /\ \A x : x \in Range(i_lockf) <=> \E i \in 1 .. Len(i_lockf) : i_lockf[i] = x
  BY ListIs
<1>6. \A x : x \in Range(r) <=> \E i \in 1 .. Len(r) : r[i] = x
  BY <1>2, ListIs
<1> QED
  BY <1>1, <1>2, <1>3, <1>4, <1>5, <1>6

\* The new lock in its place: what waited behind what it replaces waits behind it or is woken.
LEMMA PartedKept ==
  ASSUME LockfInv, NEW a, IsCall(a), a.type # "UN", IsParted(i_lockf', Rest(a), a, NewOf(a)),
         NEW w, w = BlockedOn(SelfOverlaps(a) \ TakenOver(a))
  PROVE  /\ Chain(i_lockf)' /\ Carries(w)
         /\ \A o : o # a.own => Keeps(o)
<1>1. LockfBase /\ Chain(i_lockf) /\ Queued
  BY DEF LockfInv
<1>2. PICK t : t = i_lockf'
  OBVIOUS
<1>3. PICK n : n = NewOf(a)
  OBVIOUS
<1>4. PICK r : r = Rest(a)
  OBVIOUS
<1>5. /\ Chain(t) /\ n \in Range(t)
      /\ \A y \in Range(t) : y = n \/ \E l \in Range(r) : PieceOf(y, l, a)
      /\ \A l \in Range(r) : HasPieces(Range(t), l, a)
  BY <1>2, <1>3, <1>4 DEF IsParted
<1>6. /\ Len(i_lockf) \in Nat
      /\ \A i \in 1 .. Len(i_lockf) : IF i \in SelfOverlaps(a)
              THEN OwnMeets(r[i], a) /\ SameRange(r[i], i_lockf[i]) /\ r[i].blk = {}
              ELSE ~OwnMeets(r[i], a) /\ r[i] = i_lockf[i]
      /\ \A x : x \in Range(i_lockf) <=> \E i \in 1 .. Len(i_lockf) : i_lockf[i] = x
      /\ \A x : x \in Range(r) <=> \E i \in 1 .. Len(i_lockf) : r[i] = x
  BY <1>1, <1>4, OverlapsRest
<1>7. \A i \in 1 .. Len(i_lockf) : i \notin SelfOverlaps(a) => i_lockf[i] \in Range(t)
  <2> TAKE i \in 1 .. Len(i_lockf)
  <2>1. HAVE i \notin SelfOverlaps(a)
  <2>2. r[i] \in Range(r) /\ ~OwnMeets(r[i], a) /\ r[i] = i_lockf[i]
    BY <1>6, <2>1
  <2> QED
    BY <1>5, <2>2 DEF HasPieces
<1>8. /\ SelfOverlaps(a) \subseteq 1 .. Len(i_lockf) /\ \A i \in 1 .. Len(i_lockf) : i_lockf[i] \in GoodLocks
      /\ \A i \in SelfOverlaps(a) : OwnMeets(i_lockf[i], a)
  BY <1>1, OverlapsAre, ListIs
<1>9. BlockedOn(TakenOver(a)) \in SUBSET Chained
  <2>1. \A i \in TakenOver(a) : i_lockf[i].blk \subseteq Chained
    BY <1>8, LockIs DEF TakenOver
  <2> QED
    BY <2>1, BlockedOnIs
<1>10. /\ n \in GoodLocks /\ n.own = a.own /\ n.type = a.type
       /\ n.start = a.start /\ n.end = a.end /\ n.blk = BlockedOn(TakenOver(a))
  BY <1>3, <1>9, NewIsLock DEF NewOf
<1>11. ASSUME NEW o, o # a.own PROVE Keeps(o)
  <2>1. ASSUME NEW x \in Range(i_lockf), x.own = o
        PROVE  \E y \in Range(t) : y.own = o /\ y.start = x.start /\ y.end = x.end
    <3>1. PICK i \in 1 .. Len(i_lockf) : i_lockf[i] = x
      BY <1>6
    <3>2. i \notin SelfOverlaps(a)
      BY <1>8, <1>11, <2>1, <3>1 DEF OwnMeets, Own
    <3> QED
      BY <1>7, <2>1, <3>1, <3>2
  <2> QED
    BY <1>2, <2>1 DEF Keeps
<1>12. Carries(w)
  <2>1. ASSUME NEW y \in Range(t), NEW q \in Procs, q \in y.blk
        PROVE  q \notin w /\ \E x \in Range(i_lockf) : q \in x.blk /\ (Blocks(x, lock[q]) => Blocks(y, lock[q]))
    <3>1. CASE y = n
      <4>1. PICK i \in TakenOver(a) : q \in i_lockf[i].blk
        BY <1>10, <2>1, <3>1, BlockedOnIs
      <4>2. PICK x : x = i_lockf[i]
        OBVIOUS
      <4>3. i \in SelfOverlaps(a) /\ i \in 1 .. Len(i_lockf) /\ ovcase(x, a) = 3 /\ ~Downgrades(x, a)
            /\ x \in GoodLocks /\ x \in Range(i_lockf) /\ x.own = a.own /\ q \in x.blk
        BY <1>6, <1>8, <4>1, <4>2 DEF TakenOver, OwnMeets, Own
      <4>4. a.start <= x.start /\ Top(x.end) <= Top(a.end)
        BY <4>3, OverlapIs
      <4>5. x.type = "WR" => a.type = "WR"
        BY <4>3, CallIs DEF Downgrades
      <4>6. at[q] = "asleep"
        BY <1>1, <2>1, <4>3 DEF Queued
      <4>7. IsCall(lock[q])
        BY <1>1, <2>1, <4>6, CallOf
      <4>8. Blocks(x, lock[q]) => Blocks(y, lock[q])
        BY <1>10, <3>1, <4>3, <4>4, <4>5, <4>7, BlocksToo
      <4>9. q \notin w
        <5>1. ASSUME q \in w PROVE FALSE
          <6>1. PICK j \in SelfOverlaps(a) \ TakenOver(a) : q \in i_lockf[j].blk
            BY <5>1, BlockedOnIs
          <6>2. j # i /\ j \in 1 .. Len(i_lockf)
            BY <1>8, <4>1, <6>1
          <6>3. (i_lockf[i].blk \cap i_lockf[j].blk) \cap Procs = {}
            BY <1>1, <4>3, <6>2, BlkApart
          <6> QED
            BY <2>1, <4>1, <6>1, <6>3
        <5> QED
          BY <5>1
      <4> QED
        BY <4>3, <4>8, <4>9
    <3>2. CASE y # n
      <4>1. PICK l \in Range(r) : PieceOf(y, l, a)
        BY <1>5, <3>2
      <4>2. PICK i \in 1 .. Len(i_lockf) : r[i] = l
        BY <1>6
      <4>3. CASE i \in SelfOverlaps(a)
        <5>1. OwnMeets(l, a) /\ l.blk = {}
          BY <1>6, <4>2, <4>3
        <5>2. y.blk = {}
          BY <4>1, <5>1 DEF PieceOf, FrontOf, BackOf
        <5> QED
          BY <2>1, <5>2
      <4>4. CASE i \notin SelfOverlaps(a)
        <5>1. y = i_lockf[i] /\ y \in Range(i_lockf)
          BY <1>6, <4>1, <4>2, <4>4 DEF PieceOf
        <5>2. ASSUME q \in w PROVE FALSE
          <6>1. PICK j \in SelfOverlaps(a) \ TakenOver(a) : q \in i_lockf[j].blk
            BY <5>2, BlockedOnIs
          <6>2. j # i /\ j \in 1 .. Len(i_lockf)
            BY <1>8, <4>4, <6>1
          <6>3. (i_lockf[i].blk \cap i_lockf[j].blk) \cap Procs = {}
            BY <1>1, <6>2, BlkApart
          <6> QED
            BY <2>1, <5>1, <6>1, <6>3
        <5> QED
          BY <2>1, <5>1, <5>2
      <4> QED
        BY <4>3, <4>4
    <3> QED
      BY <3>1, <3>2
  <2>2. ASSUME NEW x \in Range(i_lockf), NEW q \in Procs, q \in x.blk PROVE q \in w \/ \E y \in Range(t) : q \in y.blk
    <3>1. PICK i \in 1 .. Len(i_lockf) : i_lockf[i] = x
      BY <1>6
    <3>2. CASE i \notin SelfOverlaps(a)
      BY <1>7, <2>2, <3>1, <3>2
    <3>3. CASE i \in TakenOver(a)
      <4>1. q \in n.blk
        BY <1>10, <2>2, <3>1, <3>3, BlockedOnIs
      <4> QED
        BY <1>5, <4>1
    <3>4. CASE i \in SelfOverlaps(a) \ TakenOver(a)
      BY <2>2, <3>1, <3>4, BlockedOnIs
    <3> QED
      BY <3>2, <3>3, <3>4
  <2> QED
    BY <1>2, <2>1, <2>2 DEF Carries
<1>13. Chain(i_lockf)'
  BY <1>2, <1>5
<1> QED
  BY <1>11, <1>12, <1>13

\* The lock with the same range: its type changes.
LEMMA RetypedKept ==
  ASSUME LockfInv, NEW a, IsCall(a), a.type # "UN", NEW k, SelfOverlaps(a) = {k}, IsRetyped(i_lockf', i_lockf, a, k),
         NEW w, w = IF Downgrades(i_lockf[k], a) THEN i_lockf[k].blk ELSE {}
  PROVE  /\ Chain(i_lockf)' /\ Carries(w)
         /\ \A o : o # a.own => Keeps(o)
<1>1. LockfBase /\ Chain(i_lockf) /\ Queued
  BY DEF LockfInv
<1>2. PICK t : t = i_lockf'
  OBVIOUS
<1>3. /\ Chain(t) /\ Len(t) = Len(i_lockf) /\ k \in 1 .. Len(i_lockf)
      /\ \A i \in 1 .. Len(i_lockf) : i # k => t[i] = i_lockf[i]
      /\ t[k].own = i_lockf[k].own /\ t[k].type = a.type /\ t[k].start = i_lockf[k].start /\ t[k].end = i_lockf[k].end
      /\ t[k].blk = IF Downgrades(i_lockf[k], a) THEN {} ELSE i_lockf[k].blk
  BY <1>2 DEF IsRetyped
<1>4. /\ Len(i_lockf) \in Nat
      /\ \A x : x \in Range(i_lockf) <=> \E i \in 1 .. Len(i_lockf) : i_lockf[i] = x
      /\ \A x : x \in Range(t) <=> \E i \in 1 .. Len(i_lockf) : t[i] = x
      /\ \A i \in 1 .. Len(i_lockf) : i_lockf[i] \in GoodLocks /\ t[i] \in GoodLocks
  BY <1>1, <1>3, ListIs
<1>5. ASSUME NEW o PROVE Keeps(o)
  <2>1. ASSUME NEW x \in Range(i_lockf), x.own = o
        PROVE  \E y \in Range(t) : y.own = o /\ y.start = x.start /\ y.end = x.end
    <3>1. PICK i \in 1 .. Len(i_lockf) : i_lockf[i] = x
      BY <1>4
    <3>2. t[i] \in Range(t) /\ t[i].own = x.own /\ t[i].start = x.start /\ t[i].end = x.end
      BY <1>3, <1>4, <3>1
    <3> QED
      BY <2>1, <3>2
  <2> QED
    BY <1>2, <2>1 DEF Keeps
<1>6. Carries(w)
  <2>1. ASSUME NEW i \in 1 .. Len(i_lockf), NEW q \in Procs, q \in t[i].blk
        PROVE  q \notin w /\ q \in i_lockf[i].blk /\ (Blocks(i_lockf[i], lock[q]) => Blocks(t[i], lock[q]))
    <3>1. CASE i # k
      <4>1. t[i] = i_lockf[i] /\ (i_lockf[i].blk \cap i_lockf[k].blk) \cap Procs = {}
        BY <1>1, <1>3, <3>1, BlkApart
      <4> QED
        BY <2>1, <4>1
    <3>2. CASE i = k
      <4>1. ~Downgrades(i_lockf[k], a) /\ q \in i_lockf[k].blk /\ w = {}
        BY <1>3, <2>1, <3>2
      <4>2. i_lockf[k].type = "WR" => t[k].type = "WR"
        BY <1>3, <4>1, CallIs DEF Downgrades
      <4>3. at[q] = "asleep"
        BY <1>1, <1>3, <1>4, <2>1, <4>1 DEF Queued
      <4>4. IsCall(lock[q])
        BY <1>1, <2>1, <4>3, CallOf
      <4>5. i_lockf[k].start \in Int /\ Top(i_lockf[k].end) \in Int
        BY <1>3, <1>4, LockIs
      <4>6. t[k].start <= i_lockf[k].start /\ Top(i_lockf[k].end) <= Top(t[k].end)
        BY <1>3, <4>5
      <4>7. Blocks(i_lockf[k], lock[q]) => Blocks(t[k], lock[q])
        BY <1>3, <1>4, <4>2, <4>4, <4>6, BlocksToo
      <4> QED
        BY <3>2, <4>1, <4>7
    <3> QED
      BY <3>1, <3>2
  <2>2. ASSUME NEW y \in Range(t), NEW q \in Procs, q \in y.blk
        PROVE  q \notin w /\ \E x \in Range(i_lockf) : q \in x.blk /\ (Blocks(x, lock[q]) => Blocks(y, lock[q]))
    <3>1. PICK i \in 1 .. Len(i_lockf) : t[i] = y
      BY <1>4
    <3>2. i_lockf[i] \in Range(i_lockf)
      BY <1>4
    <3> QED
      BY <2>1, <2>2, <3>1, <3>2
  <2>3. ASSUME NEW x \in Range(i_lockf), NEW q \in Procs, q \in x.blk PROVE q \in w \/ \E y \in Range(t) : q \in y.blk
    <3>1. PICK i \in 1 .. Len(i_lockf) : i_lockf[i] = x
      BY <1>4
    <3>2. t[i] \in Range(t)
      BY <1>4
    <3>3. i # k \/ ~Downgrades(i_lockf[k], a) => t[i].blk = x.blk
      BY <1>3, <3>1
    <3>4. i = k /\ Downgrades(i_lockf[k], a) => q \in w
      BY <2>3, <3>1
    <3> QED
      BY <2>3, <3>2, <3>3, <3>4
  <2> QED
    BY <1>2, <2>2, <2>3 DEF Carries
<1>7. Chain(i_lockf)'
  BY <1>2, <1>3
<1> QED
  BY <1>5, <1>6, <1>7

\* Which requests setting a lock wakes.
LEMMA LinkWakesIs ==
  ASSUME Chain(i_lockf), NEW a, IsCall(a), a.type # "UN"
  PROVE  /\ (\A i \in SelfOverlaps(a) :
                 /\ ovcase(i_lockf[i], a) # 1
                 /\ ovcase(i_lockf[i], a) = 2 => i_lockf[i].type # a.type)
              => LinkWakes(a) = BlockedOn(SelfOverlaps(a) \ TakenOver(a))
         /\ \A k : SelfOverlaps(a) = {k} /\ ovcase(i_lockf[k], a) = 1
              => LinkWakes(a) = IF Downgrades(i_lockf[k], a) THEN i_lockf[k].blk ELSE {}
         /\ \A k : SelfOverlaps(a) = {k} /\ ovcase(i_lockf[k], a) = 2 /\ i_lockf[k].type = a.type
              => LinkWakes(a) = {}
<1> DEFINE Woken(i) == CASE ovcase(i_lockf[i], a) = 1 -> Downgrades(i_lockf[i], a)
                         [] ovcase(i_lockf[i], a) = 2 -> i_lockf[i].type # a.type
                         [] OTHER -> TRUE
           W == {i \in SelfOverlaps(a) \ TakenOver(a) : Woken(i)}
<1>1. LinkWakes(a) = BlockedOn(W)
  BY DEF LinkWakes, LinkWaked
<1>2. \A i : /\ ovcase(i_lockf[i], a) = 1 => (Woken(i) <=> Downgrades(i_lockf[i], a))
             /\ ovcase(i_lockf[i], a) = 2 => (Woken(i) <=> i_lockf[i].type # a.type)
             /\ ovcase(i_lockf[i], a) # 1 /\ ovcase(i_lockf[i], a) # 2 => Woken(i)
  <2> TAKE i
  <2>1. CASE ovcase(i_lockf[i], a) = 1
    <3>1. ovcase(i_lockf[i], a) # 2
      BY <2>1
    <3> QED
      BY <2>1, <3>1
  <2>2. CASE ovcase(i_lockf[i], a) = 2
    BY <2>2
  <2>3. CASE ovcase(i_lockf[i], a) # 1 /\ ovcase(i_lockf[i], a) # 2
    BY <2>3
  <2> QED
    BY <2>1, <2>2, <2>3
<1> HIDE DEF Woken
<1>3. ASSUME \A i \in SelfOverlaps(a) :
                 /\ ovcase(i_lockf[i], a) # 1
                 /\ ovcase(i_lockf[i], a) = 2 => i_lockf[i].type # a.type
      PROVE  LinkWakes(a) = BlockedOn(SelfOverlaps(a) \ TakenOver(a))
  <2>1. \A i \in SelfOverlaps(a) : Woken(i)
    BY <1>2, <1>3
  <2>2. W = SelfOverlaps(a) \ TakenOver(a)
    BY <2>1
  <2> QED
    BY <1>1, <2>2
<1>4. \A i \in TakenOver(a) : ovcase(i_lockf[i], a) = 3
  BY DEF TakenOver
<1>5. ASSUME NEW k, SelfOverlaps(a) = {k}, ovcase(i_lockf[k], a) = 1
      PROVE  LinkWakes(a) = IF Downgrades(i_lockf[k], a) THEN i_lockf[k].blk ELSE {}
  <2>1. k \notin TakenOver(a)
    BY <1>4, <1>5
  <2>2. W = IF Downgrades(i_lockf[k], a) THEN {k} ELSE {}
    BY <1>2, <1>5, <2>1
  <2>3. CASE Downgrades(i_lockf[k], a)
    <3>1. LinkWakes(a) = BlockedOn({k})
      BY <1>1, <2>2, <2>3
    <3>2. \A q : q \in BlockedOn({k}) <=> \E i \in {k} : q \in i_lockf[i].blk
      BY BlockedOnIs
    <3>3. BlockedOn({k}) = i_lockf[k].blk
      BY <3>2
    <3> QED
      BY <2>3, <3>1, <3>3
  <2>4. CASE ~Downgrades(i_lockf[k], a)
    <3>1. LinkWakes(a) = BlockedOn({})
      BY <1>1, <2>2, <2>4
    <3>2. BlockedOn({}) = {}
      BY BlockedOnIs
    <3> QED
      BY <2>4, <3>1, <3>2
  <2> QED
    BY <2>3, <2>4
<1>6. ASSUME NEW k, SelfOverlaps(a) = {k}, ovcase(i_lockf[k], a) = 2, i_lockf[k].type = a.type
      PROVE  LinkWakes(a) = {}
  <2>1. W = {}
    BY <1>2, <1>6
  <2>2. BlockedOn({}) = {}
    BY BlockedOnIs
  <2> QED
    BY <1>1, <2>1, <2>2
<1> QED
  BY <1>3, <1>5, <1>6

LEMMA LinkStep ==
  ASSUME LockfInv, NEW p \in Procs, at[p] \in {"call", "woken", "split"}, lock[p].type # "UN", Link(p)
  PROVE  LockfInv'
<1>1. LockfBase /\ Chain(i_lockf)
  BY DEF LockfInv
<1>2. PICK a : a = lock[p]
  OBVIOUS
<1>3. a \in Calls(p) /\ IsCall(a) /\ a.type # "UN" /\ (a.own \in Procs => a.own = p)
  BY <1>1, <1>2, CallOf, CallsAre
<1>4. PICK w : w = LinkWakes(a)
  OBVIOUS
<1>5. PICK s : s = BlockedOn(TakenOver(a))
  OBVIOUS
<1>6. i_lockf' = Linked(a) /\ Return(p) /\ Go(p, "idle", w, s)
  BY <1>2, <1>4, <1>5 DEF Link
<1>7. lock \in [Procs -> AllCalls] /\ NoCall \in AllCalls
  BY <1>1 DEF LockfBase, AllCalls
<1>8. lock' \in [Procs -> AllCalls] /\ lock'[p] = NoCall /\ \A q \in Procs : q # p => lock'[q] = lock[q]
  BY <1>6, <1>7 DEF Return
<1>9. /\ Turns(p, "idle", w) /\ nxt' \in [Procs -> Owners \cup {FREED, NONE}] /\ stranded' \subseteq Procs
      /\ stranded \ (w \cup {p}) \subseteq stranded'
  BY <1>1, <1>6, <1>8, GoIs
<1>10. /\ Chain(i_lockf)' /\ Carries(w) /\ \A o : o # a.own => Keeps(o)
  <2>1. CASE /\ IsParted(Linked(a), Rest(a), a, NewOf(a))
             /\ \A i \in SelfOverlaps(a) :
                 /\ ovcase(i_lockf[i], a) # 1
                 /\ ovcase(i_lockf[i], a) = 2 => i_lockf[i].type # a.type
    <3>1. w = BlockedOn(SelfOverlaps(a) \ TakenOver(a))
      BY <1>1, <1>3, <1>4, <2>1, LinkWakesIs
    <3>2. IsParted(i_lockf', Rest(a), a, NewOf(a))
      BY <1>6, <2>1
    <3> QED
      BY <1>3, <3>1, <3>2, PartedKept
  <2>2. ASSUME NEW k, SelfOverlaps(a) = {k}, ovcase(i_lockf[k], a) = 1, IsRetyped(Linked(a), i_lockf, a, k)
        PROVE  /\ Chain(i_lockf)' /\ Carries(w) /\ \A o : o # a.own => Keeps(o)
    <3>1. w = IF Downgrades(i_lockf[k], a) THEN i_lockf[k].blk ELSE {}
      BY <1>1, <1>3, <1>4, <2>2, LinkWakesIs
    <3>2. IsRetyped(i_lockf', i_lockf, a, k)
      BY <1>6, <2>2
    <3> QED
      BY <1>3, <2>2, <3>1, <3>2, RetypedKept
  <2>3. ASSUME NEW k, SelfOverlaps(a) = {k}, ovcase(i_lockf[k], a) = 2, i_lockf[k].type = a.type, Linked(a) = i_lockf
        PROVE  /\ Chain(i_lockf)' /\ Carries(w) /\ \A o : o # a.own => Keeps(o)
    <3>1. w = {}
      BY <1>1, <1>3, <1>4, <2>3, LinkWakesIs
    <3>2. i_lockf' = i_lockf
      BY <1>6, <2>3
    <3>3. Carries(w) /\ \A o : Keeps(o)
      BY <3>1, <3>2 DEF Carries, Keeps
    <3>4. Chain(i_lockf)'
      BY <1>1, <3>2
    <3> QED
      BY <3>3, <3>4
  <2>4. \/ /\ IsParted(Linked(a), Rest(a), a, NewOf(a))
           /\ \A i \in SelfOverlaps(a) :
                 /\ ovcase(i_lockf[i], a) # 1
                 /\ ovcase(i_lockf[i], a) = 2 => i_lockf[i].type # a.type
        \/ \E k : SelfOverlaps(a) = {k} /\ ovcase(i_lockf[k], a) = 1 /\ IsRetyped(Linked(a), i_lockf, a, k)
        \/ \E k : /\ SelfOverlaps(a) = {k} /\ ovcase(i_lockf[k], a) = 2
                  /\ i_lockf[k].type = a.type /\ Linked(a) = i_lockf
    BY <1>1, <1>3, LinkedIs
  <2> QED
    BY <2>1, <2>2, <2>3, <2>4
<1>11. \A q \in Procs : q # p => Keeps(q)
  BY <1>3, <1>10
<1>12. at[p] # "asleep" /\ "idle" \in {"idle", "split"}
  OBVIOUS
<1> QED
  BY <1>8, <1>9, <1>10, <1>11, <1>12, ListChanged

-----------------------------------------------------------------------------
(* Clearing a lock, at once or after a sleep in the middle.                *)

\* Everyone behind the overlaps is woken, and no other lock changes.
LEMMA WakesAll ==
  ASSUME LockfInv, NEW a, IsCall(a), NEW w, w = BlockedOn(SelfOverlaps(a)), Chain(i_lockf)',
         \A y \in Range(i_lockf') : \/ y.blk = {}
                                    \/ \E i \in 1 .. Len(i_lockf) : i \notin SelfOverlaps(a) /\ y = i_lockf[i],
         \A i \in 1 .. Len(i_lockf) : i \notin SelfOverlaps(a) => i_lockf[i] \in Range(i_lockf')
  PROVE  Carries(w) /\ \A o : o # a.own => Keeps(o)
<1>1. Chain(i_lockf)
  BY DEF LockfInv
<1>2. PICK t : t = i_lockf'
  OBVIOUS
<1>3. /\ Len(i_lockf) \in Nat
      /\ \A x : x \in Range(i_lockf) <=> \E i \in 1 .. Len(i_lockf) : i_lockf[i] = x
      /\ SelfOverlaps(a) \subseteq 1 .. Len(i_lockf)
      /\ \A i \in SelfOverlaps(a) : OwnMeets(i_lockf[i], a)
  BY <1>1, ListIs, OverlapsAre
<1>4. ASSUME NEW o, o # a.own PROVE Keeps(o)
  <2>1. ASSUME NEW x \in Range(i_lockf), x.own = o PROVE x \in Range(t)
    <3>1. PICK i \in 1 .. Len(i_lockf) : i_lockf[i] = x
      BY <1>3
    <3>2. i \notin SelfOverlaps(a)
      BY <1>3, <1>4, <2>1, <3>1 DEF OwnMeets, Own
    <3> QED
      BY <1>2, <3>1, <3>2
  <2> QED
    BY <1>2, <2>1 DEF Keeps
<1>5. Carries(w)
  <2>1. ASSUME NEW y \in Range(t), NEW q \in Procs, q \in y.blk
        PROVE  q \notin w /\ \E x \in Range(i_lockf) : q \in x.blk /\ x = y
    <3>1. PICK i \in 1 .. Len(i_lockf) : i \notin SelfOverlaps(a) /\ y = i_lockf[i]
      BY <1>2, <2>1
    <3>2. ASSUME q \in w PROVE FALSE
      <4>1. PICK j \in SelfOverlaps(a) : q \in i_lockf[j].blk
        BY <3>2, BlockedOnIs
      <4>2. j # i /\ j \in 1 .. Len(i_lockf)
        BY <1>3, <3>1, <4>1
      <4>3. (i_lockf[i].blk \cap i_lockf[j].blk) \cap Procs = {}
        BY <1>1, <4>2, BlkApart
      <4> QED
        BY <2>1, <3>1, <4>1, <4>3
    <3> QED
      BY <1>3, <2>1, <3>1, <3>2
  <2>2. ASSUME NEW x \in Range(i_lockf), NEW q \in Procs, q \in x.blk PROVE q \in w \/ \E y \in Range(t) : q \in y.blk
    <3>1. PICK i \in 1 .. Len(i_lockf) : i_lockf[i] = x
      BY <1>3
    <3>2. CASE i \in SelfOverlaps(a)
      BY <2>2, <3>1, <3>2, BlockedOnIs
    <3>3. CASE i \notin SelfOverlaps(a)
      BY <1>2, <2>2, <3>1, <3>3
    <3> QED
      BY <3>2, <3>3
  <2> QED
    BY <1>2, <2>1, <2>2 DEF Carries
<1> QED
  BY <1>4, <1>5

LEMMA ClearStep ==
  ASSUME LockfInv, NEW p \in Procs, clearlock(p)
  PROVE  LockfInv'
<1>1. LockfBase /\ Chain(i_lockf)
  BY DEF LockfInv
<1>2. PICK a : a = lock[p]
  OBVIOUS
<1>3. PICK w : w = BlockedOn(SelfOverlaps(a))
  OBVIOUS
<1>4. /\ i_lockf' = Trimmed(Rest(a), a) /\ Return(p) /\ Go(p, "idle", w, {})
      /\ at[p] \in {"call", "woken"}
  BY <1>2, <1>3 DEF clearlock, Running, Rest
<1>5. a \in Calls(p) /\ IsCall(a) /\ (a.own \in Procs => a.own = p)
  BY <1>1, <1>2, <1>4, CallOf, CallsAre
<1>6. lock \in [Procs -> AllCalls] /\ NoCall \in AllCalls
  BY <1>1 DEF LockfBase, AllCalls
<1>7. lock' \in [Procs -> AllCalls] /\ lock'[p] = NoCall /\ \A q \in Procs : q # p => lock'[q] = lock[q]
  BY <1>4, <1>6 DEF Return
<1>8. /\ Turns(p, "idle", w) /\ nxt' \in [Procs -> Owners \cup {FREED, NONE}] /\ stranded' \subseteq Procs
      /\ stranded \ (w \cup {p}) \subseteq stranded'
  BY <1>1, <1>4, <1>7, GoIs
<1>9. PICK t : t = i_lockf'
  OBVIOUS
<1>10. PICK r : r = Rest(a)
  OBVIOUS
<1>11. /\ Chain(r) /\ Len(i_lockf) \in Nat
       /\ \A i \in 1 .. Len(i_lockf) : IF i \in SelfOverlaps(a)
            THEN OwnMeets(r[i], a) /\ r[i].blk = {}
            ELSE ~OwnMeets(r[i], a) /\ r[i] = i_lockf[i]
       /\ \A x : x \in Range(r) <=> \E i \in 1 .. Len(i_lockf) : r[i] = x
  BY <1>1, <1>5, <1>10, OverlapsRest
<1>12. /\ Chain(t) /\ \A x \in Range(t) : \E l \in Range(r) : PieceOf(x, l, a)
       /\ \A l \in Range(r) : HasPieces(Range(t), l, a)
  <2>1. IsTrimmed(Trimmed(r, a), r, a)
    BY <1>5, <1>11, TrimmedIs
  <2> QED
    BY <1>4, <1>9, <1>10, <2>1 DEF IsTrimmed
<1>13. ASSUME NEW y \in Range(t)
       PROVE  y.blk = {} \/ \E i \in 1 .. Len(i_lockf) : i \notin SelfOverlaps(a) /\ y = i_lockf[i]
  <2>1. PICK l \in Range(r) : PieceOf(y, l, a)
    BY <1>12
  <2>2. PICK i \in 1 .. Len(i_lockf) : r[i] = l
    BY <1>11
  <2>3. CASE i \in SelfOverlaps(a)
    <3>1. OwnMeets(l, a) /\ l.blk = {}
      BY <1>11, <2>2, <2>3
    <3> QED
      BY <2>1, <3>1 DEF PieceOf, FrontOf, BackOf
  <2>4. CASE i \notin SelfOverlaps(a)
    BY <1>11, <2>1, <2>2, <2>4 DEF PieceOf
  <2> QED
    BY <2>3, <2>4
<1>14. ASSUME NEW i \in 1 .. Len(i_lockf), i \notin SelfOverlaps(a) PROVE i_lockf[i] \in Range(t)
  <2>1. r[i] \in Range(r) /\ ~OwnMeets(r[i], a) /\ r[i] = i_lockf[i]
    BY <1>11, <1>14
  <2> QED
    BY <1>12, <2>1 DEF HasPieces
<1>15. Chain(i_lockf)'
  BY <1>9, <1>12
<1>16. Carries(w) /\ \A o : o # a.own => Keeps(o)
  BY <1>3, <1>5, <1>9, <1>13, <1>14, <1>15, WakesAll
<1>17. \A q \in Procs : q # p => Keeps(q)
  BY <1>5, <1>16
<1>18. at[p] # "asleep" /\ "idle" \in {"idle", "split"}
  BY <1>4
<1> QED
  BY <1>7, <1>8, <1>15, <1>16, <1>17, <1>18, ListChanged

\* A lock that is split lies around the range, which flock() never asks for.
LEMMA SplitsAround ==
  ASSUME LockfInv, NEW p \in Procs, at[p] # "idle", Splits(lock[p])
  PROVE  /\ lock[p].own = p
         /\ \E i \in SelfOverlaps(lock[p]) : i_lockf[i].own = p /\ Around(i_lockf[i], lock[p])
<1>1. LockfBase /\ Chain(i_lockf)
  BY DEF LockfInv
<1>2. PICK a : a = lock[p]
  OBVIOUS
<1>3. IsCall(a) /\ (a.own = p \/ (a.own \in Files /\ a.start = 0 /\ a.end = EOF))
  BY <1>1, <1>2, CallOf, CallsAre
<1>4. PICK i \in SelfOverlaps(a) : /\ ovcase(i_lockf[i], a) = 2
                                   /\ i_lockf[i].start # a.start /\ i_lockf[i].end # a.end
  BY <1>2 DEF Splits
<1>5. i \in 1 .. Len(i_lockf) /\ OwnMeets(i_lockf[i], a) /\ i_lockf[i] \in GoodLocks
  BY <1>1, <1>3, OverlapsAre, ListIs
<1>6. i_lockf[i].start <= a.start /\ a.end # EOF /\ Top(a.end) < Top(i_lockf[i].end)
  BY <1>3, <1>4, <1>5, OverlapIs
<1>7. i_lockf[i].start \in Int /\ a.start \in Int
  BY <1>3, <1>5, LockIs, CallIs
<1>8. a.own = p /\ Around(i_lockf[i], a)
  BY <1>3, <1>4, <1>6, <1>7 DEF Around
<1>9. i_lockf[i].own = p
  BY <1>5, <1>8 DEF OwnMeets, Own
<1> QED
  BY <1>2, <1>8, <1>9

LEMMA SplitSleepStep ==
  ASSUME LockfInv, NEW p \in Procs, split_sleep(p)
  PROVE  LockfInv'
<1>1. LockfBase /\ Chain(i_lockf)
  BY DEF LockfInv
<1>2. PICK a : a = lock[p]
  OBVIOUS
<1>3. at[p] \in {"call", "woken"} /\ Splits(a) /\ lock' = lock
  BY <1>2 DEF split_sleep, Running
<1>4. a \in Calls(p) /\ IsCall(a) /\ (a.own \in Procs => a.own = p)
  BY <1>1, <1>2, <1>3, CallOf, CallsAre
<1>5. PICK k \in SelfOverlaps(a) : a.own = p /\ i_lockf[k].own = p /\ Around(i_lockf[k], a)
  BY <1>2, <1>3, SplitsAround
<1>6. lock' \in [Procs -> AllCalls] /\ lock'[p] = a /\ \A q \in Procs : q # p => lock'[q] = lock[q]
  BY <1>1, <1>2, <1>3 DEF LockfBase
<1>7. at[p] # "asleep" /\ "split" \in {"idle", "split"}
  BY <1>3
<1>8. PICK w : w = IF a.type = "UN" THEN BlockedOn(SelfOverlaps(a)) ELSE {}
  OBVIOUS
<1>9. Go(p, "split", w, {}) /\ i_lockf' = IF a.type = "UN" THEN Rest(a) ELSE i_lockf
  BY <1>2, <1>8 DEF split_sleep, Rest
<1>10. /\ Turns(p, "split", w) /\ nxt' \in [Procs -> Owners \cup {FREED, NONE}] /\ stranded' \subseteq Procs
       /\ stranded \ (w \cup {p}) \subseteq stranded'
  BY <1>1, <1>6, <1>9, GoIs
<1>11. CASE a.type # "UN"
  <2>1. w = {} /\ i_lockf' = i_lockf
    BY <1>8, <1>9, <1>11
  <2>2. Carries(w) /\ \A o : Keeps(o)
    BY <2>1 DEF Carries, Keeps
  <2>3. Chain(i_lockf)'
    BY <1>1, <2>1
  <2> QED
    BY <1>4, <1>5, <1>6, <1>7, <1>10, <1>11, <2>2, <2>3, ListChanged
<1>12. CASE a.type = "UN"
  <2>1. PICK t : t = i_lockf'
    OBVIOUS
  <2>2. w = BlockedOn(SelfOverlaps(a)) /\ t = Rest(a)
    BY <1>8, <1>9, <1>12, <2>1
  <2>3. /\ Chain(t) /\ Len(i_lockf) \in Nat
        /\ \A i \in 1 .. Len(i_lockf) : IF i \in SelfOverlaps(a)
             THEN SameRange(t[i], i_lockf[i]) /\ t[i].blk = {}
             ELSE t[i] = i_lockf[i]
        /\ \A x : x \in Range(t) <=> \E i \in 1 .. Len(i_lockf) : t[i] = x
    BY <1>1, <1>4, <2>2, OverlapsRest
  <2>4. \A y \in Range(t) : y.blk = {} \/ \E i \in 1 .. Len(i_lockf) : i \notin SelfOverlaps(a) /\ y = i_lockf[i]
    <3> TAKE y \in Range(t)
    <3>1. PICK i \in 1 .. Len(i_lockf) : t[i] = y
      BY <2>3
    <3> QED
      BY <2>3, <3>1
  <2>5. \A i \in 1 .. Len(i_lockf) : i \notin SelfOverlaps(a) => i_lockf[i] \in Range(t)
    <3> TAKE i \in 1 .. Len(i_lockf)
    <3>1. HAVE i \notin SelfOverlaps(a)
    <3>2. t[i] = i_lockf[i] /\ t[i] \in Range(t)
      BY <2>3, <3>1
    <3> QED
      BY <3>2
  <2>6. Chain(i_lockf)'
    BY <2>1, <2>3
  <2>7. Carries(w) /\ \A o : o # a.own => Keeps(o)
    BY <1>4, <2>1, <2>2, <2>4, <2>5, <2>6, WakesAll
  <2>8. \A q \in Procs : q # p => Keeps(q)
    BY <1>4, <2>7
  <2>9. \E y \in Range(t) : y.own = p /\ Around(y, a)
    <3>1. k \in 1 .. Len(i_lockf)
      BY <1>1, <1>4, OverlapsAre
    <3>2. SameRange(t[k], i_lockf[k]) /\ t[k] \in Range(t)
      BY <2>3, <3>1
    <3> QED
      BY <1>5, <3>2 DEF SameRange, Around
  <2>10. lock'[p] \in Calls(p) /\ lock'[p].own = p /\ \E y \in Range(i_lockf') : y.own = p /\ Around(y, lock'[p])
    BY <1>4, <1>5, <1>6, <2>1, <2>9
  <2> QED
    BY <1>6, <1>7, <1>10, <2>6, <2>7, <2>8, <2>10, ListChanged
<1> QED
  BY <1>11, <1>12

\* lf_clearlock() goes on after the sleep: who came to the lock meanwhile waits behind its first half.
LEMMA SplitDoneStep ==
  ASSUME LockfInv, NEW p \in Procs, at[p] = "split", lock[p].type = "UN",
         i_lockf' = Trimmed(i_lockf, lock[p]), Return(p), at' = [at EXCEPT ![p] = "idle"],
         stranded' = stranded \cup (BlockedOn(SelfOverlaps(lock[p])) \cap Procs), nxt' = nxt
  PROVE  LockfInv'
<1>1. LockfBase /\ Chain(i_lockf) /\ SplitWaits
  BY DEF LockfInv
<1>2. PICK a : a = lock[p]
  OBVIOUS
<1>3. IsCall(a)
  BY <1>1, <1>2, CallOf
<1>4. /\ lock \in [Procs -> AllCalls] /\ NoCall \in AllCalls /\ at \in [Procs -> Places]
      /\ nxt \in [Procs -> Owners \cup {FREED, NONE}] /\ stranded \subseteq Procs
  BY <1>1 DEF LockfBase, AllCalls
<1>5. lock' \in [Procs -> AllCalls] /\ lock'[p] = NoCall /\ \A q \in Procs : q # p => lock'[q] = lock[q]
  BY <1>4 DEF Return
<1>6. Turns(p, "idle", {})
  BY <1>4, <1>5 DEF Turns
<1>7. a.own = p /\ \E x \in Range(i_lockf) : x.own = p /\ Around(x, a)
  BY <1>1, <1>2 DEF SplitWaits
<1>8. /\ Len(i_lockf) \in Nat /\ \A i \in 1 .. Len(i_lockf) : i_lockf[i] \in GoodLocks
      /\ \A x : x \in Range(i_lockf) <=> \E i \in 1 .. Len(i_lockf) : i_lockf[i] = x
      /\ \A i : i \in SelfOverlaps(a) <=> i \in 1 .. Len(i_lockf) /\ OwnMeets(i_lockf[i], a)
  BY <1>1, <1>3, ListIs, OverlapsAre
<1>9. PICK k \in 1 .. Len(i_lockf) : i_lockf[k].own = p /\ Around(i_lockf[k], a)
  BY <1>7, <1>8
<1>10. /\ i_lockf[k].start \in Int /\ Top(i_lockf[k].end) \in Int /\ a.start \in Int /\ Top(a.end) \in Int /\ a.start <= Top(a.end)
  BY <1>3, <1>8, LockIs, CallIs
<1>11. k \in SelfOverlaps(a) /\ i_lockf[k].start <= a.start /\ Top(a.end) <= Top(i_lockf[k].end)
  BY <1>7, <1>8, <1>9, <1>10 DEF Around, OwnMeets, Own, Meets
<1>12. SelfOverlaps(a) = {k}
  BY <1>1, <1>3, <1>11, OnlyOne
<1>13. PICK t : t = i_lockf'
  OBVIOUS
<1>14. /\ Chain(t) /\ \A x \in Range(t) : \E l \in Range(i_lockf) : PieceOf(x, l, a)
       /\ \A l \in Range(i_lockf) : HasPieces(Range(t), l, a)
  <2>1. IsTrimmed(Trimmed(i_lockf, a), i_lockf, a)
    BY <1>1, <1>3, TrimmedIs
  <2> QED
    BY <1>2, <1>13, <2>1 DEF IsTrimmed
<1>15. \A i \in 1 .. Len(i_lockf) : i # k => i_lockf[i] \in Range(t)
  <2> TAKE i \in 1 .. Len(i_lockf)
  <2>1. HAVE i # k
  <2>2. i_lockf[i] \in Range(i_lockf) /\ ~OwnMeets(i_lockf[i], a)
    BY <1>8, <1>12, <2>1
  <2> QED
    BY <1>14, <2>2 DEF HasPieces
<1>16. \E x \in Range(t) : x.blk = i_lockf[k].blk
  <2>1. i_lockf[k] \in Range(i_lockf) /\ OwnMeets(i_lockf[k], a) /\ i_lockf[k].start < a.start
    BY <1>8, <1>9, <1>11 DEF Around
  <2>2. PICK x \in Range(t) : FrontOf(x, i_lockf[k], a)
    BY <1>14, <2>1 DEF HasPieces
  <2> QED
    BY <2>2 DEF FrontOf
<1>17. ASSUME NEW o, o # a.own PROVE Keeps(o)
  <2>1. ASSUME NEW x \in Range(i_lockf), x.own = o PROVE x \in Range(t)
    <3>1. PICK i \in 1 .. Len(i_lockf) : i_lockf[i] = x
      BY <1>8
    <3>2. i # k
      BY <1>7, <1>9, <1>17, <2>1, <3>1
    <3> QED
      BY <1>15, <3>1, <3>2
  <2> QED
    BY <1>13, <2>1 DEF Keeps
<1>18. Carries({})
  <2>1. ASSUME NEW y \in Range(t), NEW q \in Procs, q \in y.blk
        PROVE  \E x \in Range(i_lockf) : q \in x.blk /\ (q \in stranded' \/ x = y)
    <3>1. PICK l \in Range(i_lockf) : PieceOf(y, l, a)
      BY <1>14
    <3>2. CASE OwnMeets(l, a)
      <4>1. PICK i \in 1 .. Len(i_lockf) : i_lockf[i] = l
        BY <1>8
      <4>2. i \in SelfOverlaps(a)
        BY <1>8, <3>2, <4>1
      <4>3. q \in l.blk
        BY <2>1, <3>1, <3>2 DEF PieceOf, FrontOf, BackOf
      <4>4. q \in BlockedOn(SelfOverlaps(a))
        BY <4>1, <4>2, <4>3, BlockedOnIs
      <4> QED
        BY <1>2, <4>3, <4>4
    <3>3. CASE ~OwnMeets(l, a)
      BY <2>1, <3>1, <3>3 DEF PieceOf
    <3> QED
      BY <3>2, <3>3
  <2>2. ASSUME NEW x \in Range(i_lockf), NEW q \in Procs, q \in x.blk PROVE \E y \in Range(t) : q \in y.blk
    <3>1. PICK i \in 1 .. Len(i_lockf) : i_lockf[i] = x
      BY <1>8
    <3> QED
      BY <1>15, <1>16, <2>2, <3>1
  <2>3. \A y \in Range(i_lockf') : \A q \in Procs : q \in y.blk => \E x \in Range(i_lockf) :
           q \in x.blk /\ (q \in stranded' \/ (Blocks(x, lock[q]) => Blocks(y, lock[q])))
    BY <1>13, <2>1
  <2> QED
    BY <1>13, <2>2, <2>3 DEF Carries
<1>19. stranded' \subseteq Procs /\ stranded \ ({} \cup {p}) \subseteq stranded'
  BY <1>4
<1>20. Chain(i_lockf)' /\ \A q \in Procs : q # p => Keeps(q)
  BY <1>7, <1>13, <1>14, <1>17
<1>21. at[p] # "asleep" /\ "idle" \in {"idle", "split"} /\ nxt' \in [Procs -> Owners \cup {FREED, NONE}]
  BY <1>4
<1> QED
  BY <1>5, <1>6, <1>18, <1>19, <1>20, <1>21, ListChanged

-----------------------------------------------------------------------------
(* Going to sleep behind a lock.                                           *)

\* s is the list with one more request behind the lock at m.
IsJoined(s, m, p) ==
  /\ Chain(s) /\ Len(s) = Len(i_lockf)
  /\ \A i \in 1 .. Len(i_lockf) :
       SameRange(s[i], i_lockf[i]) /\ s[i].blk = IF i = m THEN i_lockf[i].blk \cup {p} ELSE i_lockf[i].blk

LEMMA JoinedIs ==
  ASSUME Chain(i_lockf), NEW p \in Procs, NEW m \in 1 .. Len(i_lockf),
         \A i \in 1 .. Len(i_lockf) : p \notin i_lockf[i].blk,
         NEW s, s = [i_lockf EXCEPT ![m].blk = @ \cup {p}]
  PROVE  IsJoined(s, m, p)
<1>1. /\ i_lockf \in Seq(GoodLocks) /\ Len(i_lockf) \in Nat /\ DOMAIN i_lockf = 1 .. Len(i_lockf)
      /\ \A i \in 1 .. Len(i_lockf) : i_lockf[i] \in GoodLocks
      /\ \A i, j \in 1 .. Len(i_lockf) : i < j => Ahead(i_lockf[i], i_lockf[j])
  BY ListIs
<1>2. PICK l : l = i_lockf[m]
  OBVIOUS
<1>3. PICK f : f = [l EXCEPT !.blk = l.blk \cup {p}]
  OBVIOUS
<1>4. l \in GoodLocks /\ l \in LockRec /\ l.start <= Top(l.end) /\ l.blk \subseteq Chained
  BY <1>1, <1>2, LockIs
<1>5. f \in LockRec /\ f.own = l.own /\ f.type = l.type /\ f.start = l.start /\ f.end = l.end /\ f.blk = l.blk \cup {p}
  BY <1>3, <1>4 DEF LockRec, Chained
<1>6. f \in GoodLocks
  BY <1>4, <1>5 DEF GoodLocks
<1>7. s = [i_lockf EXCEPT ![m] = f]
  BY <1>2, <1>3
<1>8. \A i \in 1 .. Len(i_lockf) : s[i] = IF i = m THEN f ELSE i_lockf[i]
  BY <1>1, <1>7
<1>9. s \in Seq(GoodLocks) /\ Len(s) = Len(i_lockf)
  <2>1. s \in [1 .. Len(i_lockf) -> GoodLocks]
    BY <1>1, <1>6, <1>7
  <2> QED
    BY <1>1, <2>1, IsSeq
<1>10. \A i \in 1 .. Len(i_lockf) :
         SameRange(s[i], i_lockf[i]) /\ s[i].blk = IF i = m THEN i_lockf[i].blk \cup {p} ELSE i_lockf[i].blk
  <2> TAKE i \in 1 .. Len(i_lockf)
  <2>1. CASE i = m
    <3>1. s[i] = f /\ i_lockf[i] = l
      BY <1>2, <1>8, <2>1
    <3> QED
      BY <1>5, <2>1, <3>1 DEF SameRange
  <2>2. CASE i # m
    <3>1. s[i] = i_lockf[i]
      BY <1>8, <2>2
    <3> QED
      BY <2>2, <3>1 DEF SameRange
  <2> QED
    BY <2>1, <2>2
<1>11. ASSUME NEW i \in 1 .. Len(i_lockf), NEW j \in 1 .. Len(i_lockf), i < j PROVE Ahead(s[i], s[j])
  <2>1. Ahead(i_lockf[i], i_lockf[j]) /\ SameRange(s[i], i_lockf[i]) /\ SameRange(s[j], i_lockf[j])
    BY <1>1, <1>10, <1>11
  <2>2. s[i].own = s[j].own => Top(s[i].end) < s[j].start
    BY <2>1 DEF Ahead, SameRange
  <2>3. (s[i].blk \cap s[j].blk) \cap Procs = {}
    <3>1. (i_lockf[i].blk \cap i_lockf[j].blk) \cap Procs = {} /\ p \notin i_lockf[i].blk /\ p \notin i_lockf[j].blk
      BY <2>1 DEF Ahead
    <3>2. i # m \/ j # m
      BY <1>11
    <3> QED
      BY <1>10, <3>1, <3>2
  <2> QED
    BY <2>2, <2>3 DEF Ahead
<1>12. Chain(s)
  BY <1>9, <1>11 DEF Chain
<1> QED
  BY <1>9, <1>10, <1>12 DEF IsJoined

\* An exclusive request for the whole file takes all the owner's locks off.
LEMMA GivenUp ==
  ASSUME NEW s, Chain(s), NEW a, IsCall(a), a.start = 0, a.end = EOF, NEW t, t = Trimmed(s, a)
  PROVE  /\ Chain(t)
         /\ \A x : x \in Range(t) <=> x \in Range(s) /\ x.own # a.own
<1>1. IsTrimmed(t, s, a)
  BY TrimmedIs
<1>2. \A x \in Range(s) : x \in GoodLocks
  BY ListIs
<1>3. \A x \in Range(s) : OwnMeets(x, a) <=> x.own = a.own
  <2> TAKE x \in Range(s)
  <2>1. x.start \in Int /\ Top(x.end) \in Int /\ 0 <= x.start /\ x.start <= Top(x.end) /\ x.start <= MaxByte + 1
    BY <1>2, LockIs
  <2>2. Top(a.end) = MaxByte + 1 /\ MaxByte \in Nat
    BY ByteIs, CallIs
  <2>3. Meets(x, a)
    BY <2>1, <2>2 DEF Meets
  <2> QED
    BY <2>3 DEF OwnMeets, Own
<1>4. \A x \in Range(t) : x \in Range(s) /\ x.own # a.own
  <2> TAKE x \in Range(t)
  <2>1. PICK l \in Range(s) : PieceOf(x, l, a)
    BY <1>1 DEF IsTrimmed
  <2>2. ~FrontOf(x, l, a) /\ ~BackOf(x, l, a)
    <3>1. l.start \in Int /\ 0 <= l.start
      BY <1>2, LockIs
    <3> QED
      BY <3>1 DEF FrontOf, BackOf
  <2>3. ~OwnMeets(l, a) /\ x = l
    BY <2>1, <2>2 DEF PieceOf
  <2> QED
    BY <1>3, <2>3
<1>5. \A x \in Range(s) : x.own # a.own => x \in Range(t)
  BY <1>1, <1>3 DEF IsTrimmed, HasPieces
<1> QED
  BY <1>1, <1>4, <1>5 DEF IsTrimmed

LEMMA SameBlocks ==
  ASSUME NEW x, NEW y, SameRange(x, y), NEW c
  PROVE  Blocks(x, c) <=> Blocks(y, c)
<1>1. x.own = y.own /\ x.type = y.type /\ x.start = y.start /\ x.end = y.end
  BY DEF SameRange
<1>2. ovcase(x, c) = ovcase(y, c)
  BY <1>1 DEF ovcase
<1> QED
  BY <1>1, <1>2 DEF Blocks, Own

\* What setlock_sleep() does: given is what is given up, and i_lockf' has the other locks.
Sleeps(p, a, m, given) ==
  /\ m \in 1 .. Len(i_lockf) /\ m \notin given /\ Blocks(i_lockf[m], a)
  /\ given \subseteq 1 .. Len(i_lockf) /\ \A i \in given : i_lockf[i].own = a.own /\ a.own \notin Procs
  /\ given # {} => /\ a.own \in Files /\ a.type = "WR"
                    /\ \A i \in 1 .. Len(i_lockf) : i_lockf[i].own = a.own => i \in given
  /\ \E s : /\ IsJoined(s, m, p) /\ Chain(i_lockf')
            /\ \A x : x \in Range(i_lockf') <=> \E i \in 1 .. Len(i_lockf) : i \notin given /\ x = s[i]
  /\ at' = [q \in Procs |-> IF q = p THEN "asleep"
                            ELSE IF q \in BlockedOn(given) /\ at[q] = "asleep" THEN "woken" ELSE at[q]]
  /\ nxt' = [q \in Procs |-> IF q = p THEN i_lockf[m].own ELSE IF q \in BlockedOn(given) THEN NONE ELSE nxt[q]]
  /\ stranded' = stranded \ BlockedOn(given) /\ lock' = lock

LEMMA SleepIs ==
  ASSUME LockfInv, NEW p \in Procs, setlock_sleep(p)
  PROVE  /\ at[p] \in {"call", "woken"} /\ lock[p].type # "UN"
         /\ \E given : Sleeps(p, lock[p], Min(lf_getblock(lock[p])), given)
<1>1. LockfBase /\ Chain(i_lockf) /\ Queued
  BY DEF LockfInv
<1>2. PICK a : a = lock[p]
  OBVIOUS
<1>3. PICK m : m = Min(lf_getblock(a))
  OBVIOUS
<1>4. PICK s : s = [i_lockf EXCEPT ![m].blk = @ \cup {p}]
  OBVIOUS
<1>5. PICK given : given = IF a.own \in Files /\ a.type = "WR" THEN SelfOverlaps(a) ELSE {}
  OBVIOUS
<1>6. at[p] \in {"call", "woken"} /\ a.type # "UN" /\ lf_getblock(a) # {}
  BY <1>2 DEF setlock_sleep, Blocked, Setting, Running
<1>7. /\ i_lockf' = IF given = {} THEN s ELSE Trimmed(s, a)
      /\ at' = [q \in Procs |-> IF q = p THEN "asleep"
                                ELSE IF q \in BlockedOn(given) /\ at[q] = "asleep" THEN "woken" ELSE at[q]]
      /\ nxt' = [q \in Procs |-> IF q = p THEN Blocker(p).own
                                 ELSE IF q \in BlockedOn(given) THEN NONE ELSE nxt[q]]
      /\ stranded' = stranded \ BlockedOn(given) /\ lock' = lock
  BY <1>2, <1>3, <1>4, <1>5 DEF setlock_sleep, Given
<1>8. a \in Calls(p) /\ IsCall(a) /\ (a.own = p \/ (a.own \in Files /\ a.start = 0 /\ a.end = EOF))
  BY <1>1, <1>2, <1>6, CallOf, CallsAre
<1>9. /\ Len(i_lockf) \in Nat /\ DOMAIN i_lockf = 1 .. Len(i_lockf) /\ \A i \in 1 .. Len(i_lockf) : i_lockf[i] \in GoodLocks
      /\ \A x : x \in Range(i_lockf) <=> \E i \in 1 .. Len(i_lockf) : i_lockf[i] = x
  BY <1>1, ListIs
<1>10. lf_getblock(a) \in SUBSET Nat
  BY <1>9 DEF lf_getblock
<1>11. m \in lf_getblock(a)
  BY <1>3, <1>6, <1>10, LeastIs
<1>12. m \in 1 .. Len(i_lockf) /\ Blocks(i_lockf[m], a) /\ i_lockf[m].own # a.own
  BY <1>9, <1>11 DEF lf_getblock, Blocks, Own
<1>13. \A i \in 1 .. Len(i_lockf) : p \notin i_lockf[i].blk
  BY <1>1, <1>6, <1>9 DEF Queued
<1>14. IsJoined(s, m, p)
  BY <1>1, <1>4, <1>12, <1>13, JoinedIs
<1>15. Chain(s) /\ Len(s) = Len(i_lockf) /\ \A i \in 1 .. Len(i_lockf) : s[i].own = i_lockf[i].own
  BY <1>14 DEF IsJoined, SameRange
<1>16. \A x : x \in Range(s) <=> \E i \in 1 .. Len(i_lockf) : s[i] = x
  BY <1>15, ListIs
<1>17. given \subseteq 1 .. Len(i_lockf) /\ \A i \in given : i_lockf[i].own = a.own /\ a.own \notin Procs
  <2>1. \A i \in SelfOverlaps(a) : i \in 1 .. Len(i_lockf) /\ i_lockf[i].own = a.own
    BY <1>1, <1>8, OverlapsAre DEF OwnMeets, Own
  <2>2. a.own \in Files => a.own \notin Procs
    BY NamesDiffer
  <2> QED
    BY <1>5, <2>1, <2>2
<1>18. m \notin given
  BY <1>12, <1>17
<1>19. PICK t : t = i_lockf'
  OBVIOUS
<1>20. ASSUME given # {}
       PROVE  /\ a.own \in Files /\ a.type = "WR" /\ given = SelfOverlaps(a) /\ a.start = 0 /\ a.end = EOF
              /\ \A i \in 1 .. Len(i_lockf) : i \in given <=> i_lockf[i].own = a.own
  <2>1. a.own \in Files /\ a.type = "WR" /\ given = SelfOverlaps(a)
    BY <1>5, <1>20
  <2>2. a.start = 0 /\ a.end = EOF
    BY <1>8, <2>1, NamesDiffer
  <2>3. \A i \in 1 .. Len(i_lockf) : i \in given <=> i_lockf[i].own = a.own
    <3> TAKE i \in 1 .. Len(i_lockf)
    <3>1. i_lockf[i] \in GoodLocks
      BY <1>9
    <3>2. /\ i_lockf[i].start \in Int /\ Top(i_lockf[i].end) \in Int /\ 0 <= i_lockf[i].start
          /\ i_lockf[i].start <= Top(i_lockf[i].end) /\ i_lockf[i].start <= MaxByte + 1
      BY <3>1, LockIs
    <3>3. Top(a.end) = MaxByte + 1 /\ MaxByte \in Nat
      BY <1>8, <2>2, ByteIs, CallIs
    <3>4. Meets(i_lockf[i], a)
      BY <2>2, <3>2, <3>3 DEF Meets
    <3> QED
      BY <1>1, <1>8, <2>1, <3>4, OverlapsAre DEF OwnMeets, Own
  <2> QED
    BY <2>1, <2>2, <2>3
<1>21. Chain(t) /\ \A x : x \in Range(t) <=> \E i \in 1 .. Len(i_lockf) : i \notin given /\ x = s[i]
  <2>1. CASE given = {}
    <3>1. t = s
      BY <1>7, <1>19, <2>1
    <3> QED
      BY <1>15, <1>16, <2>1, <3>1
  <2>2. CASE given # {}
    <3>1. t = Trimmed(s, a) /\ a.start = 0 /\ a.end = EOF
      BY <1>7, <1>19, <1>20, <2>2
    <3>2. /\ Chain(t) /\ \A x : x \in Range(t) <=> x \in Range(s) /\ x.own # a.own
      BY <1>8, <1>15, <3>1, GivenUp
    <3> QED
      BY <1>15, <1>16, <1>20, <2>2, <3>2
  <2> QED
    BY <2>1, <2>2
<1>22. Blocker(p) = i_lockf[m]
  BY <1>2, <1>3 DEF Blocker
<1>23. Sleeps(p, a, m, given)
  BY <1>7, <1>12, <1>14, <1>17, <1>18, <1>19, <1>20, <1>22, <1>21 DEF Sleeps
<1> QED
  BY <1>2, <1>3, <1>6, <1>23

LEMMA SleepStep ==
  ASSUME LockfInv, NEW p \in Procs, setlock_sleep(p)
  PROVE  LockfInv'
<1>1. LockfBase /\ Chain(i_lockf) /\ Queued /\ SplitWaits
  BY DEF LockfInv
<1>2. PICK a : a = lock[p]
  OBVIOUS
<1>3. at[p] \in {"call", "woken"} /\ a.type # "UN"
  BY <1>2, SleepIs
<1>4. PICK m, given : Sleeps(p, a, m, given)
  BY <1>2, SleepIs
<1>5. PICK s : /\ IsJoined(s, m, p) /\ Chain(i_lockf')
               /\ \A x : x \in Range(i_lockf') <=> \E i \in 1 .. Len(i_lockf) : i \notin given /\ x = s[i]
  BY <1>4 DEF Sleeps
<1>6. PICK w : w = BlockedOn(given)
  OBVIOUS
<1>7. /\ m \in 1 .. Len(i_lockf) /\ m \notin given /\ Blocks(i_lockf[m], a)
      /\ given \subseteq 1 .. Len(i_lockf) /\ \A i \in given : i_lockf[i].own = a.own /\ a.own \notin Procs
      /\ at' = [q \in Procs |-> IF q = p THEN "asleep" ELSE IF q \in w /\ at[q] = "asleep" THEN "woken" ELSE at[q]]
      /\ nxt' = [q \in Procs |-> IF q = p THEN i_lockf[m].own ELSE IF q \in w THEN NONE ELSE nxt[q]]
      /\ stranded' = stranded \ w /\ lock' = lock
  BY <1>4, <1>6 DEF Sleeps
<1>8. /\ Len(s) = Len(i_lockf)
      /\ \A i \in 1 .. Len(i_lockf) :
           SameRange(s[i], i_lockf[i]) /\ s[i].blk = IF i = m THEN i_lockf[i].blk \cup {p} ELSE i_lockf[i].blk
  BY <1>5 DEF IsJoined
<1>9. /\ Len(i_lockf) \in Nat /\ \A i \in 1 .. Len(i_lockf) : i_lockf[i] \in GoodLocks /\ i_lockf[i] \in Range(i_lockf)
      /\ \A x : x \in Range(i_lockf) <=> \E i \in 1 .. Len(i_lockf) : i_lockf[i] = x
  BY <1>1, ListIs
<1>10. a \in Calls(p) /\ (a.own \in Procs => a.own = p)
  BY <1>1, <1>2, <1>3, CallOf, CallsAre
<1>11. /\ lock \in [Procs -> AllCalls] /\ nxt \in [Procs -> Owners \cup {FREED, NONE}] /\ stranded \subseteq Procs
  BY <1>1 DEF LockfBase
<1>12. Turns(p, "asleep", w)
  BY <1>7 DEF Turns
<1>13. nxt' \in [Procs -> Owners \cup {FREED, NONE}]
  <2>1. i_lockf[m].own \in Owners
    BY <1>7, <1>9, LockIs
  <2>2. \A q \in Procs : (IF q = p THEN i_lockf[m].own ELSE IF q \in w THEN NONE ELSE nxt[q]) \in Owners \cup {FREED, NONE}
    BY <1>11, <2>1
  <2> QED
    BY <1>7, <2>2
<1>14. LockfBase'
  <2>1. "asleep" \in Places /\ lock'[p] \in Calls(p) /\ lock'[p].type # "UN" /\ lock' \in [Procs -> AllCalls]
    BY <1>2, <1>3, <1>7, <1>10, <1>11 DEF Places
  <2>2. stranded' \subseteq Procs
    BY <1>7, <1>11
  <2>3. IF "asleep" = "idle" THEN lock'[p] = NoCall
        ELSE lock'[p] \in Calls(p) /\ ("asleep" \in {"asleep", "woken"} => lock'[p].type # "UN")
    BY <2>1
  <2> QED
    BY <1>1, <1>12, <1>13, <2>1, <2>2, <2>3, BaseKept
<1>15. SplitWaits'
  <2>1. ASSUME NEW q \in Procs, q # p PROVE Keeps(q)
    <3>1. ASSUME NEW x \in Range(i_lockf), x.own = q
          PROVE  \E y \in Range(i_lockf') : y.own = q /\ y.start = x.start /\ y.end = x.end
      <4>1. PICK i \in 1 .. Len(i_lockf) : i_lockf[i] = x
        BY <1>9
      <4>2. i \notin given
        BY <1>7, <3>1, <4>1
      <4>3. s[i] \in Range(i_lockf') /\ SameRange(s[i], x)
        BY <1>5, <1>8, <4>1, <4>2
      <4> QED
        BY <3>1, <4>3 DEF SameRange
    <3> QED
      BY <3>1 DEF Keeps
  <2>2. "asleep" = "split" => /\ lock'[p].own = p
                              /\ lock'[p].type = "UN" => \E y \in Range(i_lockf') : y.own = p /\ Around(y, lock'[p])
    OBVIOUS
  <2> QED
    BY <1>1, <1>12, <2>1, <2>2, SplitKept
<1>16. Queued'
  <2>1. Queued /\ \A i \in 1 .. Len(i_lockf) : p \notin i_lockf[i].blk
    BY <1>1, <1>3, <1>9 DEF Queued
  <2>2. ASSUME NEW i \in 1 .. Len(i_lockf), i \notin given, NEW q \in Procs, q \in i_lockf[i].blk
        PROVE  q # p /\ q \notin w /\ at'[q] = "asleep" /\ (q \in stranded' \/ Blocks(i_lockf[i], lock'[q]))
    <3>1. q # p /\ at[q] = "asleep" /\ (q \in stranded \/ Blocks(i_lockf[i], lock[q]))
      BY <1>9, <2>1, <2>2 DEF Queued
    <3>2. q \notin w
      <4>1. ASSUME q \in w PROVE FALSE
        <5>1. PICK j \in given : q \in i_lockf[j].blk
          BY <1>6, <4>1, BlockedOnIs
        <5>2. j # i /\ j \in 1 .. Len(i_lockf)
          BY <1>7, <2>2
        <5>3. (i_lockf[i].blk \cap i_lockf[j].blk) \cap Procs = {}
          BY <1>1, <5>2, BlkApart
        <5> QED
          BY <2>2, <5>1, <5>3
      <4> QED
        BY <4>1
    <3> QED
      BY <1>7, <3>1, <3>2
  <2>3. ASSUME NEW y \in Range(i_lockf'), NEW q \in Procs, q \in y.blk
        PROVE  at'[q] = "asleep" /\ (q \in stranded' \/ Blocks(y, lock'[q]))
    <3>1. PICK i \in 1 .. Len(i_lockf) : i \notin given /\ y = s[i]
      BY <1>5
    <3>2. SameRange(y, i_lockf[i])
      BY <1>8, <3>1
    <3>3. CASE q = p
      <4>1. i = m
        BY <1>8, <2>1, <2>3, <3>1, <3>3
      <4>2. Blocks(y, a) /\ lock'[q] = a /\ at'[q] = "asleep"
        BY <1>2, <1>7, <3>2, <3>3, <4>1, SameBlocks
      <4> QED
        BY <4>2
    <3>4. CASE q # p
      <4>1. q \in i_lockf[i].blk
        BY <1>8, <2>3, <3>1, <3>4
      <4>2. at'[q] = "asleep" /\ (q \in stranded' \/ Blocks(i_lockf[i], lock'[q]))
        BY <2>2, <3>1, <4>1
      <4> QED
        BY <3>2, <4>2, SameBlocks
    <3> QED
      BY <3>3, <3>4
  <2>4. ASSUME NEW q \in Procs, at'[q] = "asleep" PROVE \E y \in Range(i_lockf') : q \in y.blk
    <3>1. CASE q = p
      <4>1. s[m] \in Range(i_lockf') /\ p \in s[m].blk
        BY <1>5, <1>7, <1>8
      <4> QED
        BY <3>1, <4>1
    <3>2. CASE q # p
      <4>1. at[q] = "asleep" /\ q \notin w
        BY <1>7, <2>4, <3>2
      <4>2. PICK i \in 1 .. Len(i_lockf) : q \in i_lockf[i].blk
        BY <1>9, <2>1, <4>1 DEF Queued
      <4>3. i \notin given
        BY <1>6, <4>1, <4>2, BlockedOnIs
      <4>4. s[i] \in Range(i_lockf') /\ q \in s[i].blk
        BY <1>5, <1>8, <4>2, <4>3
      <4> QED
        BY <4>4
    <3> QED
      BY <3>1, <3>2
  <2> QED
    BY <2>3, <2>4 DEF Queued
<1>17. Chain(i_lockf)'
  BY <1>5
<1> QED
  BY <1>14, <1>15, <1>16, <1>17 DEF LockfInv

-----------------------------------------------------------------------------
(* The invariant holds.                                                    *)

LEMMA StepLockfInv == ASSUME LockfInv, [LockfNext]_lockfVars PROVE LockfInv'
<1>1. CASE UNCHANGED lockfVars \/ \E p \in Procs : follow_freed(p)
  <2>1. /\ i_lockf' = i_lockf /\ lock' = lock /\ at' = at /\ nxt' = nxt /\ stranded' = stranded
    BY <1>1 DEF lockfVars, follow_freed
  <2>2. LockfBase'
    BY <2>1 DEF LockfInv, LockfBase, CallFits
  <2>3. Chain(i_lockf)' /\ Queued' /\ SplitWaits'
    BY <2>1 DEF LockfInv, Queued, SplitWaits
  <2> QED
    BY <2>2, <2>3 DEF LockfInv
<1>2. ASSUME NEW p \in Procs,
             \/ \E a \in PosixCall(p) \cup FlockCall : ufs_advlock(p, a)
             \/ setlock_eagain(p) \/ setlock_edeadlk(p) \/ setlock_sleep(p) \/ setlock_grant(p)
             \/ clearlock(p) \/ split_sleep(p) \/ split_done(p) \/ setlock_eintr(p)
      PROVE  LockfInv'
  <2>1. CASE \E a \in PosixCall(p) \cup FlockCall : ufs_advlock(p, a)
    BY <2>1, AdvlockStep DEF Calls
  <2>2. CASE setlock_eagain(p) \/ setlock_edeadlk(p)
    BY <2>2, DeniedStep
  <2>3. CASE setlock_sleep(p)
    BY <2>3, SleepStep
  <2>4. CASE setlock_grant(p)
    <3>1. at[p] \in {"call", "woken", "split"} /\ lock[p].type # "UN" /\ Link(p)
      BY <2>4 DEF setlock_grant, Setting, Running
    <3> QED
      BY <3>1, LinkStep
  <2>5. CASE clearlock(p)
    BY <2>5, ClearStep
  <2>6. CASE split_sleep(p)
    BY <2>6, SplitSleepStep
  <2>7. CASE split_done(p)
    <3>1. CASE lock[p].type # "UN" /\ Link(p)
      <4>1. at[p] \in {"call", "woken", "split"}
        BY <2>7 DEF split_done
      <4> QED
        BY <3>1, <4>1, LinkStep
    <3>2. CASE ~(lock[p].type # "UN" /\ Link(p))
      <4>1. /\ at[p] = "split" /\ lock[p].type = "UN" /\ i_lockf' = Trimmed(i_lockf, lock[p])
            /\ Return(p) /\ at' = [at EXCEPT ![p] = "idle"]
            /\ stranded' = stranded \cup (BlockedOn(SelfOverlaps(lock[p])) \cap Procs) /\ nxt' = nxt
        BY <2>7, <3>2 DEF split_done
      <4> QED
        BY <4>1, SplitDoneStep
    <3> QED
      BY <3>1, <3>2
  <2>8. CASE setlock_eintr(p)
    BY <2>8, EintrStep
  <2> QED
    BY <1>2, <2>1, <2>2, <2>3, <2>4, <2>5, <2>6, <2>7, <2>8
<1> QED
  BY <1>1, <1>2 DEF LockfNext

LEMMA StepAstray == ASSUME astray \in BOOLEAN, [LockfNext]_lockfVars PROVE astray' \in BOOLEAN
<1>1. CASE UNCHANGED lockfVars
  BY <1>1 DEF lockfVars
<1>2. ASSUME NEW p \in Procs, NEW x, NEW w, NEW s, Go(p, x, w, s) PROVE astray' = astray
  BY <1>2 DEF Go
<1>3. CASE LockfNext
  <2>1. PICK p \in Procs :
          \/ \E a \in PosixCall(p) \cup FlockCall : ufs_advlock(p, a)
          \/ setlock_eagain(p) \/ setlock_edeadlk(p) \/ setlock_sleep(p) \/ setlock_grant(p)
          \/ clearlock(p) \/ split_sleep(p) \/ split_done(p)
          \/ setlock_eintr(p) \/ follow_freed(p)
    BY <1>3 DEF LockfNext
  <2>2. CASE (\E a \in PosixCall(p) \cup FlockCall : ufs_advlock(p, a)) \/ setlock_sleep(p) \/ setlock_eintr(p)
    BY <2>2 DEF ufs_advlock, setlock_sleep, setlock_eintr
  <2>3. CASE follow_freed(p)
    BY <2>3 DEF follow_freed
  <2>4. CASE setlock_eagain(p) \/ setlock_edeadlk(p) \/ clearlock(p)
    BY <1>2, <2>4 DEF setlock_eagain, setlock_edeadlk, clearlock
  <2>5. CASE setlock_grant(p) \/ split_sleep(p) \/ split_done(p)
    BY <1>2, <2>5 DEF setlock_grant, split_sleep, split_done, Link
  <2> QED
    BY <2>1, <2>2, <2>3, <2>4, <2>5
<1> QED
  BY <1>1, <1>3

LEMMA LocksAreInOrder == ASSUME LockfInv, astray \in BOOLEAN PROVE OwnLocksInOrder
<1>1. LockfBase /\ Chain(i_lockf)
  BY DEF LockfInv
<1>2. /\ Len(i_lockf) \in Nat /\ DOMAIN i_lockf = 1 .. Len(i_lockf) /\ \A i \in 1 .. Len(i_lockf) : i_lockf[i] \in GoodLocks
      /\ \A i, j \in 1 .. Len(i_lockf) : i < j => Ahead(i_lockf[i], i_lockf[j])
  BY <1>1, ListIs
<1>3. LockfTypeOK
  <2>1. \A i \in DOMAIN i_lockf : i_lockf[i] \in
           [own : Owners, type : {"RD", "WR"}, start : Bytes, end : Bytes \cup {EOF}, blk : SUBSET (Procs \cup {FREED})]
    <3> TAKE i \in DOMAIN i_lockf
    <3>1. i_lockf[i] \in LockRec /\ Ends \subseteq Bytes \cup {EOF}
      BY <1>2, LockIs, ByteIs DEF Ends, Bytes
    <3> QED
      BY <3>1 DEF LockRec, Chained
  <2>2. \A p \in Procs : lock[p] \in {NoCall} \cup PosixCall(p) \cup FlockCall
    BY <1>1 DEF LockfBase, CallFits, Calls
  <2> QED
    BY <1>1, <2>1, <2>2 DEF LockfTypeOK, LockfBase, Places
<1>4. ASSUME NEW i \in DOMAIN i_lockf, NEW j \in DOMAIN i_lockf, i < j, i_lockf[i].own = i_lockf[j].own
      PROVE  /\ i_lockf[i].end # EOF /\ i_lockf[i].end < i_lockf[j].start
             /\ i_lockf[i].start <= i_lockf[i].end
  <2>1. Top(i_lockf[i].end) < i_lockf[j].start
    BY <1>2, <1>4 DEF Ahead
  <2>2. /\ i_lockf[j].start <= MaxByte + 1 /\ i_lockf[j].start \in Int /\ i_lockf[i].start <= Top(i_lockf[i].end)
        /\ (i_lockf[i].end # EOF => Top(i_lockf[i].end) = i_lockf[i].end)
        /\ (i_lockf[i].end = EOF => Top(i_lockf[i].end) = MaxByte + 1)
    BY <1>2, LockIs
  <2>3. MaxByte \in Nat
    BY ByteIs
  <2> QED
    BY <2>1, <2>2, <2>3
<1> QED
  BY <1>3, <1>4 DEF OwnLocksInOrder

LEMMA SleepersAreBlocked == ASSUME LockfInv PROVE SleeperIsBlocked
<1>1. LockfBase /\ Chain(i_lockf) /\ Queued
  BY DEF LockfInv
<1>2. /\ Len(i_lockf) \in Nat /\ DOMAIN i_lockf = 1 .. Len(i_lockf)
      /\ \A i \in 1 .. Len(i_lockf) : i_lockf[i] \in Range(i_lockf)
      /\ \A x : x \in Range(i_lockf) <=> \E i \in 1 .. Len(i_lockf) : i_lockf[i] = x
  BY <1>1, ListIs
<1>3. ASSUME NEW p \in Procs, at[p] = "asleep"
      PROVE  \E i \in DOMAIN i_lockf :
               /\ p \in i_lockf[i].blk
               /\ p \in stranded \/ Blocks(i_lockf[i], lock[p])
               /\ \A j \in DOMAIN i_lockf \ {i} : p \notin i_lockf[j].blk
  <2>1. PICK i \in DOMAIN i_lockf : p \in i_lockf[i].blk
    BY <1>1, <1>2, <1>3 DEF Queued
  <2>2. p \in stranded \/ Blocks(i_lockf[i], lock[p])
    BY <1>1, <1>2, <2>1 DEF Queued
  <2>3. ASSUME NEW j \in DOMAIN i_lockf \ {i} PROVE p \notin i_lockf[j].blk
    <3>1. (i_lockf[i].blk \cap i_lockf[j].blk) \cap Procs = {}
      BY <1>1, <1>2, BlkApart
    <3> QED
      BY <2>1, <3>1
  <2> QED
    BY <2>1, <2>2, <2>3
<1>4. ASSUME NEW i \in DOMAIN i_lockf, NEW p \in i_lockf[i].blk \ {FREED} PROVE at[p] = "asleep"
  <2>1. p \in Procs
    BY <1>1, <1>2, ListIs, LockIs DEF Chained
  <2> QED
    BY <1>1, <1>2, <2>1 DEF Queued
<1> QED
  BY <1>3, <1>4 DEF SleeperIsBlocked

\* The locks of an owner stay in order and apart, with any owners, ranges and signals,
\* also while lf_split() sleeps: lf_findoverlap() and the loops over the list rely on it.
THEOREM OwnersLocksStayInOrder == LockfSpec => []OwnLocksInOrder
<1>1. LockfInv /\ astray \in BOOLEAN => OwnLocksInOrder
  BY LocksAreInOrder
<1>2. LockfInit => LockfInv /\ astray \in BOOLEAN
  BY InitLockfInv DEF LockfInit
<1>3. (LockfInv /\ astray \in BOOLEAN) /\ [LockfNext]_lockfVars => (LockfInv /\ astray \in BOOLEAN)'
  BY StepLockfInv, StepAstray
<1> QED
  BY <1>1, <1>2, <1>3, PTL DEF LockfSpec

\* With any processes, ranges and signals no wakeup is lost: whoever sleeps in
\* lf_setlock() is on the blocked list of one lock, which is there and blocks it, until
\* a blocked list is followed through a request that a signal made its owner free.
THEOREM NoLockWakeupIsLost == LockfSpec => []SleeperIsBlocked
<1>1. LockfInv => SleeperIsBlocked
  BY SleepersAreBlocked
<1> QED
  BY <1>1, InitLockfInv, StepLockfInv, PTL DEF LockfSpec

-----------------------------------------------------------------------------
(* Deadlock detection.                                                     *)

\* The walk of the code, step by step.
LEMMA WalkIs ==
  ASSUME NEW o
  PROVE  \E w : /\ w[0] = o /\ \A i \in 1 .. MAXDEPTH : w[i] = Follow[w[i - 1]]
                /\ Walk(o) = {w[i] : i \in 1 .. MAXDEPTH}
<1> DEFINE Goes(w, n) == w = [i \in 0 .. n |-> IF i = 0 THEN o ELSE Follow[w[i - 1]]]
<1>1. MAXDEPTH \in Nat
  BY LockfAssumption
<1>2. \A n \in Nat : \E w : Goes(w, n)
  <2> DEFINE Bad == {n \in Nat : ~\E w : Goes(w, n)}
  <2>1. SUFFICES ASSUME Bad # {} PROVE FALSE
    OBVIOUS
  <2>2. Bad \in SUBSET Nat
    <3> HIDE DEF Goes
    <3> QED
      OBVIOUS
  <2>3. PICK m \in Bad : \A k \in Bad : m <= k
    <3> HIDE DEF Bad
    <3> QED
      BY <2>1, <2>2, LeastIs
  <2>4. m \in Nat /\ \A w : ~Goes(w, m)
    OBVIOUS
  <2>5. CASE m = 0
    <3> DEFINE g == [i \in 0 .. 0 |-> o]
    <3>1. Goes(g, 0)
      <4>1. \A i \in 0 .. 0 : i = 0
        OBVIOUS
      <4> QED
        BY <4>1
    <3> QED
      BY <2>4, <2>5, <3>1
  <2>6. CASE m # 0
    <3>1. m - 1 \in Nat /\ ~(m <= m - 1) /\ m \in Nat
      BY <2>4, <2>6
    <3>2. PICK e : Goes(e, m - 1)
      BY <2>3, <3>1
    <3> DEFINE g == [i \in 0 .. m |-> IF i < m THEN e[i] ELSE Follow[e[m - 1]]]
    <3>3. \A i \in 0 .. m - 1 : e[i] = IF i = 0 THEN o ELSE Follow[e[i - 1]]
      BY <3>2
    <3>4. ASSUME NEW i \in 0 .. m PROVE g[i] = IF i = 0 THEN o ELSE Follow[g[i - 1]]
      <4>1. CASE i < m
        <5>1. g[i] = e[i] /\ i \in 0 .. m - 1 /\ (i # 0 => g[i - 1] = e[i - 1])
          BY <3>1, <4>1
        <5> QED
          BY <3>3, <5>1
      <4>2. CASE i = m
        <5>1. g[i] = Follow[e[m - 1]] /\ g[i - 1] = e[m - 1] /\ i # 0
          BY <2>6, <3>1, <4>2
        <5> QED
          BY <5>1
      <4> QED
        BY <3>1, <4>1, <4>2
    <3>5. g = [i \in 0 .. m |-> g[i]]
      OBVIOUS
    <3> HIDE DEF g
    <3>6. Goes(g, m)
      BY <3>4, <3>5
    <3> QED
      BY <2>4, <3>6
  <2> QED
    BY <2>5, <2>6
<1>3. PICK w : w = CHOOSE x : Goes(x, MAXDEPTH)
  OBVIOUS
<1>4. Goes(w, MAXDEPTH)
  <2> HIDE DEF Goes
  <2> QED
    BY <1>1, <1>2, <1>3
<1>5. Walk(o) = {w[i] : i \in 1 .. MAXDEPTH}
  BY <1>3 DEF Walk
<1>6. \A i \in 0 .. MAXDEPTH : w[i] = IF i = 0 THEN o ELSE Follow[w[i - 1]]
  BY <1>4
<1>7. w[0] = o /\ \A i \in 1 .. MAXDEPTH : w[i] = Follow[w[i - 1]]
  BY <1>1, <1>6
<1> QED
  BY <1>5, <1>7

\* If everyone in s but p waits for somebody in s, the walk from o comes to p, or there was a
\* cycle before.
LEMMA WalkComesTo ==
  ASSUME LockfBase, DeadlockIsFound, NEW p \in Procs, NEW s \in SUBSET Procs, p \in s,
         IsFiniteSet(s), Cardinality(s) <= MAXDEPTH + 1, NEW o \in s, o # p,
         \A x \in s \ {p} : \E q \in s : WaitsFor(x, q)
  PROVE  p \in Walk(o)
<1>1. SUFFICES ASSUME p \notin Walk(o) PROVE FALSE
  OBVIOUS
<1>2. PICK w : /\ w[0] = o /\ \A i \in 1 .. MAXDEPTH : w[i] = Follow[w[i - 1]]
               /\ Walk(o) = {w[i] : i \in 1 .. MAXDEPTH}
  BY WalkIs
<1>3. MAXDEPTH \in Nat
  BY LockfAssumption
<1>4. \A x \in s \ {p} : Follow[x] \in s /\ WaitsFor(x, Follow[x])
  <2> TAKE x \in s \ {p}
  <2>1. PICK q \in s : WaitsFor(x, q)
    OBVIOUS
  <2>2. x \in Procs /\ at[x] = "asleep" /\ nxt[x] = q
    BY <2>1 DEF WaitsFor
  <2>3. Follow[x] = q
    BY <2>2, NamesDiffer DEF Follow
  <2> QED
    BY <2>1, <2>3
<1>5. \A i \in 1 .. MAXDEPTH : w[i] # p
  BY <1>1, <1>2
<1>6. \A i \in 0 .. MAXDEPTH : w[i] \in s \ {p}
  <2> DEFINE Bad == {i \in 0 .. MAXDEPTH : w[i] \notin s \ {p}}
  <2>1. SUFFICES ASSUME Bad # {} PROVE FALSE
    OBVIOUS
  <2>2. PICK i \in Bad : \A k \in Bad : i <= k
    <3>1. Bad \in SUBSET Nat
      BY <1>3
    <3> HIDE DEF Bad
    <3> QED
      BY <2>1, <3>1, LeastIs
  <2>3. i \in 0 .. MAXDEPTH /\ w[i] \notin s \ {p}
    OBVIOUS
  <2>4. i # 0
    BY <1>2, <2>3
  <2>5. i \in 1 .. MAXDEPTH /\ i - 1 \in 0 .. MAXDEPTH /\ ~(i <= i - 1)
    BY <1>3, <2>3, <2>4
  <2>6. w[i - 1] \in s \ {p}
    BY <2>2, <2>5
  <2> QED
    BY <1>2, <1>4, <1>5, <2>3, <2>5, <2>6
<1>7. PICK d : d = [i \in 0 .. MAXDEPTH |-> w[i]]
  OBVIOUS
<1>8. d \in [0 .. MAXDEPTH -> s \ {p}] /\ \A i \in 0 .. MAXDEPTH : d[i] = w[i]
  BY <1>6, <1>7
<1>9. /\ IsFiniteSet(0 .. MAXDEPTH) /\ Cardinality(0 .. MAXDEPTH) = MAXDEPTH + 1
      /\ IsFiniteSet(s \ {p}) /\ Cardinality(s \ {p}) = Cardinality(s) - 1 /\ Cardinality(s) \in Nat
  <2>1. 0 \in Int /\ MAXDEPTH \in Int /\ ~(0 > MAXDEPTH) /\ MAXDEPTH - 0 + 1 = MAXDEPTH + 1
    BY <1>3
  <2>2. IsFiniteSet(0 .. MAXDEPTH) /\ Cardinality(0 .. MAXDEPTH) = MAXDEPTH + 1
    BY <2>1, FS_Interval
  <2>3. IsFiniteSet(s \ {p}) /\ Cardinality(s \ {p}) = Cardinality(s) - 1
    BY FS_RemoveElement
  <2>4. Cardinality(s) \in Nat
    BY FS_CardinalityType
  <2> QED
    BY <2>2, <2>3, <2>4
<1>10. Cardinality(s \ {p}) < Cardinality(0 .. MAXDEPTH)
  BY <1>3, <1>9
<1>11. PICK i \in 0 .. MAXDEPTH, j \in 0 .. MAXDEPTH : i < j /\ w[i] = w[j]
  <2>1. PICK x \in 0 .. MAXDEPTH, y \in 0 .. MAXDEPTH : x # y /\ d[x] = d[y]
    <3>1. d \in [0 .. MAXDEPTH -> s \ {p}]
      BY <1>8
    <3>2. IsFiniteSet(0 .. MAXDEPTH) /\ IsFiniteSet(s \ {p})
      BY <1>9
    <3> QED
      BY <1>10, <3>1, <3>2, FS_PigeonHole
  <2>2. CASE x < y
    BY <1>8, <2>1, <2>2
  <2>3. CASE ~(x < y)
    <3>1. y < x /\ w[y] = w[x]
      BY <1>8, <2>1, <2>3
    <3> QED
      BY <3>1
  <2> QED
    BY <2>2, <2>3
<1>12. PICK c : c = {w[k] : k \in i .. j - 1}
  OBVIOUS
<1>13. \A k \in i .. j - 1 : k \in 0 .. MAXDEPTH /\ k + 1 \in 1 .. MAXDEPTH /\ w[k + 1] \in c
  <2> TAKE k \in i .. j - 1
  <2>1. k \in 0 .. MAXDEPTH /\ k + 1 \in 1 .. MAXDEPTH /\ (k + 1 = j \/ k + 1 \in i .. j - 1) /\ i \in i .. j - 1
    BY <1>3, <1>11
  <2> QED
    BY <1>11, <1>12, <2>1
<1>14. c \subseteq s \ {p} /\ c # {}
  <2>1. i \in i .. j - 1
    BY <1>3, <1>11
  <2> QED
    BY <1>6, <1>12, <1>13, <2>1
<1>15. IsFiniteSet(c) /\ Cardinality(c) <= MAXDEPTH + 1
  <2>1. IsFiniteSet(c) /\ Cardinality(c) <= Cardinality(s) /\ Cardinality(c) \in Nat
    <3>1. c \in SUBSET s
      BY <1>14
    <3>2. IsFiniteSet(c) /\ Cardinality(c) <= Cardinality(s)
      BY <3>1, FS_Subset
    <3> QED
      BY <3>2, FS_CardinalityType
  <2> QED
    BY <1>3, <1>9, <2>1
<1>16. c \in (SUBSET Procs) \ {{}}
  BY <1>14
<1>17. PICK x \in c : \A q \in c : ~WaitsFor(x, q)
  BY <1>15, <1>16 DEF DeadlockIsFound
<1>18. PICK k \in i .. j - 1 : x = w[k]
  BY <1>12
<1>19. w[k] \in s \ {p} /\ w[k + 1] \in c /\ w[k + 1] = Follow[w[k]]
  <2>1. k \in 0 .. MAXDEPTH /\ k + 1 \in 1 .. MAXDEPTH /\ w[k + 1] \in c
    BY <1>13
  <2>2. w[k + 1] = Follow[w[k + 1 - 1]] /\ k + 1 - 1 = k
    BY <1>2, <2>1
  <2> QED
    BY <1>6, <2>1, <2>2
<1> QED
  BY <1>4, <1>17, <1>18, <1>19

\* Nobody comes to wait.
NoMoreWaits == \A q \in Procs :
  /\ at'[q] = "asleep" => at[q] = "asleep" /\ lock'[q] = lock[q]
  /\ nxt'[q] \in {nxt[q], NONE, FREED}

LEMMA GoNoMoreWaits ==
  ASSUME LockfBase, NEW p \in Procs, NEW x, x # "asleep", NEW w, NEW s, Go(p, x, w, s), Return(p) \/ lock' = lock
  PROVE  NoMoreWaits
<1>1. \A q \in Procs : q # p => lock'[q] = lock[q]
  <2>1. lock \in [Procs -> AllCalls]
    BY DEF LockfBase
  <2> QED
    BY <2>1 DEF Return
<1>2. at' = [q \in Procs |-> IF q = p THEN x ELSE IF q \in w /\ at[q] = "asleep" THEN "woken" ELSE at[q]]
  BY DEF Go
<1>3. nxt' = [q \in Procs |-> IF q \in w THEN NONE ELSE IF q \in s THEN FREED ELSE nxt[q]]
  BY DEF Go
<1>4. \A q \in Procs : nxt'[q] \in {nxt[q], NONE, FREED}
  BY <1>3
<1>5. \A q \in Procs : at'[q] = "asleep" => at[q] = "asleep" /\ lock'[q] = lock[q]
  BY <1>1, <1>2
<1> QED
  BY <1>4, <1>5 DEF NoMoreWaits

LEMMA OthersNoMoreWaits ==
  ASSUME LockfInv, NEW p \in Procs,
         \/ \E a \in PosixCall(p) \cup FlockCall : ufs_advlock(p, a)
         \/ setlock_eagain(p) \/ setlock_edeadlk(p) \/ setlock_grant(p)
         \/ clearlock(p) \/ split_sleep(p) \/ split_done(p) \/ setlock_eintr(p) \/ follow_freed(p)
  PROVE  NoMoreWaits
<1>1. LockfBase /\ lock \in [Procs -> AllCalls] /\ at \in [Procs -> Places] /\ nxt \in [Procs -> Owners \cup {FREED, NONE}]
  BY DEF LockfInv, LockfBase
<1>2. CASE \E a \in PosixCall(p) \cup FlockCall : ufs_advlock(p, a)
  <2>1. PICK a \in PosixCall(p) \cup FlockCall : ufs_advlock(p, a)
    BY <1>2
  <2>2. lock' = [lock EXCEPT ![p] = a] /\ at' = [at EXCEPT ![p] = "call"] /\ nxt' = nxt
    BY <2>1 DEF ufs_advlock
  <2> QED
    BY <1>1, <2>2 DEF NoMoreWaits
<1>3. CASE setlock_eagain(p) \/ setlock_edeadlk(p)
  <2>1. Return(p) /\ Go(p, "idle", {}, {})
    BY <1>3 DEF setlock_eagain, setlock_edeadlk
  <2> QED
    BY <1>1, <2>1, GoNoMoreWaits
<1>4. ASSUME Link(p) PROVE NoMoreWaits
  <2>1. PICK w, s : w = LinkWakes(lock[p]) /\ s = BlockedOn(TakenOver(lock[p]))
    OBVIOUS
  <2>2. Return(p) /\ Go(p, "idle", w, s)
    BY <1>4, <2>1 DEF Link
  <2> QED
    BY <1>1, <2>2, GoNoMoreWaits
<1>5. CASE setlock_grant(p)
  BY <1>4, <1>5 DEF setlock_grant
<1>6. CASE clearlock(p)
  <2>1. PICK w : w = BlockedOn(SelfOverlaps(lock[p]))
    OBVIOUS
  <2>2. Return(p) /\ Go(p, "idle", w, {})
    BY <1>6, <2>1 DEF clearlock
  <2> QED
    BY <1>1, <2>2, GoNoMoreWaits
<1>7. CASE split_sleep(p)
  <2>1. PICK w : w = IF lock[p].type = "UN" THEN BlockedOn(SelfOverlaps(lock[p])) ELSE {}
    OBVIOUS
  <2>2. lock' = lock /\ Go(p, "split", w, {})
    BY <1>7, <2>1 DEF split_sleep
  <2> QED
    BY <1>1, <2>2, GoNoMoreWaits
<1>8. CASE split_done(p)
  <2>1. CASE Link(p)
    BY <1>4, <2>1
  <2>2. CASE ~Link(p)
    <3>1. Return(p) /\ at' = [at EXCEPT ![p] = "idle"] /\ nxt' = nxt
      BY <1>8, <2>2 DEF split_done
    <3> QED
      BY <1>1, <3>1 DEF NoMoreWaits, Return
  <2> QED
    BY <2>1, <2>2
<1>9. CASE setlock_eintr(p)
  <2>1. Return(p) /\ at' = [at EXCEPT ![p] = "idle"] /\ nxt' = [nxt EXCEPT ![p] = NONE]
    BY <1>9 DEF setlock_eintr
  <2> QED
    BY <1>1, <2>1 DEF NoMoreWaits, Return
<1>10. CASE follow_freed(p)
  <2>1. at' = at /\ lock' = lock /\ nxt' = nxt
    BY <1>10 DEF follow_freed
  <2> QED
    BY <2>1 DEF NoMoreWaits
<1> QED
  BY <1>2, <1>3, <1>5, <1>6, <1>7, <1>8, <1>9, <1>10

\* The waits of the others are what they were.
LEMMA SleepWaits ==
  ASSUME LockfInv, NEW p \in Procs, setlock_sleep(p)
  PROVE  /\ \A x \in Procs \ {p} : \A q \in Procs : WaitsFor(x, q)' => WaitsFor(x, q)
         /\ \A q \in Procs : WaitsFor(p, q)' => lock[p].own = p /\ q # p /\ p \notin Walk(q)
<1>1. LockfBase /\ Chain(i_lockf)
  BY DEF LockfInv
<1>2. PICK a : a = lock[p]
  OBVIOUS
<1>3. PICK m : m = Min(lf_getblock(a))
  OBVIOUS
<1>4. at[p] \in {"call", "woken"} /\ a.type # "UN" /\ \E given : Sleeps(p, a, m, given)
  BY <1>2, <1>3, SleepIs
<1>5. PICK given : Sleeps(p, a, m, given)
  BY <1>4
<1>6. PICK w : w = BlockedOn(given)
  OBVIOUS
<1>7. PICK o : o = i_lockf[m].own
  OBVIOUS
<1>8. /\ at' = [q \in Procs |-> IF q = p THEN "asleep" ELSE IF q \in w /\ at[q] = "asleep" THEN "woken" ELSE at[q]]
      /\ nxt' = [q \in Procs |-> IF q = p THEN o ELSE IF q \in w THEN NONE ELSE nxt[q]]
      /\ lock' = lock /\ o # a.own
  BY <1>5, <1>6, <1>7 DEF Sleeps, Blocks, Own
<1>9. ASSUME NEW x \in Procs \ {p}, NEW q \in Procs, WaitsFor(x, q)' PROVE WaitsFor(x, q)
  <2>1. at'[x] = "asleep" /\ lock'[x].own = x /\ nxt'[x] = q
    BY <1>9 DEF WaitsFor
  <2>2. q # NONE
    BY NamesDiffer
  <2>3. at[x] = "asleep" /\ nxt[x] = q /\ lock[x].own = x
    BY <1>8, <2>1, <2>2
  <2> QED
    BY <2>3 DEF WaitsFor
<1>10. ASSUME NEW q \in Procs, WaitsFor(p, q)' PROVE lock[p].own = p /\ q # p /\ p \notin Walk(q)
  <2>1. lock'[p].own = p /\ nxt'[p] = q
    BY <1>10 DEF WaitsFor
  <2>2. a.own = p /\ o = q
    BY <1>2, <1>8, <2>1
  <2>3. FALSE \in Deadlock(p, Blocker(p).own)
    BY DEF setlock_sleep
  <2>4. Blocker(p).own = o
    BY <1>2, <1>3, <1>7 DEF Blocker
  <2>5. p \notin Walk(q)
    BY <1>2, <2>2, <2>3, <2>4 DEF Deadlock
  <2> QED
    BY <1>2, <1>8, <2>2, <2>5
<1> QED
  BY <1>9, <1>10

LEMMA StepDeadlock == ASSUME LockfInv, DeadlockIsFound, [LockfNext]_lockfVars PROVE DeadlockIsFound'
<1>1. ASSUME NoMoreWaits PROVE DeadlockIsFound'
  <2>1. ASSUME NEW x \in Procs, NEW q \in Procs, WaitsFor(x, q)' PROVE WaitsFor(x, q)
    <3>1. at'[x] = "asleep" /\ lock'[x].own = x /\ nxt'[x] = q
      BY <2>1 DEF WaitsFor
    <3>2. at[x] = "asleep" /\ lock'[x] = lock[x] /\ nxt'[x] \in {nxt[x], NONE, FREED}
      BY <1>1, <3>1 DEF NoMoreWaits
    <3>3. q # NONE /\ q # FREED
      BY NamesDiffer
    <3> QED
      BY <3>1, <3>2, <3>3 DEF WaitsFor
  <2>2. ASSUME NEW s \in (SUBSET Procs) \ {{}}, IsFiniteSet(s), Cardinality(s) <= MAXDEPTH + 1
        PROVE  \E x \in s : \A q \in s : ~WaitsFor(x, q)'
    <3>1. PICK x \in s : \A q \in s : ~WaitsFor(x, q)
      BY <2>2 DEF DeadlockIsFound
    <3> QED
      BY <2>1, <3>1
  <2> QED
    BY <2>2 DEF DeadlockIsFound
<1>2. CASE UNCHANGED lockfVars
  <2>1. at' = at /\ lock' = lock /\ nxt' = nxt
    BY <1>2 DEF lockfVars
  <2> QED
    BY <1>1, <2>1 DEF NoMoreWaits
<1>3. ASSUME NEW p \in Procs, setlock_sleep(p) PROVE DeadlockIsFound'
  <2>1. /\ \A x \in Procs \ {p} : \A q \in Procs : WaitsFor(x, q)' => WaitsFor(x, q)
        /\ \A q \in Procs : WaitsFor(p, q)' => lock[p].own = p /\ q # p /\ p \notin Walk(q)
    BY <1>3, SleepWaits
  <2>2. ASSUME NEW s \in (SUBSET Procs) \ {{}}, IsFiniteSet(s), Cardinality(s) <= MAXDEPTH + 1
        PROVE  \E x \in s : \A q \in s : ~WaitsFor(x, q)'
    <3>1. SUFFICES ASSUME \A x \in s : \E q \in s : WaitsFor(x, q)' PROVE FALSE
      OBVIOUS
    <3>2. \A x \in s \ {p} : \E q \in s : WaitsFor(x, q)
      BY <2>1, <3>1
    <3>3. CASE p \in s
      <4>1. PICK o \in s : WaitsFor(p, o)'
        BY <3>1, <3>3
      <4>2. o # p /\ p \notin Walk(o)
        BY <2>1, <4>1
      <4>3. LockfBase
        BY DEF LockfInv
      <4>4. s \in SUBSET Procs
        OBVIOUS
      <4> QED
        BY <2>2, <3>2, <3>3, <4>2, <4>3, <4>4, WalkComesTo
    <3>4. CASE p \notin s
      <4>1. PICK x \in s : \A q \in s : ~WaitsFor(x, q)
        BY <2>2 DEF DeadlockIsFound
      <4> QED
        BY <3>2, <3>4, <4>1
    <3> QED
      BY <3>3, <3>4
  <2> QED
    BY <2>2 DEF DeadlockIsFound
<1>4. ASSUME NEW p \in Procs,
             \/ \E a \in PosixCall(p) \cup FlockCall : ufs_advlock(p, a)
             \/ setlock_eagain(p) \/ setlock_edeadlk(p) \/ setlock_sleep(p) \/ setlock_grant(p)
             \/ clearlock(p) \/ split_sleep(p) \/ split_done(p) \/ setlock_eintr(p) \/ follow_freed(p)
      PROVE  DeadlockIsFound'
  BY <1>1, <1>3, <1>4, OthersNoMoreWaits
<1> QED
  BY <1>2, <1>4 DEF LockfNext

LEMMA InitDeadlock == ASSUME LockfInit PROVE DeadlockIsFound
<1>1. \A p \in Procs : at[p] # "asleep"
  BY DEF LockfInit
<1> QED
  BY <1>1 DEF DeadlockIsFound, WaitsFor

\* For any processes, open files and requests, and whatever the signals: as many processes as
\* the walk of lf_setlock() looks at never wait for one another's byte range locks in a
\* circle, but for one that a pointer to a freed lock was part of.
THEOREM CirclesAreRefused == LockfSpec => []DeadlockIsFound
<1>1. LockfInit => LockfInv /\ DeadlockIsFound
  BY InitLockfInv, InitDeadlock
<1>2. (LockfInv /\ DeadlockIsFound) /\ [LockfNext]_lockfVars => (LockfInv /\ DeadlockIsFound)'
  BY StepLockfInv, StepDeadlock
<1> QED
  BY <1>1, <1>2, PTL DEF LockfSpec

-----------------------------------------------------------------------------
(* The list, byte by byte.                                                 *)

Over(x, b) == x.start <= b /\ b <= Top(x.end)
\* Owner o has byte b of list s locked with type ty.
HasByte(s, o, b, ty) == \E x \in Range(s) : x.own = o /\ x.type = ty /\ Over(x, b)
ByteOf(s, o, b) == IF HasByte(s, o, b, "WR") THEN "WR" ELSE IF HasByte(s, o, b, "RD") THEN "RD" ELSE "NONE"
HoldsOf(s) == [o \in Owners |-> [b \in Bytes |-> ByteOf(s, o, b)]]

\* h after the bytes of owner o in s have become ty.
Retaken(h, o, s, ty) == [h EXCEPT ![o] = [b \in Bytes |-> IF b \in s THEN ty ELSE @[b]]]

\* The bytes that a has change to ty for its owner ("NONE": they are unlocked), and no others do.
Changes(t, s, a, ty) ==
  \A o \in Owners : \A b \in Bytes : \A u \in {"RD", "WR"} :
    HasByte(t, o, b, u) <=> IF o = a.own /\ Over(a, b) THEN u = ty ELSE HasByte(s, o, b, u)
SameBytes(t, s) ==
  \A o \in Owners : \A b \in Bytes : \A u \in {"RD", "WR"} : HasByte(t, o, b, u) <=> HasByte(s, o, b, u)

LEMMA OverIs == ASSUME NEW x, x.end \in Ends, x.start \in Int, NEW b \in Bytes PROVE b \in BytesOf(x) <=> Over(x, b)
<1>1. MaxByte \in Nat /\ b \in Int /\ Top(x.end) \in Int
  BY ByteIs DEF Bytes
<1>2. BytesOf(x) = x.start .. Top(x.end)
  BY DEF BytesOf, Top
<1> QED
  BY <1>1, <1>2 DEF Over

LEMMA HoldsIs ==
  ASSUME NEW s, Chain(s), NEW o \in Owners, NEW b \in Bytes, NEW u
  PROVE  HasByte(s, o, b, u) <=> \E i \in DOMAIN s : s[i].own = o /\ s[i].type = u /\ b \in BytesOf(s[i])
<1>1. /\ DOMAIN s = 1 .. Len(s) /\ \A i \in 1 .. Len(s) : s[i] \in GoodLocks
      /\ \A x : x \in Range(s) <=> \E i \in 1 .. Len(s) : s[i] = x
  BY ListIs
<1>2. \A i \in 1 .. Len(s) : b \in BytesOf(s[i]) <=> Over(s[i], b)
  BY <1>1, LockIs, OverIs
<1> QED
  BY <1>1, <1>2 DEF HasByte

LEMMA HoldsAre == Chain(i_lockf) => Holds = HoldsOf(i_lockf)
<1>1. SUFFICES ASSUME Chain(i_lockf) PROVE Holds = HoldsOf(i_lockf)
  OBVIOUS
<1>2. \A o \in Owners : \A b \in Bytes : \A u \in {"RD", "WR"} : Covers(o, b, u) <=> HasByte(i_lockf, o, b, u)
  BY <1>1, HoldsIs DEF Covers
<1>3. \A o \in Owners : \A b \in Bytes :
        (IF Covers(o, b, "WR") THEN "WR" ELSE IF Covers(o, b, "RD") THEN "RD" ELSE "NONE") = ByteOf(i_lockf, o, b)
  BY <1>2 DEF ByteOf
<1> QED
  BY <1>3 DEF Holds, HoldsOf

LEMMA HoldsNext == Chain(i_lockf)' => Holds' = HoldsOf(i_lockf')
<1>1. SUFFICES ASSUME Chain(i_lockf)' PROVE Holds' = HoldsOf(i_lockf')
  OBVIOUS
<1>2. \A o \in Owners : \A b \in Bytes : \A u \in {"RD", "WR"} : Covers(o, b, u)' <=> HasByte(i_lockf', o, b, u)
  BY <1>1, HoldsIs DEF Covers
<1>3. \A o \in Owners : \A b \in Bytes :
        (IF Covers(o, b, "WR")' THEN "WR" ELSE IF Covers(o, b, "RD")' THEN "RD" ELSE "NONE") = ByteOf(i_lockf', o, b)
  BY <1>2 DEF ByteOf
<1> QED
  BY <1>3 DEF Holds, HoldsOf

\* In the words of the abstract specification.
LEMMA ChangesHolds ==
  ASSUME NEW s, NEW t, NEW a, IsCall(a), NEW ty \in {"RD", "WR", "NONE"}, Changes(t, s, a, ty)
  PROVE  HoldsOf(t) = Retaken(HoldsOf(s), a.own, BytesOf(a), ty)
<1>1. \A b \in Bytes : b \in BytesOf(a) <=> Over(a, b)
  BY CallIs, OverIs
<1>2. a.own \in Owners
  BY CallIs
<1>3. ASSUME NEW o \in Owners, NEW b \in Bytes
      PROVE  ByteOf(t, o, b) = IF o = a.own /\ b \in BytesOf(a) THEN ty ELSE ByteOf(s, o, b)
  <2>1. \A u \in {"RD", "WR"} :
          HasByte(t, o, b, u) <=> IF o = a.own /\ Over(a, b) THEN u = ty ELSE HasByte(s, o, b, u)
    BY DEF Changes
  <2> QED
    BY <1>1, <2>1 DEF ByteOf
<1>4. PICK h : h = HoldsOf(s)
  OBVIOUS
<1>5. PICK g : g = [b \in Bytes |-> IF b \in BytesOf(a) THEN ty ELSE h[a.own][b]]
  OBVIOUS
<1>6. h = [o \in Owners |-> [b \in Bytes |-> ByteOf(s, o, b)]]
  BY <1>4 DEF HoldsOf
<1>7. ASSUME NEW o \in Owners PROVE HoldsOf(t)[o] = IF o = a.own THEN g ELSE h[o]
  <2>1. HoldsOf(t)[o] = [b \in Bytes |-> ByteOf(t, o, b)]
    BY DEF HoldsOf
  <2>2. CASE o = a.own
    <3>1. \A b \in Bytes : ByteOf(t, o, b) = IF b \in BytesOf(a) THEN ty ELSE ByteOf(s, o, b)
      BY <1>3, <2>2
    <3>2. \A b \in Bytes : h[a.own][b] = ByteOf(s, o, b)
      BY <1>6, <2>2
    <3> QED
      BY <1>5, <2>1, <2>2, <3>1, <3>2
  <2>3. CASE o # a.own
    <3>1. \A b \in Bytes : ByteOf(t, o, b) = ByteOf(s, o, b)
      BY <1>3, <2>3
    <3> QED
      BY <1>6, <2>1, <2>3, <3>1
  <2> QED
    BY <2>2, <2>3
<1>8. HoldsOf(t) = [o \in Owners |-> IF o = a.own THEN g ELSE h[o]]
  <2>1. HoldsOf(t) = [o \in Owners |-> HoldsOf(t)[o]]
    BY DEF HoldsOf
  <2> QED
    BY <1>7, <2>1
<1>9. HoldsOf(t) = [h EXCEPT ![a.own] = g]
  BY <1>2, <1>6, <1>8
<1> QED
  BY <1>4, <1>5, <1>9 DEF Retaken

LEMMA SameHolds == ASSUME NEW s, NEW t, SameBytes(t, s) PROVE HoldsOf(t) = HoldsOf(s)
<1>1. \A o \in Owners : \A b \in Bytes : ByteOf(t, o, b) = ByteOf(s, o, b)
  BY DEF SameBytes, ByteOf
<1> QED
  BY <1>1 DEF HoldsOf

\* What is left of a lock has the bytes of the lock outside the range.
LEMMA PieceBytes ==
  ASSUME NEW l \in GoodLocks, NEW a, IsCall(a), NEW b \in Bytes
  PROVE  /\ \A x : PieceOf(x, l, a) /\ Over(x, b) =>
                     x.own = l.own /\ x.type = l.type /\ Over(l, b) /\ ~(l.own = a.own /\ Over(a, b))
         /\ \A R : HasPieces(R, l, a) /\ Over(l, b) /\ ~(l.own = a.own /\ Over(a, b)) =>
                     \E x \in R : x.own = l.own /\ x.type = l.type /\ Over(x, b)
<1>1. /\ l.start \in Int /\ Top(l.end) \in Int /\ l.start <= Top(l.end) /\ Top(l.end) <= MaxByte + 1
  BY LockIs
<1>2. /\ a.start \in Int /\ Top(a.end) \in Int /\ a.start <= Top(a.end) /\ (a.end = EOF => Top(a.end) = MaxByte + 1)
  BY CallIs
<1>3. b \in Int /\ b <= MaxByte + 1 /\ MaxByte \in Nat
  BY ByteIs DEF Bytes
<1>4. ASSUME NEW x, PieceOf(x, l, a), Over(x, b)
      PROVE  x.own = l.own /\ x.type = l.type /\ Over(l, b) /\ ~(l.own = a.own /\ Over(a, b))
  <2>1. CASE ~OwnMeets(l, a)
    <3>1. x = l
      BY <1>4, <2>1 DEF PieceOf
    <3>2. ~(l.own = a.own /\ Over(a, b))
      BY <1>1, <1>2, <1>3, <1>4, <2>1, <3>1 DEF OwnMeets, Own, Meets, Over
    <3> QED
      BY <1>4, <3>1, <3>2
  <2>2. CASE OwnMeets(l, a) /\ FrontOf(x, l, a)
    <3>1. x.own = l.own /\ x.type = l.type /\ x.start = l.start /\ Top(x.end) = a.start - 1
      BY <2>2 DEF FrontOf
    <3>2. a.start <= Top(l.end)
      BY <2>2 DEF OwnMeets, Meets
    <3> QED
      BY <1>1, <1>2, <1>3, <1>4, <3>1, <3>2 DEF Over
  <2>3. CASE OwnMeets(l, a) /\ BackOf(x, l, a)
    <3>1. x.own = l.own /\ x.type = l.type /\ x.end = l.end /\ x.start = Top(a.end) + 1
      BY <2>3 DEF BackOf
    <3>2. l.start <= Top(a.end)
      BY <2>3 DEF OwnMeets, Meets
    <3> QED
      BY <1>1, <1>2, <1>3, <1>4, <3>1, <3>2 DEF Over
  <2> QED
    BY <1>4, <2>1, <2>2, <2>3 DEF PieceOf
<1>5. ASSUME NEW R, HasPieces(R, l, a), Over(l, b), ~(l.own = a.own /\ Over(a, b))
      PROVE  \E x \in R : x.own = l.own /\ x.type = l.type /\ Over(x, b)
  <2>1. CASE ~OwnMeets(l, a)
    BY <1>5, <2>1 DEF HasPieces
  <2>2. CASE OwnMeets(l, a) /\ b < a.start
    <3>1. l.start < a.start
      BY <1>1, <1>2, <1>3, <1>5, <2>2 DEF Over
    <3>2. PICK x \in R : FrontOf(x, l, a)
      BY <1>5, <2>2, <3>1 DEF HasPieces
    <3>3. x.own = l.own /\ x.type = l.type /\ x.start = l.start /\ Top(x.end) = a.start - 1
      BY <3>2 DEF FrontOf
    <3>4. Over(x, b)
      BY <1>1, <1>2, <1>3, <1>5, <2>2, <3>3 DEF Over
    <3> QED
      BY <3>3, <3>4
  <2>3. CASE OwnMeets(l, a) /\ ~(b < a.start)
    <3>1. Top(a.end) < b
      BY <1>2, <1>3, <1>5, <2>3 DEF Over, OwnMeets, Own
    <3>2. a.end # EOF /\ Top(a.end) < Top(l.end)
      BY <1>1, <1>2, <1>3, <1>5, <3>1 DEF Over
    <3>3. PICK x \in R : BackOf(x, l, a)
      BY <1>5, <2>3, <3>2 DEF HasPieces
    <3>4. x.own = l.own /\ x.type = l.type /\ x.end = l.end /\ x.start = Top(a.end) + 1
      BY <3>3 DEF BackOf
    <3>5. Over(x, b)
      BY <1>1, <1>2, <1>3, <1>5, <3>1, <3>4 DEF Over
    <3> QED
      BY <3>4, <3>5
  <2> QED
    BY <2>1, <2>2, <2>3
<1> QED
  BY <1>4, <1>5

LEMMA TrimmedChanges ==
  ASSUME NEW s, Chain(s), NEW a, IsCall(a), NEW t, IsTrimmed(t, s, a)
  PROVE  Changes(t, s, a, "NONE")
<1>1. \A l \in Range(s) : l \in GoodLocks
  BY ListIs
<1>2. ASSUME NEW o \in Owners, NEW b \in Bytes, NEW u \in {"RD", "WR"}
      PROVE  HasByte(t, o, b, u) <=> IF o = a.own /\ Over(a, b) THEN u = "NONE" ELSE HasByte(s, o, b, u)
  <2>1. ASSUME HasByte(t, o, b, u) PROVE ~(o = a.own /\ Over(a, b)) /\ HasByte(s, o, b, u)
    <3>1. PICK x \in Range(t) : x.own = o /\ x.type = u /\ Over(x, b)
      BY <2>1 DEF HasByte
    <3>2. PICK l \in Range(s) : PieceOf(x, l, a)
      BY <3>1 DEF IsTrimmed
    <3>3. x.own = l.own /\ x.type = l.type /\ Over(l, b) /\ ~(l.own = a.own /\ Over(a, b))
      BY <1>1, <3>1, <3>2, PieceBytes
    <3> QED
      BY <3>1, <3>3 DEF HasByte
  <2>2. ASSUME HasByte(s, o, b, u), ~(o = a.own /\ Over(a, b)) PROVE HasByte(t, o, b, u)
    <3>1. PICK l \in Range(s) : l.own = o /\ l.type = u /\ Over(l, b)
      BY <2>2 DEF HasByte
    <3>2. HasPieces(Range(t), l, a)
      BY DEF IsTrimmed
    <3>3. \E x \in Range(t) : x.own = l.own /\ x.type = l.type /\ Over(x, b)
      BY <1>1, <2>2, <3>1, <3>2, PieceBytes
    <3> QED
      BY <3>1, <3>3 DEF HasByte
  <2> QED
    BY <2>1, <2>2
<1> QED
  BY <1>2 DEF Changes

LEMMA PartedChanges ==
  ASSUME NEW s, Chain(s), NEW a, IsCall(a), NEW t, NEW n, IsParted(t, s, a, n),
         n.own = a.own, n.start = a.start, n.end = a.end, n.type = a.type
  PROVE  Changes(t, s, a, a.type)
<1>1. \A l \in Range(s) : l \in GoodLocks
  BY ListIs
<1>2. ASSUME NEW o \in Owners, NEW b \in Bytes, NEW u \in {"RD", "WR"}
      PROVE  HasByte(t, o, b, u) <=> IF o = a.own /\ Over(a, b) THEN u = a.type ELSE HasByte(s, o, b, u)
  <2>1. Over(n, b) <=> Over(a, b)
    BY DEF Over
  <2>2. ASSUME HasByte(t, o, b, u)
        PROVE  IF o = a.own /\ Over(a, b) THEN u = a.type ELSE HasByte(s, o, b, u)
    <3>1. PICK x \in Range(t) : x.own = o /\ x.type = u /\ Over(x, b)
      BY <2>2 DEF HasByte
    <3>2. CASE x = n
      BY <2>1, <3>1, <3>2
    <3>3. CASE x # n
      <4>1. PICK l \in Range(s) : PieceOf(x, l, a)
        BY <3>1, <3>3 DEF IsParted
      <4>2. x.own = l.own /\ x.type = l.type /\ Over(l, b) /\ ~(l.own = a.own /\ Over(a, b))
        BY <1>1, <3>1, <4>1, PieceBytes
      <4> QED
        BY <3>1, <4>2 DEF HasByte
    <3> QED
      BY <3>2, <3>3
  <2>3. ASSUME o = a.own, Over(a, b), u = a.type PROVE HasByte(t, o, b, u)
    BY <2>1, <2>3 DEF HasByte, IsParted
  <2>4. ASSUME HasByte(s, o, b, u), ~(o = a.own /\ Over(a, b)) PROVE HasByte(t, o, b, u)
    <3>1. PICK l \in Range(s) : l.own = o /\ l.type = u /\ Over(l, b)
      BY <2>4 DEF HasByte
    <3>2. HasPieces(Range(t), l, a)
      BY <3>1 DEF IsParted
    <3>3. \E x \in Range(t) : x.own = l.own /\ x.type = l.type /\ Over(x, b)
      BY <1>1, <2>4, <3>1, <3>2, PieceBytes
    <3> QED
      BY <3>1, <3>3 DEF HasByte
  <2> QED
    BY <2>2, <2>3, <2>4
<1> QED
  BY <1>2 DEF Changes

\* The lists whose locks have the same ranges and types.
LEMMA RestBytes ==
  ASSUME Chain(i_lockf), NEW a, IsCall(a)
  PROVE  SameBytes(Rest(a), i_lockf)
<1>1. PICK r : r = Rest(a)
  OBVIOUS
<1>2. /\ \A x : x \in Range(i_lockf) <=> \E i \in 1 .. Len(i_lockf) : i_lockf[i] = x
      /\ \A x : x \in Range(r) <=> \E i \in 1 .. Len(i_lockf) : r[i] = x
      /\ \A i \in 1 .. Len(i_lockf) : r[i] = i_lockf[i] \/ SameRange(r[i], i_lockf[i])
  BY <1>1, OverlapsRest
<1>3. \A i \in 1 .. Len(i_lockf) : SameRange(r[i], i_lockf[i])
  BY <1>2 DEF SameRange
<1>4. ASSUME NEW o \in Owners, NEW b \in Bytes, NEW u \in {"RD", "WR"}
      PROVE  HasByte(r, o, b, u) <=> HasByte(i_lockf, o, b, u)
  <2>1. \A i \in 1 .. Len(i_lockf) :
          (r[i].own = o /\ r[i].type = u /\ Over(r[i], b)) <=> (i_lockf[i].own = o /\ i_lockf[i].type = u /\ Over(i_lockf[i], b))
    BY <1>3 DEF SameRange, Over
  <2>2. HasByte(r, o, b, u) <=> \E i \in 1 .. Len(i_lockf) : r[i].own = o /\ r[i].type = u /\ Over(r[i], b)
    BY <1>2 DEF HasByte
  <2>3. HasByte(i_lockf, o, b, u) <=>
          \E i \in 1 .. Len(i_lockf) : i_lockf[i].own = o /\ i_lockf[i].type = u /\ Over(i_lockf[i], b)
    BY <1>2 DEF HasByte
  <2> QED
    BY <2>1, <2>2, <2>3
<1> QED
  BY <1>1, <1>4 DEF SameBytes

LEMMA ChangesAfter ==
  ASSUME NEW t, NEW r, NEW s, NEW a, NEW ty, Changes(t, r, a, ty), SameBytes(r, s)
  PROVE  Changes(t, s, a, ty)
BY DEF Changes, SameBytes

LEMMA OverMeets ==
  ASSUME NEW x \in GoodLocks, NEW a, IsCall(a), NEW b \in Bytes, Over(x, b), Over(a, b)
  PROVE  Meets(x, a)
<1>1. /\ x.start \in Int /\ Top(x.end) \in Int /\ a.start \in Int /\ Top(a.end) \in Int /\ b \in Int
  BY LockIs, CallIs, ByteIs DEF Bytes
<1> QED
  BY <1>1 DEF Over, Meets

\* With one overlap, the bytes of the range are that lock's.
LEMMA OnlyOver ==
  ASSUME Chain(i_lockf), NEW a, IsCall(a), NEW k, SelfOverlaps(a) = {k}, NEW i \in 1 .. Len(i_lockf),
         NEW b \in Bytes, Over(a, b), i_lockf[i].own = a.own, Over(i_lockf[i], b)
  PROVE  i = k
<1>1. i_lockf[i] \in GoodLocks
  BY ListIs
<1>2. OwnMeets(i_lockf[i], a)
  BY <1>1, OverMeets DEF OwnMeets, Own
<1> QED
  BY <1>2, OverlapsAre

LEMMA RetypedChanges ==
  ASSUME Chain(i_lockf), NEW a, IsCall(a), a.type # "UN", NEW k, SelfOverlaps(a) = {k},
         NEW t, IsRetyped(t, i_lockf, a, k)
  PROVE  Changes(t, i_lockf, a, a.type)
<1>1. /\ Chain(t) /\ Len(t) = Len(i_lockf) /\ k \in 1 .. Len(i_lockf) /\ i_lockf[k].own = a.own
      /\ \A i \in 1 .. Len(i_lockf) : i # k => t[i] = i_lockf[i]
      /\ t[k].own = a.own /\ t[k].type = a.type /\ t[k].start = a.start /\ t[k].end = a.end
      /\ i_lockf[k].start = a.start /\ i_lockf[k].end = a.end
  BY DEF IsRetyped, OwnMeets, Own
<1>2. /\ \A x : x \in Range(i_lockf) <=> \E i \in 1 .. Len(i_lockf) : i_lockf[i] = x
      /\ \A x : x \in Range(t) <=> \E i \in 1 .. Len(i_lockf) : t[i] = x
  <2>1. \A x : x \in Range(i_lockf) <=> \E i \in 1 .. Len(i_lockf) : i_lockf[i] = x
    BY ListIs
  <2>2. Chain(t)
    BY <1>1
  <2>3. \A x : x \in Range(t) <=> \E i \in 1 .. Len(t) : t[i] = x
    BY <2>2, ListIs
  <2> QED
    BY <1>1, <2>1, <2>3
<1>3. \A b : (Over(t[k], b) <=> Over(a, b)) /\ (Over(i_lockf[k], b) <=> Over(a, b))
  BY <1>1 DEF Over
<1>4. ASSUME NEW o \in Owners, NEW b \in Bytes, NEW u \in {"RD", "WR"}
      PROVE  HasByte(t, o, b, u) <=> IF o = a.own /\ Over(a, b) THEN u = a.type ELSE HasByte(i_lockf, o, b, u)
  <2>1. CASE o = a.own /\ Over(a, b)
    <3>1. ASSUME HasByte(t, o, b, u) PROVE u = a.type
      <4>1. PICK i \in 1 .. Len(i_lockf) : t[i].own = o /\ t[i].type = u /\ Over(t[i], b)
        BY <1>2, <3>1 DEF HasByte
      <4>2. CASE i = k
        BY <1>1, <4>1, <4>2
      <4>3. CASE i # k
        <5>1. i_lockf[i].own = a.own /\ Over(i_lockf[i], b)
          BY <1>1, <2>1, <4>1, <4>3
        <5> QED
          BY <2>1, <4>3, <5>1, OnlyOver
      <4> QED
        BY <4>2, <4>3
    <3>2. ASSUME u = a.type PROVE HasByte(t, o, b, u)
      <4>1. t[k] \in Range(t)
        BY <1>1, <1>2
      <4> QED
        BY <1>1, <1>3, <2>1, <3>2, <4>1 DEF HasByte
    <3> QED
      BY <2>1, <3>1, <3>2
  <2>2. CASE ~(o = a.own /\ Over(a, b))
    <3>1. ASSUME HasByte(t, o, b, u) PROVE HasByte(i_lockf, o, b, u)
      <4>1. PICK i \in 1 .. Len(i_lockf) : t[i].own = o /\ t[i].type = u /\ Over(t[i], b)
        BY <1>2, <3>1 DEF HasByte
      <4>2. i # k
        BY <1>1, <1>3, <2>2, <4>1
      <4>3. i_lockf[i] \in Range(i_lockf) /\ i_lockf[i] = t[i]
        BY <1>1, <1>2, <4>2
      <4> QED
        BY <4>1, <4>3 DEF HasByte
    <3>2. ASSUME HasByte(i_lockf, o, b, u) PROVE HasByte(t, o, b, u)
      <4>1. PICK i \in 1 .. Len(i_lockf) : i_lockf[i].own = o /\ i_lockf[i].type = u /\ Over(i_lockf[i], b)
        BY <1>2, <3>2 DEF HasByte
      <4>2. i # k
        BY <1>1, <1>3, <2>2, <4>1
      <4>3. t[i] \in Range(t) /\ i_lockf[i] = t[i]
        BY <1>1, <1>2, <4>2
      <4> QED
        BY <4>1, <4>3 DEF HasByte
    <3> QED
      BY <2>2, <3>1, <3>2
  <2> QED
    BY <2>1, <2>2
<1> QED
  BY <1>4 DEF Changes

\* The lock has the bytes already.
LEMMA NothingChanges ==
  ASSUME Chain(i_lockf), NEW a, IsCall(a), a.type # "UN", NEW k, SelfOverlaps(a) = {k},
         ovcase(i_lockf[k], a) = 2, i_lockf[k].type = a.type
  PROVE  Changes(i_lockf, i_lockf, a, a.type)
<1>1. /\ \A x : x \in Range(i_lockf) <=> \E i \in 1 .. Len(i_lockf) : i_lockf[i] = x
      /\ k \in 1 .. Len(i_lockf) /\ OwnMeets(i_lockf[k], a) /\ i_lockf[k] \in GoodLocks
  BY OverlapsAre, ListIs
<1>2. i_lockf[k].start <= a.start /\ Top(a.end) <= Top(i_lockf[k].end)
  BY <1>1, OverlapIs
<1>3. /\ i_lockf[k].start \in Int /\ Top(i_lockf[k].end) \in Int /\ a.start \in Int /\ Top(a.end) \in Int
  BY <1>1, LockIs, CallIs
<1>4. ASSUME NEW o \in Owners, NEW b \in Bytes, NEW u \in {"RD", "WR"}, o = a.own, Over(a, b)
      PROVE  HasByte(i_lockf, o, b, u) <=> u = a.type
  <2>1. ASSUME HasByte(i_lockf, o, b, u) PROVE u = a.type
    <3>1. PICK i \in 1 .. Len(i_lockf) : i_lockf[i].own = o /\ i_lockf[i].type = u /\ Over(i_lockf[i], b)
      BY <1>1, <2>1 DEF HasByte
    <3>2. i = k
      BY <1>4, <3>1, OnlyOver
    <3> QED
      BY <3>1, <3>2
  <2>2. Over(i_lockf[k], b)
    <3>1. b \in Int
      BY ByteIs DEF Bytes
    <3> QED
      BY <1>2, <1>3, <1>4, <3>1 DEF Over
  <2>3. i_lockf[k].own = o /\ i_lockf[k] \in Range(i_lockf)
    BY <1>1, <1>4 DEF OwnMeets, Own
  <2>4. ASSUME u = a.type PROVE HasByte(i_lockf, o, b, u)
    BY <2>2, <2>3, <2>4 DEF HasByte
  <2> QED
    BY <2>1, <2>4
<1> QED
  BY <1>4 DEF Changes

\* Setting a lock changes the bytes it names, whatever it does to the list.
LEMMA LinkChanges ==
  ASSUME Chain(i_lockf), NEW a, IsCall(a), a.type # "UN"
  PROVE  Changes(Linked(a), i_lockf, a, a.type)
<1>1. PICK t : t = Linked(a)
  OBVIOUS
<1>2. CASE IsParted(t, Rest(a), a, NewOf(a))
  <2>1. PICK r : r = Rest(a)
    OBVIOUS
  <2>2. PICK n : n = NewOf(a)
    OBVIOUS
  <2>3. n.own = a.own /\ n.start = a.start /\ n.end = a.end /\ n.type = a.type
    BY <2>2 DEF NewOf, NewLock
  <2>4. Chain(r) /\ SameBytes(r, i_lockf)
    BY <2>1, OverlapsRest, RestBytes
  <2>5. IsParted(t, r, a, n)
    BY <1>2, <2>1, <2>2
  <2>6. Changes(t, r, a, a.type)
    BY <2>3, <2>4, <2>5, PartedChanges
  <2> QED
    BY <1>1, <2>4, <2>6, ChangesAfter
<1>3. ASSUME NEW k, SelfOverlaps(a) = {k}, IsRetyped(t, i_lockf, a, k) PROVE Changes(t, i_lockf, a, a.type)
  BY <1>3, RetypedChanges
<1>4. ASSUME NEW k, SelfOverlaps(a) = {k}, ovcase(i_lockf[k], a) = 2, i_lockf[k].type = a.type, t = i_lockf
      PROVE  Changes(t, i_lockf, a, a.type)
  <2>1. Changes(i_lockf, i_lockf, a, a.type)
    BY <1>4, NothingChanges
  <2> QED
    BY <1>4, <2>1
<1>5. \/ IsParted(t, Rest(a), a, NewOf(a))
      \/ \E k : SelfOverlaps(a) = {k} /\ IsRetyped(t, i_lockf, a, k)
      \/ \E k : SelfOverlaps(a) = {k} /\ ovcase(i_lockf[k], a) = 2 /\ i_lockf[k].type = a.type /\ t = i_lockf
  BY <1>1, LinkedIs
<1> QED
  BY <1>1, <1>2, <1>3, <1>4, <1>5

\* Unlocking changes the bytes it names.
LEMMA ClearChanges ==
  ASSUME Chain(i_lockf), NEW a, IsCall(a)
  PROVE  /\ Changes(Trimmed(Rest(a), a), i_lockf, a, "NONE")
         /\ Changes(Trimmed(i_lockf, a), i_lockf, a, "NONE")
<1>1. PICK r : r = Rest(a)
  OBVIOUS
<1>2. Chain(r) /\ SameBytes(r, i_lockf)
  BY <1>1, OverlapsRest, RestBytes
<1>3. PICK t : t = Trimmed(r, a)
  OBVIOUS
<1>4. IsTrimmed(t, r, a)
  BY <1>2, <1>3, TrimmedIs
<1>5. Changes(t, r, a, "NONE")
  BY <1>2, <1>4, TrimmedChanges
<1>6. Changes(t, i_lockf, a, "NONE")
  BY <1>2, <1>5, ChangesAfter
<1>7. PICK u : u = Trimmed(i_lockf, a)
  OBVIOUS
<1>8. IsTrimmed(u, i_lockf, a)
  BY <1>7, TrimmedIs
<1>9. Changes(u, i_lockf, a, "NONE")
  BY <1>8, TrimmedChanges
<1> QED
  BY <1>1, <1>3, <1>6, <1>7, <1>9

-----------------------------------------------------------------------------
(* The list implements the table of locks.                                 *)

\* What the abstract specification sees of a call.
ReqOf(c) == IF c = NoCall THEN [type |-> "NONE"] ELSE [own |-> c.own, type |-> c.type, bytes |-> BytesOf(c)]

LEMMA RequestedIs ==
  /\ Requested = [p \in Procs |-> ReqOf(lock[p])]
  /\ Requested' = [p \in Procs |-> ReqOf(lock'[p])]
BY DEF Requested, ReqOf

LEMMA RequestOf ==
  ASSUME LockfBase, NEW p \in Procs, at[p] # "idle"
  PROVE  /\ Requested[p].own = lock[p].own /\ Requested[p].type = lock[p].type
         /\ Requested[p].bytes = BytesOf(lock[p])
<1>1. lock[p] # NoCall
  BY CallOf, CallsAre
<1>2. Requested[p] = [own |-> lock[p].own, type |-> lock[p].type, bytes |-> BytesOf(lock[p])]
  BY <1>1, RequestedIs DEF ReqOf
<1> QED
  BY <1>2

LEMMA AnsweredIs ==
  ASSUME LockfBase, NEW p \in Procs, Return(p)
  PROVE  RL!Answered(p)
<1>1. lock' = [lock EXCEPT ![p] = NoCall] /\ lock \in [Procs -> AllCalls]
  BY DEF LockfBase, Return
<1>2. PICK r : r = Requested
  OBVIOUS
<1>3. PICK s : s = Requested'
  OBVIOUS
<1>4. r = [q \in Procs |-> ReqOf(lock[q])] /\ s = [q \in Procs |-> ReqOf(lock'[q])]
  BY <1>2, <1>3, RequestedIs
<1>5. \A q \in Procs : s[q] = IF q = p THEN [type |-> "NONE"] ELSE r[q]
  <2> TAKE q \in Procs
  <2>1. lock'[q] = IF q = p THEN NoCall ELSE lock[q]
    BY <1>1
  <2> QED
    BY <1>4, <2>1 DEF ReqOf
<1>6. s = [r EXCEPT ![p] = [type |-> "NONE"]]
  BY <1>4, <1>5
<1> QED
  BY <1>2, <1>3, <1>6 DEF RL!Answered, RL!NoRequest

\* A step that changes the bytes of a.
LEMMA CoveredIs ==
  ASSUME Chain(i_lockf), Chain(i_lockf)', NEW a, IsCall(a), NEW ty \in {"RD", "WR", "NONE"},
         Changes(i_lockf', i_lockf, a, ty)
  PROVE  Holds' = RL!Covered(a.own, BytesOf(a), ty)
<1>1. PICK s : s = i_lockf
  OBVIOUS
<1>2. PICK t : t = i_lockf'
  OBVIOUS
<1>3. Holds = HoldsOf(s) /\ Holds' = HoldsOf(t)
  BY <1>1, <1>2, HoldsAre, HoldsNext
<1>4. HoldsOf(t) = Retaken(HoldsOf(s), a.own, BytesOf(a), ty)
  <2>1. Changes(t, s, a, ty)
    BY <1>1, <1>2
  <2> QED
    BY <2>1, ChangesHolds
<1> QED
  BY <1>3, <1>4 DEF RL!Covered, Retaken

LEMMA SameHeld ==
  ASSUME Chain(i_lockf), Chain(i_lockf)', SameBytes(i_lockf', i_lockf)
  PROVE  Holds' = Holds
<1>1. PICK s : s = i_lockf
  OBVIOUS
<1>2. PICK t : t = i_lockf'
  OBVIOUS
<1>3. Holds = HoldsOf(s) /\ Holds' = HoldsOf(t)
  BY <1>1, <1>2, HoldsAre, HoldsNext
<1>4. HoldsOf(t) = HoldsOf(s)
  BY <1>1, <1>2, SameHolds
<1> QED
  BY <1>3, <1>4

LEMMA SameList ==
  ASSUME i_lockf' = i_lockf
  PROVE  Holds' = Holds
<1>1. \A o, b, u : Covers(o, b, u)' <=> Covers(o, b, u)
  BY DEF Covers
<1> QED
  BY <1>1 DEF Holds

LEMMA AskStep ==
  ASSUME LockfInv, NEW p \in Procs, NEW a \in Calls(p), ufs_advlock(p, a)
  PROVE  RL!Ask(p)
<1>1. at[p] = "idle" /\ lock' = [lock EXCEPT ![p] = a] /\ i_lockf' = i_lockf /\ lock \in [Procs -> AllCalls]
  BY DEF ufs_advlock, LockfInv, LockfBase
<1>2. lock[p] = NoCall
  BY <1>1 DEF LockfInv, LockfBase, CallFits
<1>3. PICK r : r = Requested
  OBVIOUS
<1>4. PICK s : s = Requested'
  OBVIOUS
<1>5. r = [q \in Procs |-> ReqOf(lock[q])] /\ s = [q \in Procs |-> ReqOf(lock'[q])]
  BY <1>3, <1>4, RequestedIs
<1>6. \A q \in Procs : s[q] = IF q = p THEN ReqOf(a) ELSE r[q]
  <2> TAKE q \in Procs
  <2>1. lock'[q] = IF q = p THEN a ELSE lock[q]
    BY <1>1
  <2> QED
    BY <1>5, <2>1
<1>7. s = [r EXCEPT ![p] = s[p]]
  BY <1>5, <1>6
<1>8. r[p] = [type |-> "NONE"]
  BY <1>2, <1>5 DEF ReqOf
<1>9. s[p] \in [own : Owners, type : {"RD", "WR", "UN"}, bytes : SUBSET Bytes]
  <2>1. IsCall(a) /\ a # NoCall
    BY CallsAre
  <2>2. s[p] = [own |-> a.own, type |-> a.type, bytes |-> BytesOf(a)]
    BY <1>6, <2>1 DEF ReqOf
  <2>3. a.own \in Owners /\ a.type \in {"RD", "WR", "UN"}
    BY <2>1, CallIs
  <2>4. BytesOf(a) \subseteq Bytes
    <3>1. BytesOf(a) = a.start .. Top(a.end)
      BY DEF BytesOf, Top
    <3>2. a.start \in Int /\ 0 <= a.start /\ Top(a.end) \in Int /\ Top(a.end) <= MaxByte + 1 /\ MaxByte \in Nat
      BY <2>1, CallIs, ByteIs
    <3> QED
      BY <3>1, <3>2 DEF Bytes
  <2> QED
    BY <2>2, <2>3, <2>4
<1>10. Holds' = Holds
  BY <1>1, SameList
<1> QED
  BY <1>3, <1>4, <1>7, <1>8, <1>9, <1>10 DEF RL!Ask, RL!NoRequest, RL!Request

LEMMA RefuseStep ==
  ASSUME LockfInv, NEW p \in Procs, at[p] # "idle", lock[p].type # "UN", Return(p), Holds' = Holds
  PROVE  RL!Refuse(p)
<1>1. LockfBase
  BY DEF LockfInv
<1>2. Requested[p].type \in {"RD", "WR"}
  BY <1>1, RequestOf, CallOf DEF IsCall
<1>3. RL!Answered(p)
  BY <1>1, AnsweredIs
<1> QED
  BY <1>2, <1>3 DEF RL!Refuse

\* Without a lock that blocks a, no other owner is against it.
LEMMA NobodyAgainst ==
  ASSUME Chain(i_lockf), NEW a, IsCall(a), lf_getblock(a) = {}, NEW o \in Owners \ {a.own}
  PROVE  ~RL!Against(Holds[o], BytesOf(a), a.type)
<1>1. /\ DOMAIN i_lockf = 1 .. Len(i_lockf) /\ \A x \in Range(i_lockf) : x \in GoodLocks
      /\ \A x : x \in Range(i_lockf) <=> \E i \in 1 .. Len(i_lockf) : i_lockf[i] = x
  BY ListIs
<1>2. ASSUME NEW b \in Bytes, NEW u \in {"RD", "WR"}, Over(a, b), HasByte(i_lockf, o, b, u), a.type = "WR" \/ u = "WR"
      PROVE  FALSE
  <2>1. PICK x \in Range(i_lockf) : x.own = o /\ x.type = u /\ Over(x, b)
    BY <1>2 DEF HasByte
  <2>2. x \in GoodLocks
    BY <1>1
  <2>3. Meets(x, a)
    BY <1>2, <2>1, <2>2, OverMeets
  <2>4. Blocks(x, a)
    BY <1>2, <2>1, <2>2, <2>3, OverlapIs DEF Blocks, Own
  <2>5. PICK i \in 1 .. Len(i_lockf) : i_lockf[i] = x
    BY <1>1
  <2> QED
    BY <1>1, <2>4, <2>5 DEF lf_getblock
<1>3. \A b \in Bytes : Holds[o][b] = ByteOf(i_lockf, o, b)
  BY HoldsAre DEF HoldsOf
<1>4. ASSUME NEW b \in BytesOf(a) PROVE ~(Holds[o][b] = "WR" \/ (a.type = "WR" /\ Holds[o][b] = "RD"))
  <2>1. b \in Bytes
    <3>1. BytesOf(a) = a.start .. Top(a.end)
      BY DEF BytesOf, Top
    <3>2. a.start \in Int /\ 0 <= a.start /\ Top(a.end) \in Int /\ Top(a.end) <= MaxByte + 1 /\ MaxByte \in Nat
      BY CallIs, ByteIs
    <3> QED
      BY <3>1, <3>2 DEF Bytes
  <2>2. Over(a, b)
    BY <1>4, <2>1, CallIs, OverIs
  <2>3. /\ ByteOf(i_lockf, o, b) = "WR" => HasByte(i_lockf, o, b, "WR")
        /\ ByteOf(i_lockf, o, b) = "RD" => HasByte(i_lockf, o, b, "RD")
    BY DEF ByteOf
  <2> QED
    BY <1>2, <1>3, <2>1, <2>2, <2>3
<1> QED
  BY <1>4 DEF RL!Against

\* Adding a lock takes its bytes.
LEMMA TakeStep ==
  ASSUME LockfInv, LockfInv', NEW p \in Procs, at[p] # "idle", lock[p].type # "UN", Link(p)
  PROVE  RL!Take(p)
<1>1. LockfBase /\ Chain(i_lockf) /\ Chain(i_lockf)'
  BY DEF LockfInv
<1>2. PICK a : a = lock[p]
  OBVIOUS
<1>3. IsCall(a) /\ a.type # "UN" /\ i_lockf' = Linked(a) /\ Return(p)
  BY <1>1, <1>2, CallOf DEF Link
<1>4. a.type \in {"RD", "WR"} /\ a.type \in {"RD", "WR", "NONE"}
  BY <1>3 DEF IsCall
<1>5. Changes(i_lockf', i_lockf, a, a.type)
  BY <1>1, <1>3, LinkChanges
<1>6. Holds' = RL!Covered(a.own, BytesOf(a), a.type)
  BY <1>1, <1>3, <1>4, <1>5, CoveredIs
<1>7. Requested[p].own = a.own /\ Requested[p].type = a.type /\ Requested[p].bytes = BytesOf(a)
  BY <1>1, <1>2, RequestOf
<1>8. RL!Answered(p)
  BY <1>1, <1>3, AnsweredIs
<1> QED
  BY <1>4, <1>6, <1>7, <1>8 DEF RL!Take

LEMMA GrantStep ==
  ASSUME LockfInv, LockfInv', NEW p \in Procs, setlock_grant(p)
  PROVE  RL!Grant(p)
<1>1. LockfBase /\ Chain(i_lockf)
  BY DEF LockfInv
<1>2. at[p] # "idle" /\ lock[p].type # "UN" /\ lf_getblock(lock[p]) = {} /\ Link(p)
  BY DEF setlock_grant, Setting, Running
<1>3. RL!Take(p)
  BY <1>2, TakeStep
<1>4. PICK a : a = lock[p]
  OBVIOUS
<1>5. IsCall(a) /\ lf_getblock(a) = {}
  BY <1>1, <1>2, <1>4, CallOf
<1>6. \A o \in Owners \ {a.own} : ~RL!Against(Holds[o], BytesOf(a), a.type)
  BY <1>1, <1>5, NobodyAgainst
<1>7. Requested[p].own = a.own /\ Requested[p].type = a.type /\ Requested[p].bytes = BytesOf(a)
  BY <1>1, <1>2, <1>4, RequestOf
<1> QED
  BY <1>3, <1>6, <1>7 DEF RL!Grant

\* Clearing frees its bytes.
LEMMA ReleaseStep ==
  ASSUME LockfInv, LockfInv', NEW p \in Procs, at[p] # "idle", lock[p].type = "UN", Return(p),
         Changes(i_lockf', i_lockf, lock[p], "NONE")
  PROVE  RL!Release(p)
<1>1. LockfBase /\ Chain(i_lockf) /\ Chain(i_lockf)'
  BY DEF LockfInv
<1>2. PICK a : a = lock[p]
  OBVIOUS
<1>3. IsCall(a) /\ Changes(i_lockf', i_lockf, a, "NONE") /\ "NONE" \in {"RD", "WR", "NONE"}
  BY <1>1, <1>2, CallOf
<1>4. Holds' = RL!Covered(a.own, BytesOf(a), "NONE")
  BY <1>1, <1>3, CoveredIs
<1>5. Requested[p].own = a.own /\ Requested[p].type = "UN" /\ Requested[p].bytes = BytesOf(a)
  BY <1>1, <1>2, RequestOf
<1>6. RL!Answered(p)
  BY <1>1, AnsweredIs
<1> QED
  BY <1>4, <1>5, <1>6 DEF RL!Release

\* A request goes to sleep: the bytes stay, but for those that flock() gives up.
LEMMA SleepBytes ==
  ASSUME Chain(i_lockf), NEW p, NEW a, NEW m, NEW given, Sleeps(p, a, m, given),
         NEW o \in Owners, NEW b \in Bytes, NEW u \in {"RD", "WR"}
  PROVE  HasByte(i_lockf', o, b, u) <=> HasByte(i_lockf, o, b, u) /\ (given = {} \/ o # a.own)
<1>1. PICK s : /\ IsJoined(s, m, p) /\ Chain(i_lockf')
               /\ \A x : x \in Range(i_lockf') <=> \E i \in 1 .. Len(i_lockf) : i \notin given /\ x = s[i]
  BY DEF Sleeps
<1>2. PICK t : t = i_lockf'
  OBVIOUS
<1>3. /\ \A i \in given : i_lockf[i].own = a.own
      /\ given # {} => \A i \in 1 .. Len(i_lockf) : i_lockf[i].own = a.own => i \in given
  BY DEF Sleeps
<1>4. \A x : x \in Range(i_lockf) <=> \E i \in 1 .. Len(i_lockf) : i_lockf[i] = x
  BY ListIs
<1>5. \A i \in 1 .. Len(i_lockf) : SameRange(s[i], i_lockf[i])
  BY <1>1 DEF IsJoined
<1>6. ASSUME HasByte(t, o, b, u) PROVE HasByte(i_lockf, o, b, u) /\ (given = {} \/ o # a.own)
  <2>1. PICK x \in Range(t) : x.own = o /\ x.type = u /\ Over(x, b)
    BY <1>6 DEF HasByte
  <2>2. PICK i \in 1 .. Len(i_lockf) : i \notin given /\ x = s[i]
    BY <1>1, <1>2, <2>1
  <2>3. i_lockf[i] \in Range(i_lockf) /\ i_lockf[i].own = o /\ i_lockf[i].type = u /\ Over(i_lockf[i], b)
    BY <1>4, <1>5, <2>1, <2>2 DEF SameRange, Over
  <2> QED
    BY <1>3, <2>2, <2>3 DEF HasByte
<1>7. ASSUME HasByte(i_lockf, o, b, u), given = {} \/ o # a.own PROVE HasByte(t, o, b, u)
  <2>1. PICK x \in Range(i_lockf) : x.own = o /\ x.type = u /\ Over(x, b)
    BY <1>7 DEF HasByte
  <2>2. PICK i \in 1 .. Len(i_lockf) : i_lockf[i] = x
    BY <1>4
  <2>3. i \notin given
    BY <1>3, <1>7, <2>1, <2>2
  <2>4. s[i] \in Range(t) /\ s[i].own = o /\ s[i].type = u /\ Over(s[i], b)
    BY <1>1, <1>2, <1>5, <2>1, <2>2, <2>3 DEF SameRange, Over
  <2> QED
    BY <2>4 DEF HasByte
<1> QED
  BY <1>2, <1>6, <1>7

LEMMA WaitStep ==
  ASSUME LockfInv, LockfInv', NEW p \in Procs, setlock_sleep(p)
  PROVE  (Requested' = Requested /\ Holds' = Holds) \/ RL!GiveUp(p)
<1>1. LockfBase /\ Chain(i_lockf) /\ Chain(i_lockf)'
  BY DEF LockfInv
<1>2. PICK a : a = lock[p]
  OBVIOUS
<1>3. at[p] \in {"call", "woken"} /\ a.type # "UN"
  BY <1>2, SleepIs
<1>4. PICK m, given : Sleeps(p, a, m, given)
  BY <1>2, SleepIs
<1>5. \A o \in Owners : \A b \in Bytes : \A u \in {"RD", "WR"} :
        HasByte(i_lockf', o, b, u) <=> HasByte(i_lockf, o, b, u) /\ (given = {} \/ o # a.own)
  BY <1>1, <1>4, SleepBytes
<1>6. Requested' = Requested
  BY <1>4, RequestedIs DEF Sleeps
<1>7. CASE given = {}
  <2>1. SameBytes(i_lockf', i_lockf)
    BY <1>5, <1>7 DEF SameBytes
  <2> QED
    BY <1>1, <1>6, <2>1, SameHeld
<1>8. CASE given # {}
  <2>1. a.own \in Files /\ a.type = "WR"
    BY <1>4, <1>8 DEF Sleeps
  <2>2. IsCall(a) /\ a.start = 0 /\ a.end = EOF
    <3>1. a \in Calls(p)
      BY <1>1, <1>2, <1>3, CallOf
    <3>2. IsCall(a) /\ (a.own = p \/ (a.own \in Files /\ a.start = 0 /\ a.end = EOF))
      BY <3>1, CallsAre
    <3> QED
      BY <2>1, <3>2, NamesDiffer
  <2>3. BytesOf(a) = Bytes
    BY <2>2 DEF BytesOf, Bytes
  <2>4. \A b \in Bytes : Over(a, b)
    BY <2>2, <2>3, CallIs, OverIs
  <2>5. Changes(i_lockf', i_lockf, a, "NONE")
    <3>1. \A o \in Owners : \A b \in Bytes : \A u \in {"RD", "WR"} :
            HasByte(i_lockf', o, b, u) <=> IF o = a.own /\ Over(a, b) THEN u = "NONE" ELSE HasByte(i_lockf, o, b, u)
      BY <1>5, <1>8, <2>4
    <3> QED
      BY <3>1 DEF Changes
  <2>6. Holds' = RL!Covered(a.own, Bytes, "NONE")
    <3>1. "NONE" \in {"RD", "WR", "NONE"}
      OBVIOUS
    <3>2. Holds' = RL!Covered(a.own, BytesOf(a), "NONE")
      BY <1>1, <2>2, <2>5, <3>1, CoveredIs
    <3> QED
      BY <2>3, <3>2
  <2>7. Requested[p].own = a.own /\ Requested[p].type = "WR"
    BY <1>1, <1>2, <1>3, <2>1, RequestOf
  <2> QED
    BY <1>6, <2>1, <2>6, <2>7 DEF RL!GiveUp
<1> QED
  BY <1>7, <1>8

\* Before malloc() sleeps only waiting requests may be taken off.
LEMMA SplitWaitsStep ==
  ASSUME LockfInv, LockfInv', NEW p \in Procs, split_sleep(p)
  PROVE  Requested' = Requested /\ Holds' = Holds
<1>1. LockfBase /\ Chain(i_lockf) /\ Chain(i_lockf)'
  BY DEF LockfInv
<1>2. PICK a : a = lock[p]
  OBVIOUS
<1>3. at[p] # "idle" /\ lock' = lock /\ i_lockf' = IF a.type = "UN" THEN Rest(a) ELSE i_lockf
  BY <1>2 DEF split_sleep, Running, Rest
<1>4. IsCall(a)
  BY <1>1, <1>2, <1>3, CallOf
<1>5. SameBytes(Rest(a), i_lockf) /\ SameBytes(i_lockf, i_lockf)
  BY <1>1, <1>4, RestBytes DEF SameBytes
<1>6. SameBytes(i_lockf', i_lockf)
  BY <1>3, <1>5
<1>7. Holds' = Holds
  BY <1>1, <1>6, SameHeld
<1> QED
  BY <1>3, <1>7, RequestedIs

\* A request that is freed leaves the locked bytes as they are.
LEMMA FreedHolds ==
  ASSUME LockfInv, LockfInv', NEW p \in Procs, setlock_eintr(p)
  PROVE  Holds' = Holds
<1>1. Chain(i_lockf) /\ Chain(i_lockf)'
  BY DEF LockfInv
<1>2. PICK t : t = i_lockf'
  OBVIOUS
<1>3. PICK n : n = Len(i_lockf)
  OBVIOUS
<1>4. /\ n \in Nat /\ DOMAIN i_lockf = 1 .. n /\ \A i \in 1 .. n : i_lockf[i] \in GoodLocks
      /\ \A x : x \in Range(i_lockf) <=> \E i \in 1 .. n : i_lockf[i] = x
  BY <1>1, <1>3, ListIs
<1>5. t = [i \in 1 .. n |-> FreedIn(i_lockf[i], p)]
  BY <1>2, <1>4 DEF setlock_eintr, FreedIn
<1>6. \A i \in 1 .. n : t[i] = FreedIn(i_lockf[i], p) /\ SameRange(t[i], i_lockf[i])
  BY <1>4, <1>5, FreedIs
<1>7. Chain(t) /\ Len(t) = n
  <2>1. DOMAIN t = 1 .. n /\ Chain(t)
    BY <1>1, <1>2, <1>5
  <2>2. Len(t) \in Nat /\ DOMAIN t = 1 .. Len(t)
    BY <2>1, ListIs
  <2>3. Len(t) = n
    BY <1>4, <2>1, <2>2
  <2> QED
    BY <2>1, <2>3
<1>8. \A x : x \in Range(t) <=> \E i \in 1 .. n : t[i] = x
  BY <1>7, ListIs
<1>9. SameBytes(t, i_lockf)
  <2>1. \A o, b, u : HasByte(t, o, b, u) <=> HasByte(i_lockf, o, b, u)
    BY <1>4, <1>6, <1>8 DEF HasByte, SameRange, Over
  <2> QED
    BY <2>1 DEF SameBytes
<1> QED
  BY <1>1, <1>2, <1>9, SameHeld

LEMMA StepRangeLocks ==
  ASSUME LockfInv, LockfInv', [LockfNext]_lockfVars
  PROVE  [RL!Next \/ \E p \in Procs : at[p] = "split" /\ RL!Take(p)]_<<Requested, Holds>>
<1>1. LockfBase /\ Chain(i_lockf)
  BY DEF LockfInv
<1>2. CASE UNCHANGED lockfVars \/ \E p \in Procs : follow_freed(p)
  <2>1. i_lockf' = i_lockf /\ lock' = lock
    BY <1>2 DEF lockfVars, follow_freed
  <2>2. Requested' = Requested /\ Holds' = Holds
    BY <2>1, RequestedIs, SameList
  <2> QED
    BY <2>2
<1>3. ASSUME NEW p \in Procs,
             \/ \E a \in PosixCall(p) \cup FlockCall : ufs_advlock(p, a)
             \/ setlock_eagain(p) \/ setlock_edeadlk(p) \/ setlock_sleep(p) \/ setlock_grant(p)
             \/ clearlock(p) \/ split_sleep(p) \/ split_done(p) \/ setlock_eintr(p)
      PROVE  \/ RL!Ask(p) \/ RL!Grant(p) \/ RL!Refuse(p) \/ RL!GiveUp(p) \/ RL!Release(p)
             \/ at[p] = "split" /\ RL!Take(p)
             \/ Requested' = Requested /\ Holds' = Holds
  <2>1. CASE \E a \in PosixCall(p) \cup FlockCall : ufs_advlock(p, a)
    BY <2>1, AskStep DEF Calls
  <2>2. CASE setlock_eagain(p) \/ setlock_edeadlk(p)
    <3>1. at[p] # "idle" /\ lock[p].type # "UN" /\ Return(p) /\ i_lockf' = i_lockf
      BY <2>2 DEF setlock_eagain, setlock_edeadlk, Blocked, Setting, Running
    <3> QED
      BY <3>1, RefuseStep, SameList
  <2>3. CASE setlock_sleep(p)
    BY <2>3, WaitStep
  <2>4. CASE setlock_grant(p)
    BY <2>4, GrantStep
  <2>5. CASE clearlock(p)
    <3>1. at[p] # "idle" /\ lock[p].type = "UN" /\ Return(p) /\ i_lockf' = Trimmed(Rest(lock[p]), lock[p])
      BY <2>5 DEF clearlock, Running, Rest
    <3>2. Changes(i_lockf', i_lockf, lock[p], "NONE")
      BY <1>1, <3>1, CallOf, ClearChanges
    <3> QED
      BY <3>1, <3>2, ReleaseStep
  <2>6. CASE split_sleep(p)
    BY <2>6, SplitWaitsStep
  <2>7. CASE split_done(p)
    <3>1. at[p] = "split"
      BY <2>7 DEF split_done
    <3>2. CASE lock[p].type # "UN" /\ Link(p)
      BY <3>1, <3>2, TakeStep
    <3>3. CASE ~(lock[p].type # "UN" /\ Link(p))
      <4>1. lock[p].type = "UN" /\ Return(p) /\ i_lockf' = Trimmed(i_lockf, lock[p])
        BY <2>7, <3>3 DEF split_done
      <4>2. Changes(i_lockf', i_lockf, lock[p], "NONE")
        BY <1>1, <3>1, <4>1, CallOf, ClearChanges
      <4> QED
        BY <3>1, <4>1, <4>2, ReleaseStep
    <3> QED
      BY <3>2, <3>3
  <2>8. CASE setlock_eintr(p)
    <3>1. at[p] \in {"asleep", "woken"} /\ Return(p)
      BY <2>8 DEF setlock_eintr
    <3>2. lock[p].type # "UN"
      BY <1>1, <3>1, CallOf
    <3>3. Holds' = Holds
      BY <2>8, FreedHolds
    <3> QED
      BY <3>1, <3>2, <3>3, RefuseStep
  <2> QED
    BY <1>3, <2>1, <2>2, <2>3, <2>4, <2>5, <2>6, <2>7, <2>8
<1>4. CASE LockfNext /\ ~\E p \in Procs : follow_freed(p)
  <2>1. PICK p \in Procs : \/ RL!Ask(p) \/ RL!Grant(p) \/ RL!Refuse(p) \/ RL!GiveUp(p) \/ RL!Release(p)
                           \/ at[p] = "split" /\ RL!Take(p)
                           \/ Requested' = Requested /\ Holds' = Holds
    BY <1>3, <1>4 DEF LockfNext
  <2> QED
    BY <2>1 DEF RL!Next
<1> QED
  BY <1>2, <1>4

LEMMA InitRangeLocks == ASSUME LockfInit PROVE RL!Init
<1>1. i_lockf = <<>> /\ lock = [p \in Procs |-> NoCall]
  BY DEF LockfInit
<1>2. Requested = [p \in Procs |-> [type |-> "NONE"]]
  <2>1. \A p \in Procs : ReqOf(lock[p]) = [type |-> "NONE"]
    BY <1>1 DEF ReqOf
  <2> QED
    BY <2>1, RequestedIs
<1>3. \A o, b, u : ~Covers(o, b, u)
  BY <1>1 DEF Covers
<1>4. Holds = [o \in Owners |-> [b \in Bytes |-> "NONE"]]
  BY <1>3 DEF Holds
<1> QED
  BY <1>2, <1>4 DEF RL!Init, RL!NoRequest

\* The list of locks implements, byte by byte, the table that fcntl() and flock() promise:
\* whatever a request splits, trims, takes over or inserts, it changes exactly the bytes it
\* names for its owner, and it takes them against nobody unless it comes out of the sleep
\* of lf_split(); a request that fails changes nothing but what flock() has given up.
THEOREM LockListIsByteTable == LockfSpec => ImplementsRangeLocks
<1>1. LockfInit => RL!Init
  BY InitRangeLocks
<1>2. LockfInv /\ LockfInv' /\ [LockfNext]_lockfVars =>
        [RL!Next \/ \E p \in Procs : at[p] = "split" /\ RL!Take(p)]_<<Requested, Holds>>
  BY StepRangeLocks
<1> QED
  BY <1>1, <1>2, InitLockfInv, StepLockfInv, PTL DEF LockfSpec, ImplementsRangeLocks

=============================================================================
