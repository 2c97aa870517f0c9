------------------------------- MODULE RingBuf -------------------------------
(***************************************************************************)
(* kern/subr/ring.c and include/ringbuf.h: the character queues of the     *)
(* terminal drivers.  A buffer of RBSZ characters with the place to read   *)
(* (rb_hd) and the place to write (rb_tl); equal means empty, so one       *)
(* character is never used.  Each operation runs with terminal interrupts  *)
(* blocked.  Pointers are offsets into rb_buf.                             *)
(***************************************************************************)
EXTENDS Integers, Sequences, FiniteSetsExt

CONSTANTS
  Ring,    \* the queues
  Char,    \* the characters, as unsigned numbers
  RBSZ     \* size of rb_buf

ASSUME RingAssumption == RBSZ \in Nat /\ RBSZ > 1 /\ Char \subseteq 0 .. 255

VARIABLES rb_hd, rb_tl, rb_buf, rv
vars == <<rb_hd, rb_tl, rb_buf, rv>>

Off == 0 .. RBSZ - 1

TypeOK ==
  /\ rb_hd \in [Ring -> Off] /\ rb_tl \in [Ring -> Off]
  /\ rb_buf \in [Ring -> [Off -> Char]]
  /\ rv \in Char \cup {-1} \cup 0 .. RBSZ

\* initrb(); the contents are whatever the memory held.
Init ==
  /\ rb_hd = [r \in Ring |-> 0] /\ rb_tl = [r \in Ring |-> 0]
  /\ rb_buf \in [Ring -> {[i \in Off |-> c] : c \in Char}]
  /\ rv = 0

-----------------------------------------------------------------------------
(* The macros of ringbuf.h.                                                *)

RB_SUCC(p) == IF p >= RBSZ - 1 THEN 0 ELSE p + 1
RB_PRED(p) == IF p <= 0 THEN RBSZ - 1 ELSE p - 1
RB_ROLLOVER(p) == IF p > RBSZ - 1 THEN 0 ELSE p
RB_LEN(r) == IF rb_hd[r] <= rb_tl[r] THEN rb_tl[r] - rb_hd[r] ELSE RBSZ - (rb_hd[r] - rb_tl[r])
RB_CONTIGPUT(r) ==
  IF RB_PRED(rb_hd[r]) < rb_tl[r] THEN RBSZ - rb_tl[r] ELSE RB_PRED(rb_hd[r]) - rb_tl[r]
RB_CONTIGGET(r) ==
  IF rb_hd[r] <= rb_tl[r] THEN rb_tl[r] - rb_hd[r] ELSE RBSZ - rb_hd[r]

SetHd(r, p) == rb_hd' = [rb_hd EXCEPT ![r] = p]
SetTl(r, p) == rb_tl' = [rb_tl EXCEPT ![r] = p]
Store(r, p, c) == rb_buf' = [rb_buf EXCEPT ![r][p] = c]
Refused == rv' = -1 /\ UNCHANGED <<rb_hd, rb_tl, rb_buf>>

-----------------------------------------------------------------------------
putc(c, r) ==
  \/ RB_SUCC(rb_tl[r]) = rb_hd[r] /\ Refused
  \/ /\ RB_SUCC(rb_tl[r]) # rb_hd[r]
     /\ Store(r, rb_tl[r], c) /\ SetTl(r, RB_SUCC(rb_tl[r]))
     /\ rv' = 0 /\ UNCHANGED rb_hd

getc(r) ==
  \/ rb_hd[r] = rb_tl[r] /\ Refused
  \/ /\ rb_hd[r] # rb_tl[r]
     /\ rv' = rb_buf[r][rb_hd[r]] /\ SetHd(r, RB_SUCC(rb_hd[r]))
     /\ UNCHANGED <<rb_tl, rb_buf>>

\* A mistake, to see ImplementsFifo fail: the character is stored before the head is
\* moved back.
ungetc_old(c, r) ==
  \/ RB_PRED(rb_hd[r]) = rb_tl[r] /\ Refused
  \/ /\ RB_PRED(rb_hd[r]) # rb_tl[r]
     /\ SetHd(r, RB_PRED(rb_hd[r])) /\ Store(r, rb_hd[r], c)
     /\ rv' = 0 /\ UNCHANGED rb_tl

ungetc(c, r) ==
  \/ RB_PRED(rb_hd[r]) = rb_tl[r] /\ Refused
  \/ /\ RB_PRED(rb_hd[r]) # rb_tl[r]
     /\ SetHd(r, RB_PRED(rb_hd[r])) /\ Store(r, RB_PRED(rb_hd[r]), c)
     /\ rv' = 0 /\ UNCHANGED rb_tl

unputc(r) ==
  \/ rb_hd[r] = rb_tl[r] /\ Refused
  \/ /\ rb_hd[r] # rb_tl[r]
     /\ rv' = rb_buf[r][RB_PRED(rb_tl[r])] /\ SetTl(r, RB_PRED(rb_tl[r]))
     /\ UNCHANGED <<rb_hd, rb_buf>>

initrb(r) == SetHd(r, 0) /\ SetTl(r, 0) /\ rv' = 0 /\ UNCHANGED rb_buf

\* The example for contiguous operations: as much of s as fits at rb_tl, and at
\* most `most' characters from rb_hd.
contig_put(r, s) ==
  LET nc == Min({RB_CONTIGPUT(r), Len(s)})
  IN /\ rb_buf' = [rb_buf EXCEPT ![r] =
                     [i \in Off |-> IF i \in rb_tl[r] .. rb_tl[r] + nc - 1
                                    THEN s[i - rb_tl[r] + 1] ELSE @[i]]]
     /\ SetTl(r, RB_ROLLOVER(rb_tl[r] + nc))
     /\ rv' = nc /\ UNCHANGED rb_hd

contig_get(r, most) ==
  LET nc == Min({RB_CONTIGGET(r), most})
  IN /\ SetHd(r, RB_ROLLOVER(rb_hd[r] + nc))
     /\ rv' = nc /\ UNCHANGED <<rb_tl, rb_buf>>

\* catb(): getc() and putc() until getc() finds nothing; once `to' is full the
\* rest is dropped.
Room(r) == RBSZ - 1 - RB_LEN(r)
catb(from, to) ==
  LET n == Min({RB_LEN(from), Room(to)})
      Nth(i) == rb_buf[from][(rb_hd[from] + i) % RBSZ]
      Rank(i) == (i - rb_tl[to] + RBSZ) % RBSZ
  IN /\ from # to
     /\ SetHd(from, rb_tl[from])
     /\ SetTl(to, (rb_tl[to] + n) % RBSZ)
     /\ rb_buf' = [rb_buf EXCEPT ![to] =
                     [i \in Off |-> IF Rank(i) < n THEN Nth(Rank(i)) ELSE @[i]]]
     /\ rv' = 0

Next == \E r \in Ring :
  \/ \E c \in Char : putc(c, r) \/ ungetc(c, r)
  \/ getc(r) \/ unputc(r) \/ initrb(r)
  \/ \E n \in 1 .. RBSZ : contig_get(r, n) \/ \E s \in [1 .. n -> Char] : contig_put(r, s)
  \/ \E to \in Ring : catb(r, to)

Spec == Init /\ [][Next]_vars

-----------------------------------------------------------------------------
(* Properties                                                              *)

\* The characters of a ring, from rb_hd up to rb_tl.
Contents(r) == [i \in 1 .. RB_LEN(r) |-> rb_buf[r][(rb_hd[r] + i - 1) % RBSZ]]

\* Each ring is a queue of RBSZ - 1 characters: no operation loses, repeats or
\* reorders one across the end of the buffer, none is refused while there is
\* room, and a full ring never looks empty.
Queues == INSTANCE Fifo WITH queue <- [r \in Ring |-> Contents(r)], Capacity <- RBSZ - 1
ImplementsFifo == Queues!Spec

=============================================================================
