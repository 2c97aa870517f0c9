-------------------------------- MODULE Rlist --------------------------------
(***************************************************************************)
(* kern/subr/rlist.c: a resource list, the extents of a resource that are  *)
(* free (the kernel keeps its swap space in one).  The list is a sequence  *)
(* of elements; `id' is the address of an element.                         *)
(*                                                                         *)
(* rlist_free() runs without giving up the processor except in             *)
(* malloc(M_WAITOK), when the new extent goes before an existing element:  *)
(* it then holds pointers into a list that others may change.              *)
(***************************************************************************)
EXTENDS Integers, Sequences, FiniteSets, FiniteSetsExt, SequencesExt

CONSTANTS
  Proc,       \* the processes that return space
  Size        \* the resource is the units 0 .. Size - 1

ASSUME RlistAssumption == Size \in Nat \ {0}

Unit == 0 .. Size - 1
Address == 1 .. Size
NULL == 0
Element == [id : Address, start : Unit, end : Unit]

VARIABLES
  list,       \* the elements, from *rlp
  held,       \* the units that the callers own
  asleep,     \* p -> what rlist_free() remembers across malloc(), as a set
  slept,      \* history: an rlist_free() of this list has slept
  wild,       \* a freed element, or none at all, has been written to
  panicked
rlistVars == <<list, held, asleep, slept, wild, panicked>>

Extent(e) == e.start .. e.end
Freeing == UNION {UNION {Extent(w) : w \in asleep[p]} : p \in Proc}
Free == Unit \ (held \cup Freeing)

RlistTypeOK ==
  /\ list \in Seq(Element) /\ held \subseteq Unit
  /\ \A p \in Proc : \A w \in asleep[p] :
       w \in [start : Unit, end : Unit, olp : Address \cup {NULL}]
  /\ slept \in BOOLEAN /\ wild \in BOOLEAN /\ panicked \in BOOLEAN
  /\ \A i, j \in DOMAIN list : i # j => list[i].id # list[j].id

RlistInit ==
  /\ list = <<>> /\ held = Unit
  /\ asleep = [p \in Proc |-> {}] /\ slept = FALSE /\ wild = FALSE /\ panicked = FALSE

-----------------------------------------------------------------------------
\* malloc() of an element.
Fresh == Min(Address \ {list[i].id : i \in DOMAIN list})
New(start, end) == [id |-> Fresh, start |-> start, end |-> end]

\* The walk stops at the first element that the extent overlaps, touches or
\* precedes; past the last one if there is none.
Stop(start) ==
  Min({i \in DOMAIN list : start <= list[i].end + 1} \cup {Len(list) + 1})
Overlaps(e, start, end) == start \in Extent(e) \/ end \in Extent(e)

\* The scan from the head once a void is filled: neighbours that touch become
\* one element, at the address of the first.
Join(s, e) ==
  IF s # <<>> /\ Last(s).end + 1 = e.start
  THEN [s EXCEPT ![Len(s)].end = e.end] ELSE Append(s, e)

\* A mistake, to see RegionsAreFound fail: the elements are left as they are.  (The
\* suffixed definition below is of the same kind.)
Scan_none(s) == s

Scan(s) ==
  LET scan[i \in 0 .. Len(s)] == IF i = 0 THEN <<>> ELSE Join(scan[i - 1], s[i])
  IN scan[Len(s)]

Alive == ~wild /\ ~panicked
Panic == panicked' = TRUE /\ UNCHANGED list
Becomes(s) == list' = s /\ UNCHANGED panicked

\* rlist_free() when malloc() does not sleep, or is not called.
rlist_free(start, end) ==
  LET i == Stop(start) IN
  \/ i > Len(list) /\ Becomes(Append(list, New(start, end)))
  \/ /\ i \in DOMAIN list
     /\ \/ Overlaps(list[i], start, end) /\ Panic
        \/ /\ ~Overlaps(list[i], start, end)
           /\ \/ end + 1 = list[i].start /\ Becomes(Scan([list EXCEPT ![i].start = start]))
              \/ end + 1 < list[i].start /\ Becomes(InsertAt(list, i, New(start, end)))
              \/ list[i].end + 1 = start /\ Becomes(Scan([list EXCEPT ![i].end = end]))

free_now(start, end) ==
  /\ Alive /\ start .. end \subseteq held /\ rlist_free(start, end)
  /\ held' = held \ start .. end
  /\ UNCHANGED <<asleep, slept, wild>>

\* malloc() sleeps: `rlp' points into the element before (`olp'), or is the
\* head of the list.
free_sleep(p, start, end) ==
  LET i == Stop(start)
      olp == IF i = 1 THEN NULL ELSE list[i - 1].id
  IN /\ Alive /\ asleep[p] = {}
     /\ start .. end \subseteq held
     /\ i \in DOMAIN list /\ end + 1 < list[i].start
     /\ held' = held \ start .. end
     /\ asleep' = [asleep EXCEPT ![p] = {[start |-> start, end |-> end, olp |-> olp]}]
     /\ slept' = TRUE
     /\ UNCHANGED <<list, wild, panicked>>

\* malloc(M_NOWAIT) for the end of the list has no memory, and the answer is not
\* looked at: the extent is written through a null pointer.
free_nomem(start, end) ==
  /\ Alive /\ start .. end \subseteq held /\ Stop(start) > Len(list)
  /\ wild' = TRUE /\ UNCHANGED <<list, held, asleep, slept, panicked>>

free_wake(p) == \E w \in asleep[p] :
  LET at == {i \in DOMAIN list : list[i].id = w.olp}
  IN /\ Alive
     /\ asleep' = [asleep EXCEPT ![p] = {}]
     /\ \/ /\ w.olp = NULL
           /\ list' = <<New(w.start, w.end)>> \o list /\ UNCHANGED wild
        \/ /\ w.olp # NULL /\ at # {}
           /\ list' = InsertAt(list, Min(at) + 1, New(w.start, w.end)) /\ UNCHANGED wild
        \/ /\ w.olp # NULL /\ at = {}
           /\ wild' = TRUE /\ UNCHANGED list
     /\ UNCHANGED <<held, slept, panicked>>

-----------------------------------------------------------------------------
\* First fit: from the front of the first element that is large enough.
Fits(size) == {i \in DOMAIN list : size <= list[i].end - list[i].start + 1}
\* The element goes one unit early.
Taken_early(i, size) ==
  IF list[i].start + size >= list[i].end THEN RemoveAt(list, i)
  ELSE [list EXCEPT ![i].start = @ + size]

Taken(i, size) ==
  IF list[i].start + size > list[i].end THEN RemoveAt(list, i)
  ELSE [list EXCEPT ![i].start = @ + size]
rlist_alloc(size) ==
  \/ /\ Alive /\ Fits(size) # {}
     /\ LET i == Min(Fits(size))
        IN /\ list' = Taken(i, size)
           /\ held' = held \cup list[i].start .. list[i].start + size - 1
     /\ UNCHANGED <<asleep, slept, wild, panicked>>
  \/ Alive /\ Fits(size) = {} /\ UNCHANGED rlistVars

\* Nobody may be inside the list; its owner may then fill it anew.
rlist_destroy ==
  /\ Alive /\ Freeing = {}
  /\ list' = <<>> /\ held' = Unit /\ slept' = FALSE
  /\ UNCHANGED <<asleep, wild, panicked>>

RlistNext ==
  \/ \E start \in Unit : \E end \in start .. Size - 1 :
       free_now(start, end) \/ free_nomem(start, end) \/ \E p \in Proc : free_sleep(p, start, end)
  \/ \E p \in Proc : free_wake(p)
  \/ \E size \in 1 .. Size : rlist_alloc(size)
  \/ rlist_destroy

RlistSpec == RlistInit /\ [][RlistNext]_rlistVars

-----------------------------------------------------------------------------
(* Properties                                                              *)

Disjoint == \A i, j \in DOMAIN list : i # j => Extent(list[i]) \cap Extent(list[j]) = {}
Listed == UNION {Extent(list[i]) : i \in DOMAIN list}

\* Space is neither lost nor handed out twice, whatever others do to the list
\* while rlist_free() sleeps and in whatever order they leave it: the elements are
\* disjoint, and together they are what has been returned and not given out since,
\* up to the moment a freed element or a null pointer is written to; and returning
\* space one owns is never taken for freeing it twice.
SpaceIsReturned == RlistTypeOK /\ ~panicked /\ Disjoint /\ (wild \/ Listed = Free)

\* The comment of rlist_free(), `return free space to it': what is returned is on
\* the list afterwards.
SpaceIsNeverLost == Listed = Free

\* rlist_alloc() fails only when there is no free region of that size: as long as
\* malloc() has not slept the free units of any region lie in one element, however
\* they came back.
RegionsAreFound == \A start, end \in Unit :
  (~slept /\ ~wild /\ start <= end /\ start .. end \subseteq Free) =>
    \E i \in DOMAIN list : start .. end \subseteq Extent(list[i])
=============================================================================
