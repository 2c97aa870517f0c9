------------------------------ MODULE BufCache ------------------------------
(***************************************************************************)
(* kern/fs/bio.c and the buffer lists of kern/fs/vnode.c: the cache of     *)
(* disk blocks.                                                            *)
(*                                                                         *)
(* The kernel is not preempted, so a process runs from one tsleep() to the *)
(* next; biodone() comes from the disk interrupt at any point outside      *)
(* splbio().  A process is split at the points where the code lets         *)
(* interrupts in or may sleep: waiting for a block, for a free buffer, for *)
(* memory in allocbuf(), for I/O, for the output of a vnode, and between   *)
(* the turns of the loops of vflushbuf() and vinvalbuf().                  *)
(*                                                                         *)
(* The contents of a block are a version number: each write by a process   *)
(* makes the next one.  VOP_STRATEGY() queues the buffer and does not      *)
(* sleep (a local disk); the disk answers with success or with an error.   *)
(***************************************************************************)
EXTENDS Integers, FiniteSets, SequencesExt

CONSTANTS
  Proc, Buf,   \* processes; buffer headers
  Block,       \* blocks: pairs of a vnode and a block number
  Vnode,
  VnodeOf,     \* the vnode of a block
  SizeOf,      \* the size of a block
  BufSpace,    \* memory for buffers
  NoMemory,    \* whether malloc(M_NOWAIT) may fail
  MaxVer,      \* bound on the number of versions of a block
  Uses,        \* the calls that processes make, besides brelse()
  none         \* no block, no buffer, not asleep

ASSUME BufAssumption ==
  /\ IsFiniteSet(Buf) /\ IsFiniteSet(Proc) /\ IsFiniteSet(Block)
  /\ VnodeOf \in [Block -> Vnode]
  /\ Proc # {} /\ none \notin Proc \cup Buf \cup Block \cup Vnode
  /\ Buf \cap Vnode = {} /\ "bfreelist" \notin Buf \cup Vnode \cup {none}
  /\ NoMemory \in BOOLEAN /\ MaxVer \in Nat /\ BufSpace \in Nat /\ SizeOf \in [Block -> Nat \ {0}]
  /\ Uses \subseteq {"bread", "breada", "getblk", "bwrite", "bawrite", "bdwrite",
                     "flush", "sync", "inval", "save"}

VARIABLES
  b_flags, b_blk, b_list, b_bufsize, b_data,
               \* of each buffer: flags; vnode and block number; which of its
               \* vnode's lists it is on; size; contents
  empty, age, lru,
               \* the free lists
  freebufspace,\* memory not given to buffers
  wanted,      \* B_WANTED of the free list
  v_numoutput, VBWAIT,
               \* of each vnode: writes under way; vnodes with VBWAIT
  io,          \* buffers that the driver has
  disk,        \* version of each block on the disk
  latest,      \* history: last version written, and neither lost nor dropped
  pc, req, held, asleep, nbp,
               \* of each process: where it is, the request it serves, the
               \* buffer it holds, what it sleeps on, and the buffer that the
               \* loop of vinvalbuf() goes on to
  due          \* history: versions a synchronous vflushbuf() has to write

bufs  == <<b_flags, b_blk, b_list, b_bufsize, b_data, freebufspace>>
lists == <<empty, age, lru>>
outs  == <<v_numoutput, VBWAIT>>
vals  == <<disk, latest, due>>
vars  == <<bufs, lists, wanted, outs, io, vals, pc, req, held, asleep, nbp>>

Flags == {"BUSY", "INVAL", "CACHE", "DELWRI", "DIRTY", "READ", "ASYNC", "AGE",
          "WANTED", "DONE", "ERROR"}
Places == {"idle", "getblk", "alloc", "reada", "reada_hit", "biowait", "held",
           "flush", "flushw", "inval"}
Ver == 0 .. MaxVer
NoReq == [use |-> "none", blk |-> none]
Request == [use : {"none", "bread", "breada", "getblk", "bwrite", "ibwrite", "bad",
                   "flush", "sync", "inval", "save"},
            blk : Block \cup Vnode \cup {none}]

TypeOK ==
  /\ b_flags \in [Buf -> SUBSET Flags]
  /\ b_blk \in [Buf -> Block \cup {none}]
  /\ b_list \in [Buf -> {"none", "clean", "dirty"}]
  /\ b_bufsize \in [Buf -> Nat] /\ freebufspace \in Int
  /\ b_data \in [Buf -> Ver]
  /\ \A l \in {empty, age, lru} : l \in Seq(Buf)
  /\ wanted \in BOOLEAN
  /\ v_numoutput \in [Vnode -> 0 .. Cardinality(Buf)] /\ VBWAIT \subseteq Vnode
  /\ io \subseteq Buf
  /\ disk \in [Block -> Ver] /\ latest \in [Block -> Ver]
  /\ pc \in [Proc -> Places] /\ req \in [Proc -> Request]
  /\ held \in [Proc -> Buf \cup {none}] /\ nbp \in [Proc -> Buf \cup {none}]
  /\ asleep \in [Proc -> Buf \cup Vnode \cup {"bfreelist", none}]
  /\ due \in [Proc -> [Block -> Ver]]

\* bufinit(): every header on the empty list, in some order.
Init ==
  /\ b_flags = [b \in Buf |-> {"INVAL"}] /\ b_blk = [b \in Buf |-> none]
  /\ b_list = [b \in Buf |-> "none"] /\ b_data = [b \in Buf |-> 0]
  /\ b_bufsize = [b \in Buf |-> 0] /\ freebufspace = BufSpace
  /\ empty \in SetToSeqs(Buf) /\ age = <<>> /\ lru = <<>>
  /\ wanted = FALSE /\ io = {}
  /\ v_numoutput = [v \in Vnode |-> 0] /\ VBWAIT = {}
  /\ disk = [k \in Block |-> 0] /\ latest = [k \in Block |-> 0]
  /\ pc = [p \in Proc |-> "idle"] /\ req = [p \in Proc |-> NoReq]
  /\ held = [p \in Proc |-> none] /\ asleep = [p \in Proc |-> none]
  /\ nbp = [p \in Proc |-> none]
  /\ due = [p \in Proc |-> [k \in Block |-> 0]]

-----------------------------------------------------------------------------
(* Pieces the functions share.                                             *)

Go(p, place) == pc' = [pc EXCEPT ![p] = place]
SleepOn(p, chan) == asleep' = [asleep EXCEPT ![p] = chan]
Woken(chans) == [p \in Proc |-> IF asleep[p] \in chans THEN none ELSE asleep[p]]
\* bremfree() of the buffers of S.
Without(list, S) ==
  LET rest[n \in 0 .. Len(list)] == IF n = 0 THEN <<>> ELSE
        IF list[n] \in S THEN rest[n - 1] ELSE Append(rest[n - 1], list[n])
  IN rest[Len(list)]

\* incore(): the valid buffers for the block.
incore(k) == {b \in Buf : b_blk[b] = k /\ "INVAL" \notin b_flags[b]}
OnVnode(v, list) == {b \in Buf : b_list[b] = list /\ b_blk[b] # none /\ VnodeOf[b_blk[b]] = v}

\* A process in the first loop of vflushbuf(), or between two turns of the inner
\* loop of vinvalbuf(), keeps the processor.
At(p, place) == /\ pc[p] = place /\ asleep[p] = none
                /\ \A q \in Proc \ {p} : pc[q] # "flush" /\ nbp[q] = none

\* That loop goes round for ever when all that is left on the dirty list is busy
\* and no write is under way: who holds the buffers does not run.
Idle(S) == {b \in S : "BUSY" \notin b_flags[b]}
Spinning == \E p \in Proc :
  /\ pc[p] = "flush" /\ req[p].use = "sync"
  /\ v_numoutput[req[p].blk] = 0
  /\ OnVnode(req[p].blk, "dirty") # {} /\ Idle(OnVnode(req[p].blk, "dirty")) = {}

\* The flags of a buffer whose write is started, by bwrite() or bawrite().
Started(fl, async) ==
  (fl \ {"READ", "DONE", "ERROR", "DELWRI", "ASYNC"})
    \cup {"DIRTY"} \cup (IF async THEN {"ASYNC"} ELSE {})
    \cup (IF "DELWRI" \in fl THEN {"AGE"} ELSE {})

\* A mistake, to see Accounted fail: the write is not counted.  (The suffixed
\* definitions below are of the same kind.)
MoreOutput_lost(S) == v_numoutput

\* v_numoutput++ for each buffer of S.
MoreOutput(S) ==
  [v \in Vnode |-> v_numoutput[v] + Cardinality({b \in S : VnodeOf[b_blk[b]] = v})]

\* allocbuf(), and the first memory of a header: what the buffer takes more is
\* no longer free.
Resize(b, k) ==
  /\ b_bufsize' = [b_bufsize EXCEPT ![b] = SizeOf[k]]
  /\ freebufspace' = freebufspace - (SizeOf[k] - b_bufsize[b])

-----------------------------------------------------------------------------
(* brelse(), of buffer b with flags fl: who wanted it, or any buffer, is    *)
(* woken; a bad buffer leaves its vnode and goes first on the age list.     *)

Bad(fl) == fl \cap {"INVAL", "ERROR"} # {}
Stale(fl) == "AGE" \in fl /\ "CACHE" \notin fl
RelFlags(fl) ==
  IF Bad(fl) THEN {"INVAL"}
  ELSE fl \ ({"WANTED", "CACHE", "BUSY"} \cup (IF Stale(fl) THEN {} ELSE {"AGE"}))
RelAge(b, fl) ==
  CASE Bad(fl) -> <<b>> \o age
    [] ~Bad(fl) /\ Stale(fl) -> Append(age, b)
    [] OTHER -> age
RelLru(b, fl) == IF Bad(fl) \/ Stale(fl) THEN lru ELSE Append(lru, b)
\* Who waits for this block, or who waits for any buffer, is not woken.
RelChans_free(b, fl) == IF wanted THEN {"bfreelist"} ELSE {}
RelChans_block(b, fl) == IF "WANTED" \in fl THEN {b} ELSE {}

RelChans(b, fl) == (IF wanted THEN {"bfreelist"} ELSE {})
                     \cup (IF "WANTED" \in fl THEN {b} ELSE {})

\* History: the version on the disk is the last one again after a failed write
\* and when a buffer is thrown away; no flush has to write what is gone.
BackToDisk(k) ==
  /\ latest' = [latest EXCEPT ![k] = disk[k]]
  /\ due' = [p \in Proc |-> [due[p] EXCEPT ![k] = IF @ > disk[k] THEN disk[k] ELSE @]]
Forget(b, fl) ==
  IF Bad(fl) /\ ~Bad(b_flags[b]) THEN BackToDisk(b_blk[b]) ELSE UNCHANGED <<latest, due>>

\* The whole of brelse() but for the flags, the wakeups and the contents.
Requeue(b, fl) ==
  /\ b_blk' = IF Bad(fl) THEN [b_blk EXCEPT ![b] = none] ELSE b_blk
  /\ b_list' = IF Bad(fl) THEN [b_list EXCEPT ![b] = "none"] ELSE b_list
  /\ age' = RelAge(b, fl) /\ lru' = RelLru(b, fl)
  /\ wanted' = FALSE
  /\ UNCHANGED <<empty, b_bufsize, freebufspace>>

brelse(b, fl) ==
  /\ Requeue(b, fl)
  /\ b_flags' = [b_flags EXCEPT ![b] = RelFlags(fl)]
  /\ asleep' = Woken(RelChans(b, fl))
  /\ Forget(b, fl)

-----------------------------------------------------------------------------
(* getnewbuf(): the delayed writes in front of the first other buffer of    *)
(* the age and the LRU list are started on the way.                         *)

Queue == age \o lru
Delayed(b) == "DELWRI" \in b_flags[b]
\* A delayed write is taken for a free buffer.
Victims_any == {1} \cap DOMAIN Queue

Victims == {i \in DOMAIN Queue : ~Delayed(Queue[i]) /\ \A j \in 1 .. i - 1 : Delayed(Queue[j])}
PushedBy(n) == {Queue[i] : i \in {i \in DOMAIN Queue : i <= n /\ \A j \in 1 .. i : Delayed(Queue[j])}}
Pushed == PushedBy(Len(Queue))

\* The flags of every buffer once the buffers of S are pushed out.
PushedFlags(S) ==
  [b \in Buf |-> IF b \in S THEN Started(b_flags[b] \cup {"BUSY"}, TRUE) ELSE b_flags[b]]
PushedList(S) == [b \in Buf |-> IF b \in S THEN "clean" ELSE b_list[b]]

\* A buffer newly assigned is taken for one found in the cache.
Reads_never(use, fl) == use # "getblk" /\ "INVAL" \in fl

\* Process p has buffer b, with flags fl, for its request, the buffers of S
\* having been pushed out: bread() and breada() start a read unless the block
\* was found in the cache.
Reads(use, fl) == use # "getblk" /\ ("CACHE" \notin fl \/ "INVAL" \in fl)
Deliver(p, b, fl, S, use) ==
  LET reads == Reads(use, fl)
      newfl == IF reads THEN (fl \cup {"READ"}) \ {"DONE", "ERROR", "INVAL"} ELSE fl
  IN /\ b_flags' = [PushedFlags(S) EXCEPT ![b] = newfl]
     /\ io' = io \cup S \cup (IF reads THEN {b} ELSE {})
     /\ held' = [held EXCEPT ![p] = b]
     /\ Go(p, CASE use = "breada" -> IF reads THEN "reada" ELSE "reada_hit"
                [] use # "breada" /\ reads -> "biowait"
                [] OTHER -> "held")

\* The buffer becomes the one of block k: bgetvp(), binshash().
Assign(b, k, S) ==
  /\ b_blk' = [b_blk EXCEPT ![b] = k]
  /\ b_list' = [PushedList(S) EXCEPT ![b] = "clean"]
  /\ Resize(b, k)

\* What getnewbuf() comes back with: a header from the empty list, as long as
\* there is memory for it, or the first buffer that is no delayed write.  malloc() is
\* asked again after each write that is started.
MayConstitute(sz) == freebufspace > sz /\ empty # <<>>
NewBuf(b, S, sz) ==
  \/ /\ MayConstitute(sz)
     /\ b = Head(empty) /\ (NoMemory \/ S = {})
     /\ empty' = Tail(empty) /\ age' = Without(age, S) /\ lru' = Without(lru, S)
  \/ /\ NoMemory \/ ~MayConstitute(sz)
     /\ S = Pushed /\ \E i \in Victims : b = Queue[i]
     /\ age' = Without(age, S \cup {b}) /\ lru' = Without(lru, S \cup {b})
     /\ UNCHANGED empty

\* allocbuf() is needed, and may sleep, when a used buffer has another size.
MaySleep(b, k) == b_bufsize[b] \notin {0, SizeOf[k]}

\* getnewbuf() for block k of process p; then on with it, or asleep in
\* allocbuf() with a buffer that is nobody's.
getnewbuf(p, k, use) == \E b \in Buf, S \in {PushedBy(n) : n \in 0 .. Len(Queue)} :
  /\ NewBuf(b, S, SizeOf[k])
  /\ v_numoutput' = MoreOutput(S)
  /\ \/ /\ Deliver(p, b, {"BUSY"}, S, use)
        /\ Assign(b, k, S)
     \/ /\ MaySleep(b, k)
        /\ b_flags' = [PushedFlags(S) EXCEPT ![b] = {"INVAL", "BUSY"}]
        /\ b_blk' = [b_blk EXCEPT ![b] = none]
        /\ b_list' = [PushedList(S) EXCEPT ![b] = "none"]
        /\ io' = io \cup S
        /\ held' = [held EXCEPT ![p] = b]
        /\ Go(p, "alloc")
        /\ UNCHANGED <<b_bufsize, freebufspace>>
  /\ UNCHANGED <<wanted, asleep>>

\* No buffer at all: wait for one, then ask for the block again.
nobuf(p, place, sz) ==
  /\ NoMemory \/ ~MayConstitute(sz)
  /\ Victims = {}
  /\ LET S == Pushed
     IN /\ v_numoutput' = MoreOutput(S)
        /\ b_flags' = PushedFlags(S) /\ b_list' = PushedList(S)
        /\ io' = io \cup S
        /\ age' = Without(age, S) /\ lru' = Without(lru, S)
  /\ wanted' = TRUE
  /\ SleepOn(p, "bfreelist")
  /\ Go(p, place)
  /\ UNCHANGED <<empty, b_blk, b_bufsize, freebufspace, held>>

-----------------------------------------------------------------------------
(* getblk() with what bread() and breada() do next.                        *)

hit_busy(p, k) == \E b \in incore(k) :
  /\ "BUSY" \in b_flags[b]
  /\ b_flags' = [b_flags EXCEPT ![b] = (@ \ {"AGE"}) \cup {"WANTED", "CACHE"}]
  /\ SleepOn(p, b)
  /\ Go(p, "getblk")
  /\ UNCHANGED <<b_blk, b_list, b_bufsize, freebufspace, lists, wanted, v_numoutput, io, held>>

hit_free(p, k, use) == \E b \in incore(k) :
  /\ "BUSY" \notin b_flags[b]
  /\ Deliver(p, b, (b_flags[b] \ {"AGE"}) \cup {"BUSY", "CACHE"}, {}, use)
  /\ age' = Without(age, {b}) /\ lru' = Without(lru, {b})
  /\ Resize(b, k)
  /\ UNCHANGED <<b_blk, b_list, empty, wanted, v_numoutput, asleep>>

getblk(p, k, use) ==
  /\ \/ hit_busy(p, k)
     \/ hit_free(p, k, use)
     \/ incore(k) = {} /\ getnewbuf(p, k, use)
     \/ incore(k) = {} /\ nobuf(p, "getblk", SizeOf[k])
  /\ req' = [req EXCEPT ![p] = [use |-> use, blk |-> k]]
  /\ UNCHANGED <<b_data, VBWAIT, vals, nbp>>

getblk_start(p, k, use) == At(p, "idle") /\ getblk(p, k, use)
getblk_again(p) == At(p, "getblk") /\ getblk(p, req[p].blk, req[p].use)

\* Back from allocbuf(): nothing is looked up again.
getblk_alloc(p) ==
  /\ At(p, "alloc")
  /\ Deliver(p, held[p], {"BUSY"}, {}, req[p].use)
  /\ Assign(held[p], req[p].blk, {})
  /\ UNCHANGED <<b_data, lists, wanted, outs, vals, req, asleep, nbp>>

\* breada(): the second block k, if absent, is read without waiting for it, in
\* a buffer of the first one's size; if present and of age it counts as used.
Waits(p) == IF pc[p] = "reada" THEN "biowait" ELSE "held"
ra_miss(p, k) == \E b \in Buf, S \in {PushedBy(n) : n \in 0 .. Len(Queue)} :
  /\ NewBuf(b, S, SizeOf[req[p].blk])
  /\ v_numoutput' = MoreOutput(S)
  /\ b_flags' = [PushedFlags(S) EXCEPT ![b] = {"BUSY", "READ", "ASYNC", "AGE"}]
  /\ io' = io \cup S \cup {b}
  /\ b_blk' = [b_blk EXCEPT ![b] = k]
  /\ b_list' = [PushedList(S) EXCEPT ![b] = "clean"]
  /\ Resize(b, req[p].blk)
  /\ Go(p, Waits(p))
  /\ UNCHANGED <<wanted, held, asleep>>

ra_hit(p, k) == \E b \in incore(k) :
  /\ IF "AGE" \in b_flags[b] /\ "BUSY" \notin b_flags[b]
       THEN /\ b_flags' = [b_flags EXCEPT ![b] = RelFlags(@)]
            /\ age' = Append(Without(age, {b}), b) /\ lru' = lru
            /\ wanted' = FALSE /\ asleep' = Woken(RelChans(b, b_flags[b]))
       ELSE /\ b_flags' = [b_flags EXCEPT ![b] = @ \ {"AGE"}]
            /\ UNCHANGED <<age, lru, wanted, asleep>>
  /\ Go(p, Waits(p))
  /\ UNCHANGED <<b_blk, b_list, b_bufsize, freebufspace, empty, v_numoutput, io, held>>

breada(p, k) ==
  /\ At(p, "reada") \/ At(p, "reada_hit")
  /\ k # req[p].blk /\ VnodeOf[k] = VnodeOf[req[p].blk]
  /\ \/ incore(k) = {} /\ ra_miss(p, k)
     \/ incore(k) = {} /\ nobuf(p, pc[p], SizeOf[req[p].blk])
     \/ ra_hit(p, k)
  /\ UNCHANGED <<b_data, VBWAIT, vals, req, nbp>>

-----------------------------------------------------------------------------
(* biowait(), then what its caller does: bread() returns the buffer,       *)
(* bwrite() releases it.                                                   *)

\* The I/O may be over already.
biowait_blind(p) ==
  /\ At(p, "biowait")
  /\ SleepOn(p, held[p])
  /\ UNCHANGED <<bufs, lists, wanted, outs, io, vals, pc, req, held, nbp>>

biowait_sleep(p) ==
  /\ At(p, "biowait") /\ "DONE" \notin b_flags[held[p]]
  /\ SleepOn(p, held[p])
  /\ UNCHANGED <<bufs, lists, wanted, outs, io, vals, pc, req, held, nbp>>

Failed(b) == "ERROR" \in b_flags[b]
Result(b) == IF Failed(b) THEN b_flags[b] \cup {"INVAL"} ELSE b_flags[b]

bread_done(p) ==
  /\ At(p, "biowait") /\ "DONE" \in b_flags[held[p]]
  /\ req[p].use \in {"bread", "breada"}
  /\ b_flags' = [b_flags EXCEPT ![held[p]] = Result(held[p])]
  /\ req' = IF Failed(held[p]) THEN [req EXCEPT ![p].use = "bad"] ELSE req
  /\ Go(p, "held")
  /\ UNCHANGED <<b_blk, b_list, b_bufsize, freebufspace, b_data, lists, wanted, outs, io, vals, held, asleep, nbp>>

bwrite_done(p) ==
  /\ At(p, "biowait") /\ "DONE" \in b_flags[held[p]]
  /\ req[p].use \in {"bwrite", "ibwrite"}
  /\ brelse(held[p], Result(held[p]))
  /\ Go(p, IF req[p].use = "bwrite" THEN "idle" ELSE "inval")
  /\ req' = [req EXCEPT ![p] = IF @.use = "bwrite" THEN NoReq
                               ELSE [use |-> "save", blk |-> VnodeOf[@.blk]]]
  /\ held' = [held EXCEPT ![p] = none]
  /\ UNCHANGED <<b_data, outs, io, disk, nbp>>

-----------------------------------------------------------------------------
(* The holder of a buffer gives it back.                                   *)

Done(p) ==
  /\ Go(p, "idle")
  /\ req' = [req EXCEPT ![p] = NoReq]
  /\ held' = [held EXCEPT ![p] = none]

\* As it is, or with B_INVAL; a block asked for with getblk(), to be filled by
\* the caller, is written or made invalid.
brelse_held(p, inval) ==
  /\ At(p, "held")
  /\ inval \/ req[p].use # "getblk"
  /\ brelse(held[p], b_flags[held[p]] \cup (IF inval THEN {"INVAL"} ELSE {}))
  /\ Done(p)
  /\ UNCHANGED <<b_data, outs, io, disk, nbp>>

\* A new version of the contents, to be written in one of three ways.
MayWrite(p) == At(p, "held") /\ req[p].use # "bad" /\ latest[req[p].blk] < MaxVer
Modify(p) ==
  LET k == req[p].blk
  IN /\ latest' = [latest EXCEPT ![k] = @ + 1]
     /\ b_data' = [b_data EXCEPT ![held[p]] = latest[k] + 1]

StartWrite(b, async) ==
  /\ b_flags' = [b_flags EXCEPT ![b] = Started(@, async)]
  /\ b_list' = [b_list EXCEPT ![b] = IF Delayed(b) THEN "clean" ELSE @]
  /\ v_numoutput' = MoreOutput({b})
  /\ io' = io \cup {b}

bwrite(p) ==
  /\ MayWrite(p) /\ Modify(p)
  /\ StartWrite(held[p], FALSE)
  /\ Go(p, "biowait") /\ req' = [req EXCEPT ![p].use = "bwrite"]
  /\ UNCHANGED <<b_blk, b_bufsize, freebufspace, lists, wanted, VBWAIT, disk, due, held, asleep, nbp>>

bawrite(p) ==
  /\ MayWrite(p) /\ Modify(p)
  /\ StartWrite(held[p], TRUE)
  /\ Done(p)
  /\ UNCHANGED <<b_blk, b_bufsize, freebufspace, lists, wanted, VBWAIT, disk, due, asleep, nbp>>

bdwrite(p) ==
  /\ MayWrite(p) /\ Modify(p)
  /\ LET b == held[p]
         fl == (b_flags[b] \ {"READ", "DONE"}) \cup {"DIRTY", "DELWRI"}
     IN /\ b_flags' = [b_flags EXCEPT ![b] = RelFlags(fl)]
        /\ b_list' = [b_list EXCEPT ![b] = "dirty"]
        /\ age' = RelAge(b, fl) /\ lru' = RelLru(b, fl)
        /\ wanted' = FALSE /\ asleep' = Woken(RelChans(b, fl))
  /\ Done(p)
  /\ UNCHANGED <<b_blk, b_bufsize, freebufspace, empty, outs, io, disk, due, nbp>>

-----------------------------------------------------------------------------
(* The disk interrupt: biodone() and, in it, vwakeup() and, for B_ASYNC,   *)
(* brelse().                                                               *)

\* v_numoutput--, in vwakeup().
LessOutput(v) == [v_numoutput EXCEPT ![v] = @ - 1]

biodone(b, ok) ==
  LET k == b_blk[b]
      v == VnodeOf[k]
      write == "READ" \notin b_flags[b] /\ "DIRTY" \in b_flags[b]
      fl == (b_flags[b] \cup (IF ok THEN {} ELSE {"ERROR"}))
              \ (IF write THEN {"DIRTY"} ELSE {})
      async == "ASYNC" \in fl
      last == write /\ v \in VBWAIT /\ v_numoutput[v] <= 1
  IN /\ b \in io
     /\ io' = io \ {b}
     /\ disk' = IF write /\ ok THEN [disk EXCEPT ![k] = b_data[b]] ELSE disk
     /\ b_data' = IF ~write /\ ok THEN [b_data EXCEPT ![b] = disk[k]] ELSE b_data
     /\ v_numoutput' = IF write THEN LessOutput(v) ELSE v_numoutput
     /\ VBWAIT' = IF last THEN VBWAIT \ {v} ELSE VBWAIT
     /\ IF async THEN Requeue(b, fl)
        ELSE UNCHANGED <<b_blk, b_list, b_bufsize, freebufspace, lists, wanted>>
     /\ IF ok THEN UNCHANGED <<latest, due>> ELSE BackToDisk(k)
     /\ b_flags' = [b_flags EXCEPT ![b] =
                      ((IF async THEN RelFlags(fl) ELSE fl) \ {"ASYNC"}) \cup {"DONE"}]
     /\ asleep' = Woken({b} \cup (IF last THEN {v} ELSE {})
                          \cup (IF async THEN RelChans(b, fl) ELSE {}))
     /\ UNCHANGED <<pc, req, held, nbp>>

-----------------------------------------------------------------------------
(* vflushbuf(): starts the delayed writes of a vnode one after the other;  *)
(* if synchronous, waits until none is under way and begins again if there *)
(* are new ones.                                                           *)

vflushbuf(p, v, use) ==
  /\ At(p, "idle")
  /\ Go(p, "flush")
  /\ req' = [req EXCEPT ![p] = [use |-> use, blk |-> v]]
  /\ due' = [due EXCEPT ![p] = [k \in Block |-> IF VnodeOf[k] = v /\ use = "sync"
                                                 THEN latest[k] ELSE 0]]
  /\ UNCHANGED <<bufs, lists, wanted, outs, io, disk, latest, held, asleep, nbp>>

flush_one(p) == \E b \in Idle(OnVnode(req[p].blk, "dirty")) :
  /\ At(p, "flush")
  /\ age' = Without(age, {b}) /\ lru' = Without(lru, {b})
  /\ b_flags' = PushedFlags({b}) /\ b_list' = PushedList({b})
  /\ v_numoutput' = MoreOutput({b})
  /\ io' = io \cup {b}
  /\ UNCHANGED <<b_blk, b_bufsize, freebufspace, b_data, empty, wanted, VBWAIT, vals, pc, req, held, asleep, nbp>>

Return(p) == Done(p) /\ due' = [due EXCEPT ![p] = [k \in Block |-> 0]]

flush_return(p) ==
  /\ At(p, "flush") /\ req[p].use = "flush"
  /\ Idle(OnVnode(req[p].blk, "dirty")) = {}
  /\ Return(p)
  /\ UNCHANGED <<bufs, lists, wanted, outs, io, disk, latest, asleep, nbp>>

\* No write of the vnode is under way; and not waiting for that.
Drained_now(v) == TRUE
Drained(v) == v_numoutput[v] = 0

\* The wait for v_numoutput, first and after each wakeup.
flush_wait(p) ==
  /\ \/ At(p, "flush") /\ req[p].use = "sync" /\ Idle(OnVnode(req[p].blk, "dirty")) = {}
     \/ At(p, "flushw")
  /\ ~Drained(req[p].blk)
  /\ VBWAIT' = VBWAIT \cup {req[p].blk}
  /\ SleepOn(p, req[p].blk)
  /\ Go(p, "flushw")
  /\ UNCHANGED <<bufs, lists, wanted, v_numoutput, io, vals, req, held, nbp>>

flush_check(p) ==
  /\ \/ At(p, "flush") /\ req[p].use = "sync" /\ Idle(OnVnode(req[p].blk, "dirty")) = {}
     \/ At(p, "flushw")
  /\ Drained(req[p].blk)
  /\ \/ OnVnode(req[p].blk, "dirty") = {} /\ Return(p)
     \/ /\ OnVnode(req[p].blk, "dirty") # {} /\ pc[p] = "flushw"
        /\ Go(p, "flush") /\ UNCHANGED <<req, held, due>>
  /\ UNCHANGED <<bufs, lists, wanted, outs, io, disk, latest, asleep, nbp>>

-----------------------------------------------------------------------------
(* vinvalbuf(): each buffer of the vnode, the dirty ones first, is waited  *)
(* for, written if it has to be saved, and thrown away.                    *)

vinvalbuf(p, v, use) ==
  /\ At(p, "idle")
  /\ Go(p, "inval")
  /\ req' = [req EXCEPT ![p] = [use |-> use, blk |-> v]]
  /\ UNCHANGED <<bufs, lists, wanted, outs, io, vals, held, asleep, nbp>>

\* The turn's buffer: the one fetched in the turn before, or the first of a list.
Remaining(v) == IF OnVnode(v, "dirty") # {} THEN OnVnode(v, "dirty") ELSE OnVnode(v, "clean")

Turn(p) == IF nbp[p] = none THEN Remaining(req[p].blk)
           ELSE {nbp[p]} \cap (OnVnode(req[p].blk, "dirty") \cup OnVnode(req[p].blk, "clean"))
Panicking == \E p \in Proc : nbp[p] # none /\ Turn(p) = {}

inval_busy(p) == \E b \in Turn(p) :
  /\ At(p, "inval") /\ "BUSY" \in b_flags[b]
  /\ b_flags' = [b_flags EXCEPT ![b] = @ \cup {"WANTED"}]
  /\ SleepOn(p, b)
  /\ nbp' = [nbp EXCEPT ![p] = none]
  /\ UNCHANGED <<b_blk, b_list, b_bufsize, freebufspace, b_data, lists, wanted, outs, io, vals, pc, req, held>>

inval_save(p) == \E b \in Idle(Turn(p)) :
  /\ At(p, "inval") /\ req[p].use = "save" /\ Delayed(b)
  /\ age' = Without(age, {b}) /\ lru' = Without(lru, {b})
  /\ b_flags' = [b_flags EXCEPT ![b] = Started(@ \cup {"BUSY"}, FALSE)]
  /\ b_list' = [b_list EXCEPT ![b] = "clean"]
  /\ v_numoutput' = MoreOutput({b}) /\ io' = io \cup {b}
  /\ held' = [held EXCEPT ![p] = b]
  /\ Go(p, "biowait")
  /\ req' = [req EXCEPT ![p] = [use |-> "ibwrite", blk |-> b_blk[b]]]
  /\ nbp' = [nbp EXCEPT ![p] = none]
  /\ UNCHANGED <<b_blk, b_bufsize, freebufspace, b_data, empty, wanted, VBWAIT, vals, asleep>>

inval_drop(p) == \E b \in Idle(Turn(p)) :
  /\ At(p, "inval") /\ ~(req[p].use = "save" /\ Delayed(b))
  /\ b_blk' = [b_blk EXCEPT ![b] = none] /\ b_list' = [b_list EXCEPT ![b] = "none"]
  /\ b_flags' = [b_flags EXCEPT ![b] = {"INVAL"}]
  /\ age' = <<b>> \o Without(age, {b}) /\ lru' = Without(lru, {b})
  /\ wanted' = FALSE /\ asleep' = Woken(RelChans(b, b_flags[b]))
  /\ Forget(b, {"INVAL"})
  /\ LET rest == OnVnode(req[p].blk, b_list[b]) \ {b}
     IN \/ rest = {} /\ nbp' = [nbp EXCEPT ![p] = none]
        \/ \E n \in rest : nbp' = [nbp EXCEPT ![p] = n]
  /\ UNCHANGED <<b_bufsize, freebufspace, b_data, empty, outs, io, disk, pc, req, held>>

inval_return(p) ==
  /\ At(p, "inval") /\ nbp[p] = none /\ Remaining(req[p].blk) = {}
  /\ Done(p)
  /\ UNCHANGED <<bufs, lists, wanted, outs, io, vals, asleep, nbp>>

-----------------------------------------------------------------------------
\* The steps a process takes once it has begun.
Resume(p) ==
  \/ getblk_again(p) \/ getblk_alloc(p) \/ (\E k \in Block : breada(p, k))
  \/ biowait_sleep(p) \/ bread_done(p) \/ bwrite_done(p)
  \/ flush_one(p) \/ flush_return(p) \/ flush_wait(p) \/ flush_check(p)
  \/ inval_busy(p) \/ inval_save(p) \/ inval_drop(p) \/ inval_return(p)

Release(p) ==
  \/ \E inval \in BOOLEAN : brelse_held(p, inval)
  \/ "bwrite" \in Uses /\ bwrite(p)
  \/ "bawrite" \in Uses /\ bawrite(p)
  \/ "bdwrite" \in Uses /\ bdwrite(p)

Next ==
  \/ \E p \in Proc, k \in Block, use \in Uses \cap {"bread", "breada", "getblk"} : getblk_start(p, k, use)
  \/ \E p \in Proc, v \in Vnode, use \in Uses \cap {"flush", "sync"} : vflushbuf(p, v, use)
  \/ \E p \in Proc, v \in Vnode, use \in Uses \cap {"inval", "save"} : vinvalbuf(p, v, use)
  \/ \E p \in Proc : Resume(p) \/ Release(p)
  \/ \E b \in Buf, ok \in BOOLEAN : biodone(b, ok)

Spec == Init /\ [][Next]_vars

\* The disk answers; a process that is awake runs (whoever loops in vflushbuf()
\* may keep it from the processor for a while: strong fairness), and the holder
\* of a buffer gives it back.
FairSpec ==
  /\ Spec
  /\ \A b \in Buf : WF_vars(\E ok \in BOOLEAN : biodone(b, ok))
  /\ \A p \in Proc : SF_vars(Resume(p)) /\ SF_vars(Release(p))

-----------------------------------------------------------------------------
(* Properties                                                              *)

Writing(b) == b \in io /\ "READ" \notin b_flags[b]
Owners(b) == {p \in Proc : held[p] = b}

(* v_numoutput is exactly the number of writes under way, whatever fails   *)
(* and whatever is thrown away: vflushbuf() waits on it.                   *)
OutputCounted == \A v \in Vnode :
  v_numoutput[v] = Cardinality({b \in io : Writing(b) /\ VnodeOf[b_blk[b]] = v})

(* A buffer is on one free list, once, unless it is busy; a busy buffer    *)
(* has one owner: a process, or the I/O that will release it.  A delayed   *)
(* write is on its vnode's dirty list and nothing else is (vflushbuf()     *)
(* panics otherwise).  No memory is lost,   *)
(* and v_numoutput is exact.                                               *)
Accounted ==
 /\ TypeOK /\ OutputCounted
 /\ freebufspace + FoldFunction(+, 0, b_bufsize) = BufSpace
 /\ \A b \in Buf :
      /\ Cardinality({i \in DOMAIN (empty \o Queue) : (empty \o Queue)[i] = b})
           = IF "BUSY" \in b_flags[b] THEN 0 ELSE 1
      /\ Cardinality(Owners(b)) = IF "BUSY" \in b_flags[b] /\ "ASYNC" \notin b_flags[b] THEN 1 ELSE 0
      /\ "ASYNC" \in b_flags[b] => b \in io
      /\ b_list[b] = (IF b_blk[b] = none THEN "none" ELSE IF Delayed(b) THEN "dirty" ELSE "clean")

(* Whoever sleeps is covered by a mark, and by a busy buffer or an I/O     *)
(* whose end looks at the mark and wakes it.                               *)
SleepersCovered == \A p \in Proc :
  /\ asleep[p] = "bfreelist" => wanted
  /\ asleep[p] \in Buf /\ pc[p] \in {"getblk", "inval"} =>
        {"BUSY", "WANTED"} \subseteq b_flags[asleep[p]]
  /\ asleep[p] \in Buf /\ pc[p] = "biowait" => asleep[p] \in io
  /\ asleep[p] \in Vnode => asleep[p] \in VBWAIT /\ v_numoutput[asleep[p]] # 0

(* getblk()'s comment: a block that is in the cache is found and returned, *)
(* an empty buffer is returned `otherwise': no block is in two buffers.    *)
OneBufferPerBlock == \A k \in Block : Cardinality(incore(k)) <= 1

(* Any buffer another process could be given shows the last version        *)
(* written to its block.                                                   *)
Filled(b) ==
  /\ b_flags[b] \cap {"INVAL", "ERROR"} = {}
  /\ ~(b \in io /\ "READ" \in b_flags[b])
  /\ \A p \in Owners(b) : req[p].use # "getblk"
Coherent == \A b \in Buf : b_blk[b] # none /\ Filled(b) => b_data[b] = latest[b_blk[b]]

(* The last version of a block is on the disk, on its way to the disk, or  *)
(* in a buffer that is still due to be written: eviction, read-ahead and   *)
(* the reuse of buffers lose none.                                         *)
NothingLost == \A k \in Block :
  \/ latest[k] = disk[k]
  \/ \E b \in incore(k) : /\ b_data[b] = latest[k]
                          /\ Delayed(b) \/ Writing(b)

(* When a synchronous vflushbuf() returns, what had been written to the    *)
(* vnode's blocks when it was called is on the disk (or failed).           *)
SyncReachesDisk ==
  [][\A p \in Proc : req[p].use = "sync" /\ pc'[p] = "idle" =>
       \A k \in Block : disk[k] >= due[p][k]]_vars

(* Not everyone waits for everyone: some process can run or some I/O is    *)
(* under way, unless every buffer is without memory, malloc() having       *)
(* failed, or in the hands of a breada() that waits for a second one:      *)
(* these do end in a deadlock.                                             *)
Hoarded == {held[p] : p \in {p \in Proc : asleep[p] = "bfreelist"}}
NotAllAsleep == \/ Spinning \/ Panicking \/ io # {} \/ \E p \in Proc : asleep[p] = none
                \/ Buf \subseteq Range(empty) \cup Hoarded

(* vflushbuf()'s comment, `Flush all dirty buffers associated with a       *)
(* vnode': it never loops on a buffer whose holder cannot run.             *)
FlushNeverSpins == ~Spinning

(* The assertion of reassignbuf(), `if (newvp == NULL) panic': the buffer  *)
(* that vinvalbuf() goes on to still belongs to a vnode when it gets there.*)
InvalNeverPanics == ~Panicking

(* A process that waits for I/O in biowait() goes on, and one that         *)
(* getnewbuf() put to sleep for want of a buffer is woken, unless          *)
(* vflushbuf() keeps the processor for ever or vinvalbuf() panics.         *)
WaitsEnd == \A p \in Proc :
  /\ pc[p] = "biowait" ~> pc[p] # "biowait" \/ Spinning \/ Panicking
  /\ asleep[p] = "bfreelist" ~> asleep[p] = none \/ Spinning \/ Panicking
=============================================================================
