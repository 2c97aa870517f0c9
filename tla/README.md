# 386BSD kernel: TLA+ models, checks and proofs

386BSD is a complete operating system. Its own logic is the kernel under
`usr/src/kernel`; the rest of the tree is user programs, libraries and vendored
software (GNU tools, X386). All paths below are relative to `usr/src/kernel`.

The kernel runs on one processor and is not preempted: a process executes from
one `tsleep()` to the next. What makes it hard is what happens around that:
every sleep is a point where other processes change shared structures, interrupts
(`biodone()`, `hardclock()`, `softclock()`, `psignal()` from a terminal) come at any
point that `spl*()` does not exclude, and wakeups wake everyone, in any order. That
is what the models are about.

## Inventory

| Component | State | Operations | Interacts with | What makes it correct |
|---|---|---|---|---|
| Sleep locks, `kern/lock.c` | counts and bits of `struct lock`, sleepers | `lock_write`, `lock_read`, `lock_done`, upgrade, downgrade, attempts, recursive mode | `tsleep`/`wakeup`; used by `kern/vm/map.c` | exclusion; an upgrade is atomic; `lock_done()` releases what the caller has; no forgotten sleeper |
| Callout queue, `kern/clock.c` | list of entries with relative times, free entries | `hardclock`, `softclock`, `timeout`, `untimeout` | called from everywhere; `tsleep` limits, TCP timers | exact times; service in order; cancelling is final; nothing waits for ever |
| Sleep and signals, `kern/synch.c`, `kern/sig.c` | `p_stat`, `p_wchan`, pending and held signals, `SSINTR`, `STIMO`, the timer | `tsleep`, `wakeup`, `endtsleep`, `setrun`, `psignal`, `issig`, `stop`, `sigprocmask`, `sigaction` | callout queue; every sleeper in the kernel | queue and state agree; no stale timer; the result tells what happened; SIGKILL works |
| Buffer cache, `kern/fs/bio.c`, `kern/fs/vnode.c` | headers, hash, three free lists, clean and dirty lists of a vnode, `v_numoutput` | `bread`, `breada`, `bwrite`, `bdwrite`, `bawrite`, `brelse`, `getblk`, `getnewbuf`, `allocbuf`, `biowait`, `biodone`, `vflushbuf`, `vinvalbuf` | all file systems, disk drivers (interrupt), `malloc` | one buffer per block; no delayed write lost; no lost wakeup; a synchronous flush reaches the disk |
| Ring buffers, `kern/subr/ring.c` | head, tail, array | `putc`, `getc`, `ungetc`, `unputc`, `catb`, contiguous runs | terminals, serial lines, `aux` | a bounded queue |
| Resource lists, `kern/subr/rlist.c` | sorted list of free extents | `rlist_free`, `rlist_alloc`, `rlist_destroy` | swap space, I/O ports; `malloc` | space neither lost nor given twice; free regions are found |
| Scheduler | run queues, priorities | `setrq`, `swtch`, `schedcpu` | sleep, clock | not modelled: every runnable process may run |
| Process life cycle, `kern/fork.c`, `kern/exit.c`, `kern/proc.c` | `proc` entries, lists of groups and sessions, `pg_jobc`, `nextpid`, `pidchecked` | `fork1`, `exit`, `wait4`, `setsid`, `setpgid`, the end of `execve` | `malloc`, sleep, `sbin/init` | pids unique; lists and counts exact; no zombie slept through; orphans reaped |
| Advisory locks, `ufs/ufs_lockf.c` | list of locks of a file, blocked requests behind each | `lf_setlock`, `lf_clearlock`, `lf_split` | `fcntl`, `flock`, `closef`; sleep, `malloc` | byte by byte the table of locks; no lost wakeup; cycles refused |
| NFS client, `nfs/nfs_socket.c` | outstanding requests, send window, backoff, socket lock | `nfs_request`, `nfs_send`, `nfs_reply`, `nfs_timer` | network, callout queue, signals | window counts what is outstanding; every request ends |
| NFS server, `nfs/nfs_srvcache.c`, `nfs/nfs_syscalls.c` | request cache with locks and ages | `nfsrv_getcache`, `nfsrv_updatecache`, the loop of `nfssvc` | network, `nfsd` processes, reboots | at most once while remembered; right replies; retransmissions answered |
| Memory allocator, `kern/malloc.c` | buckets | `malloc`, `free` | VM | planned; appears as a call that may sleep |
| Virtual memory, `kern/vm` | maps, objects, pages, swap | fault, pageout, pagers | locks, resource lists, buffer cache | planned |
| Names and vnodes, `kern/fs` | name cache, vnode free list | `cache_lookup`, `vget`, `vrele`, `vclean` | buffer cache | planned |
| Rest of `ufs`, `nfs`, and the other file systems | on-disk structures | | buffer cache, vnodes | mostly out of reach |
| Sockets, protocols | socket buffers, control blocks | | callout queue, sleep | `sockbuf` planned; TCP is a project of its own |
| Terminals, drivers, machine dependent code, debugger, FPU emulation | | | | register level or formatting; not modelled |

Failure appears in five places: the disk answers with an error, `malloc()` sleeps or
(with `M_NOWAIT`) fails, tables run out, the network loses, repeats and reorders, and the NFS
server reboots and forgets its cache. The hard spots, with their lines, are listed in `PROJECT.json`
under `hazards`.

## Modules

### Lock, RWLock, LockProofs

`Lock` has a variable for each field of `struct lock`. `pc[t]` is "run" or the sleep
of the lock code that the process is in, `asleep` the sleepers: after `wakeup()` they
all evaluate their loops again, one at a time, in any order (`lock_write_again`,
`lock_write_drained`, `lock_read_again`, `lock_upgrade_again`). `readers`, `wowner`, `uowner`
and `nested` record what callers were granted; the code only keeps counts and
bits, and the main question about `lock_done()` is whether its guess from those
fields agrees with the grants. Counters have their width (16 and 8 bits). Callers obey
the rules that the kernel's callers obey: they release what they hold, and recursive
mode is used as `vmspace_notpageable()` does.

`RWLock` is the promise: a mode per process, granted when compatible; an upgrade
goes from read to write with nobody writing in between. `Lock` implements it, a
process whose upgrade waits counting as a reader.

### Callout, CalloutProofs

`calltodo` is the list with the code's relative `c_time`. Each entry also carries
`left`, the true number of ticks to go, which the code does not have: properties
compare the two. `softclock()` is split where it lowers its priority between taking
an entry and calling it; `timeout()` and `untimeout()` may come at any such point, by a
process (which cannot run while `softclock()` is in the middle) or an interrupt.
`MaxTime`, `MaxLate` and `MaxPer` bound the times asked for, how long `softclock()` is held off and
the entries of one function.

### Sleep, SleepProofs

A process gives up the processor at four places: in `tsleep()`'s `swtch()`, and stopped
inside `issig()` called before sleeping, after sleeping, or on the way to user mode.
Each is a value of `where`, and each resumption an action. Signals are the four kinds
that the code treats differently; every mask the process may ask for is tried.
`ended` and `owed` are history variables: what took the process off its queue, and
stops it has been sent and not acted upon. `EINTR` and `ERESTART` are one result. Left
out: tracing, `vfork` (`SPPWAIT`), `sigsuspend()`, orphaned process groups, core dumps.

### BufCache, BufCacheProofs

Buffers have the flags of the code (less `B_CALL`, `B_NOCACHE`, `B_ORDER`); the hash table is
the set of valid buffers with a given block; the free lists are sequences, because
reuse depends on their order; the lists of a vnode are sets, because nothing depends on
theirs. Contents are version numbers: `latest` is the last version written (set
back when the write fails or the buffer is thrown away), `disk` what is on the disk. A
process is split at every sleep, between starting I/O and waiting for it, and between the
turns of the loops of `vflushbuf()` and `vinvalbuf()`, where the interrupt may come. The
disk answers every request, in any order, with success or failure. `allocbuf()` may sleep
when sizes differ, and with `NoMemory` the `malloc(M_NOWAIT)` of `getnewbuf()` may fail.
Situations from which the code does not recover are named and excepted: `Spinning` and
`Panicking` from the liveness properties, `Hoarded` (every buffer is held by a `breada()`
that waits for a second one, or all are empty and there is no memory) from `NotAllAsleep`; see
Observations. Read-ahead is modelled for blocks of one size: the sleep of `allocbuf()` inside it is left out.

### RingBuf, Fifo, StructureProofs

Positions are offsets into `rb_buf`. `Fifo` is a bounded double-ended queue; `RingBuf`
implements it with the characters from head to tail as its contents.
`contig_put` and `contig_get` are what the callers of `RB_CONTIGPUT` and `RB_CONTIGGET` do
(`termios.c`, `aux.c`). `nextc()` only reads and is left out.

### Rlist, StructureProofs

The list is a sequence of elements with addresses: a pointer kept across a sleep may
point to an element that stayed, to one that is gone, or to one that was allocated
again at the same address. `held`
is what callers have; a caller returns only what it has. The `malloc()` in
the middle of `rlist_free()` may sleep, and others then change the list. `slept` (an `rlist_free()` has
slept since the list was last emptied) and `wild` (a freed element was written to, which ends
the behaviour) say up to where the properties can hold.

### Lockf, RangeLocks, StructureProofs

`i_lockf` is the list of locks of one file; each record has the owner (a process for
`fcntl()`, an open file for `flock()`), type and range, and in `blk` who sleeps behind it. `nxt`
is what `lf_next` of a sleeping request points to, which may be a lock that was freed:
deadlock detection then reads anything. A call runs from `ufs_advlock` to its result without
interruption except where it sleeps: in `tsleep()`, and in `lf_split()`'s `malloc()` (`split_sleep`).
The six cases of `lf_findoverlap()` are `ovcase`, with the end of the file kept as -1; what
the loops of `lf_setlock()` and `lf_clearlock()` do to the list is `Linked` and
`Trimmed`. `stranded` records requests that came while `lf_clearlock()` slept, after it had
woken those before them. `F_GETLK` changes nothing and is left out.

`RangeLocks` is the promise: for each owner and byte a mode; a request changes exactly
its bytes and is granted only against compatible ones.

### NfsClient, NfsClientProofs

One mount over UDP with `NFSMNT_INT` and `NFSMNT_SPONGY`, whose processes share the socket. `req[p]` is
p's `struct nfsreq`; `nm_sent`, `nm_window` are the code's, `nm_rtt` and `backoff` what matters of
`nm_rtt`, `nm_rexmit` and `nm_currexmit`. Each direction of the network is a set: a datagram
may be lost, and received any number of times, in any order. `nfs_timer()` is one action per request it
looks at, between any two sleeps of the processes; that it sees a request time out is
always possible (`r_timer` is abstract). The window grows by any amount where the code
adds according to its history. `leaked` counts requests that `nfs_request()` freed while
they were counted. TCP mounts, reconnection and compression are left out.

### NfsServer, RpcServer, NfsServerProofs

`nfsrvcache` and `lru` are the entries and their order, functions on the places of the list. An `nfsd` is split where it sleeps: for a
locked entry, for mbufs to copy a reply, in the procedure. A request that was sent may be
received again at any time. `recent` is a timestamp less than `RC_DELAY` old. `Reboot` empties the cache.
An `nfsd` that is killed, and what the procedures do, are left out. `Orphaned(x)` is an entry that says `x` is
in progress when no `nfsd` works on it; see Observations.

`RpcServer` is the promise: a request that is not idempotent is carried out at most once unless
the server has forgotten it (`lost`), and a reply is that of its request.

### ProcLife, ProcLifeProofs

`proc`, `pgrp` and `session` are the structures, with the lists of a group as the code keeps
them (`pg_mem`, `p_pgrpnxt`), `nextpid` and `pidchecked` the state of the search for a pid, which is
computed in full (`Looked`, `Scan`, `Search`), for every order of the process lists. `fork1()` is split at its two
sleeps (`fork_pid`, `fork_create`, `fork_done`), `vfork` and `wait4()` at theirs. The initial state is init and
one shell, each leading its session. `FirstPid` is 100 in the code. Left out: stopped and traced
processes, controlling terminals, limits per user, the kernel's own processes.

Definitions whose names end in a suffix (`AwaitDrain_hasty`, ...) are deliberate mistakes
in the definition of the same name; each is used to show that a property can fail.

## Runs

| Run | Instance | Result |
|---|---|---|
| `lock` | 3 processes, nesting 2 | passes: inductive invariant (fields agree with grants), exclusion, covered sleepers, writers not overtaken by new readers, refinement of `RWLock`; draining writers and upgrades get the lock |
| `callout` | 3 functions, 3 entries, times to 3, 2 late | passes: exact times, order, cancelling, what is armed is served |
| `sleep` | 1 process, all signals and masks | passes: queue, timer and state agree, no panic, the result tells what ended the sleep; timed sleeps end, SIGKILL works |
| `bufcache` | 2 processes, 2 buffers, 3 blocks, 1 vnode, all uses, `malloc()` may fail (226,000 states) | passes: accounting, output counts, wakeups, coherence, nothing lost, not all asleep, sync reaches the disk |
| `bufcache_live` | 2 processes, 1 buffer, 2 blocks of different size | passes: waits for I/O and for a buffer end |
| `ringbuf` | 2 rings of 3 places | passes: refinement of `Fifo` |
| `rlist` | 6 units, 2 processes that may sleep in `rlist_free()` | passes: nothing lost until a freed element is written to, nothing given out twice, no panic, free regions are found |
| `lockf` | 2 processes, 1 open file, 4 ranges, 3 locks (402,000 states; with 4 locks, 690,000, it passes too) | passes: order of the list, wakeups, deadlock detection, refinement of `RangeLocks` |
| `nfs_client` | 2 processes, 2 requests, window to 2 (49,000 states) | passes: counting, the socket's sleepers, every request ends unless the window is clogged |
| `nfs_server` | 3 nfsds, 1 entry, 2 requests, 1 reboot (61,000 states) | passes: entry sleepers, what is in progress is served unless the server has lost track of it, refinement of `RpcServer`, retransmissions are answered unless the request is orphaned |
| `proc` | init, a shell and two more processes, pids 2 to 6, two forks across the wrap (128,000 states) | passes: lists of groups and sessions, job control counts, unused pids, sleepers in `wait4()` and `vfork()`, orphans reaped |
| `proc_pid` | init, a shell and one more process, pids 2 to 5, any number of forks | violation, see Findings |

Why the bounds suffice for the interesting cases. Locks: three processes are a writer,
a reader and an upgrade, or two upgrades and a writer. Callouts: three entries are a
due one, one due in the same tick and a later one. Sleep: all actions but `wakeup()`
concern one process, and `wakeup()` treats each on its own. Buffers: three blocks
compete for two buffers, so eviction, pushing out delayed writes and waiting for a free
buffer all occur, and both processes may be in `breada()` at once; blocks of two
sizes with memory for one large buffer make `allocbuf()` resize and sleep. Rings:
three places wrap in every way. Resource lists: six units allow three separate
extents, so every case of joining occurs, and two sleepers may leave the list out of order.
Advisory locks: the four ranges of two bytes and the end of the file meet in all six cases, two
processes and a shared open file are three owners, and a cycle needs two. NFS client: a
receiver and one it receives for, a window of 2 that closes to 1. NFS server: one entry
makes every new request recycle it, so that a sleeper finds it changed, and the third nfsd
takes it meanwhile. Processes: a shell, its child and grandchild under
init are all the roles of `exit()`; two forks across the end of the pids need a new run of unused ones.
Symmetry is used for safety properties only.

Deadlock is checked for locks and rings. It is not where the modelled code may really
stop: after a panic, when a freed element was written to, with a process that is
dead, in `vflushbuf()`'s endless loop (`NotAllAsleep` states for buffers what deadlock
would), or when the bounded supply of requests, locks or pids of the model is used up.

### Fairness

A process made runnable is run eventually (round robin scheduling), a pending software
interrupt is taken, the clock ticks, the disk answers. A holder of a lock or buffer gives
it back: callers in the kernel do a bounded amount of work with it. Strong
fairness is used where other calls, or a loop that keeps the processor for a while, may
disable the step again and again; for the recursive owner of a lock it is stated for every depth of nesting
(`Unnest`), as each loop inside recursive mode is bounded. No wakeup, signal or request is ever forced.
NFS: requests time out; of what is sent again and again some gets through, and of the answers some
come back (strong fairness; without it no protocol ends); a procedure does not fail for ever. Processes: only init is
fair, whose main loop calls `wait()` again and again (`sbin/init/init.c:309`).

## Findings

`kern/fork.c:130` (`proc_pid`): `fork1()` gives out a pid that is in use. The scan looks at each
process once. A process with pid n+1 in group n, whose leader is gone, advances `nextpid`
from n to its own pid, and is not compared with it again. The comment at `fork.c:107`
says "Assign an unused process ID". The run needs a wrap of the pids and a group that outlived its leader.

### Observations

Statements that do not hold of the models. A name in parentheses is the run with whose
configuration the definition named first fails when it is checked in place of the properties.

- `RecursiveBlocksOthers` (`lock`). `kern/lock.c:84` says that recursive mode blocks "all other threads
  unconditionally"; after the downgrade in `vmspace_notpageable()` other readers are admitted.
- `ZeroMeansAwakened` (`sleep`). `kern/synch.c:198`: "Returns 0 if awakened"; a SIGCONT that is caught and then
  cancelled by a held stop makes `tsleep()` return 0 with no wakeup. `ResultTellsWhatEnded`
  is what remains true.
- `FlushNeverSpins` (`bufcache`). `kern/fs/vnode.c:193`: a synchronous `vflushbuf()` loops without sleeping
  while the dirty buffer that is left is held by a process that sleeps.
- `StopStaysPending` (`sleep`). `kern/sig.c:599`: "Stop signals with default action are processed immediately, then
  cleared"; a stop sent after SIGCONT and before the process ran is cleared without being acted upon (`sig.c:734`).
- `OneBufferPerBlock` (`bufcache_live`, with two buffers). `getblk()` does not look the block up again after `allocbuf()`
  slept (`kern/fs/bio.c:575`): two buffers for one block. `Coherent` and `NothingLost` then fail too, and with two versions
  (`MaxVer` 2) `SyncReachesDisk`: the older buffer is written after the newer one.
- `InvalNeverPanics` (`bufcache`). `vinvalbuf()`'s next buffer (`kern/fs/vnode.c:239`) may have lost its vnode when its
  write failed: `reassignbuf()` panics.
- `SpaceIsNeverLost` (`rlist`). `malloc()` sleeps at `kern/subr/rlist.c:102` with a pointer into the list: the space may be
  linked behind a freed element.
- Buffers, excepted by `Hoarded`: if every buffer is held by a `breada()` that waits for a second one, all wait for ever;
  if `malloc(M_NOWAIT)` fails and all buffers are empty, `getnewbuf()` sleeps and nobody is left to wake it.
- `incore()` is called before `splbio()` (`bio.c:549`): an interrupt between them may invalidate the buffer found. The
  model does not split this window.
- `Exclusive` (`lockf`). `lf_split()`'s `malloc()` sleeps after `ufs/ufs_lockf.c:166` "No blocks!!  Add the lock.": two owners may
  then lock the same bytes exclusively. Requests that come while `lf_clearlock()` sleeps there are not woken.
- `NoCycle` (`lockf`). "For byte-range locks we must check for deadlock" (`ufs_lockf.c:107`): a lock that takes over the blocked
  requests of the lock it replaces leaves their `lf_next` at the freed lock, and the walk misses the cycle. Cycles
  through `flock()` locks are not looked for ("there is no chance for deadlock", `ufs_lockf.c:105`), though they close when
  both kinds are used.
- With `Interrupts = {"asleep"}` in `lockf`: a request ended by a signal while it is blocked is freed
  and stays on the chain.
- `InterruptEnds` (`nfs_client`). `include/fs/nfs.h:63` speaks of signals that "interrupt an I/O in progress"; a request that a signal
  marks while its process sleeps for the socket stays in the window, so the receiver's own request is not sent, and
  neither goes on. `nfs_send()` returning EINTR leaks a place of the window (`Clogged`).
- NFS server, excepted in `lost`: after sleeping for the oldest entry (`nfs/nfs_srvcache.c:227`) the request is entered
  without another look, so that a procedure may be carried out twice; two sleepers may take the same entry.
- NFS server, `Orphaned`: with two entries, three nfsds and four requests, two nfsds that slept for the oldest entry enter
  the same request twice, in two entries. The reply is recorded in one of them, which is then used again; the other says
  `RC_INPROG` though nobody works on it, and until it is used again every retransmission is dropped. The proof of
  `InProgressIsServed` led to this: with the one entry of the run `nfs_server` it cannot happen. The invariant is now stated of the
  requests that are not in `lost`.
- `tsleep()`: the proof of `SleepInv` shows that the path on which `issig()` stopped the process before it slept and it must still
  sleep afterwards is never taken: whatever ends the stop has also taken it off its queue (`kern/synch.c:253`).
- Processes, outside the model because the sleeps named are not split: `cpu_tfork()` may sleep between the copy of
  `p_pgrpnxt` and the linking (`fork.c:171`, `191`); a child that changes groups while its parent sleeps in `exit()`'s
  `vmspace_free()`, after `fixjobc()`, leaves `pg_jobc` wrong; `enterpgrp()`'s `MALLOC()` sleeps between `pgfind()` and linking.
  A sleeper in `wait4()` for a group is not woken when the last child leaves the group.

## Proofs

A proof module extends the module it is about. Each has an inductive invariant, checked by TLC before it was
proved; a lemma that the initial states satisfy it; a lemma per action, or per kind of change, that
steps preserve it; and the theorems, which follow from it. All hold for every value of the constants that satisfies the
module's `ASSUME`. The only assumptions about the system are those, `OneSize` for three theorems about the buffer cache, and for one about advisory locks that signals do not
end the sleep of a blocked request: sets of processes are finite where the code counts
them, bounds are numbers, the value that stands for a null pointer is not a process.

**LockProofs**, for any finite set of processes and any nesting bound that
fit the counters (`ProcAssumption`, `NestAssumption`):

- `LockInvariant`: `Spec => []LockInv`. `Exclusion` is not inductive: whether `lock_done()`
  clears the right bit depends on the fields matching the grants, and whether a draining
  writer may go on depends on where everyone sleeps. `LockInv` adds `FieldsMatchGrants`
  (counts and bits are those of the grants), `PlacesMatchGrants` (where a process sleeps
  decides what it owns), `WriteExcludes` (a granted write leaves no reader, and both bits are set only
  while `lock_write()` waits) and `OwnerHolds` (only the recursive owner nests).
- `MutualExclusion` and `NoSleeperForgotten`, the safety invariants of the run `lock`;
  `UpgradeIsAtomic` (nobody writes while an upgrade waits) and `NeverPanics`.
- `WritersComeFirst`: the action property `WriterNotOvertaken`. `LockInv` gives that
  `want_write` is set while a writer drains; then no path of `lock_read()` admits anyone.
- `Refinement`: `Lock` implements `RWLock`. Each action is a step of the abstract lock or
  leaves the modes alone.

The step proof has a lemma per kind of change (a reader more, a reader fewer, a nested
grant, going to sleep, granting a write, upgrade, downgrade) and one case per action.
The arithmetic of the bit fields is in `CountUp`, `CountDown`, `DepthUp`, `DepthDown`.

**CalloutProofs**, for any functions, table size and bounds (`CalloutAssumption`):

- `RelativeTimesAreExact` (`TimesExact`), `TakenInOrder` (the action property `FiredInOrder`) and
  `CancelledIsNotCalled` (`CancelIsFinal`).
- `TimesExact` speaks of the sum of `c_time` over all entries before one, and inserting or deleting an entry changes
  many sums at once. `CalloutInv` is local: `Exact` relates an entry to the one before it, `Ordered` says that the
  queue is in the order of the times asked for, and `CancelInv` that what a process cancelled is neither queued nor taken.
  That the sum (`Elapsed`, a recursive function) is then the time of the entry is `ElapsedIs`: if it were wrong
  somewhere there would be a first such place, and the step of the recursion there contradicts it. The same argument gives the
  place where `timeout()` inserts.

**SleepProofs**, for any processes, channels, signals and masks (`SleepAssumption`):

- `SleepersAreOnQueues` (`QueueMatchesState`) and `TsleepTellsTheCause` (`ResultTellsWhatEnded`).
- `SleepInv` says for each of the places where a process may have given up the processor which marks
  `tsleep()` has left on it (`SSINTR`, `STIMO`, the timer) and what has taken it off its queue, and that there was no panic. The
  result is right because the timer and `STIMO` exclude each other, and exist only between entering `tsleep()` and
  returning from it.

**StructureProofs**, for any rings, size and characters (`RingAssumption`):

- `RingIsFifo`: `RingBuf` implements `Fifo`. `Line` is the contents as a function of head, tail and array;
  lemmas say what storing and taking at each end do to it (`LineAppend`, ...), so that each operation, wrapped or not,
  is one step of the queue. `TypeOK` is the only invariant needed.

and for resources of any size and any callers (`RlistAssumption`):

- `SpaceIsKept` (`SpaceIsReturned`) and `FreeRegionsAreFound` (`RegionsAreFound`). `RlistInv` says that the list is in order (`Good`), that
  each unit is held, about to be returned by one sleeper or on the list, and only one of these (`EachOnce`), and that elements do not touch
  as long as nobody slept (`Calm`). What `rlist_free()` and `rlist_alloc()` do to the list is inserting, removing or replacing one element
  (`InsertGood`, `RemoveGood`, `ReplaceGood`), and joining as it is scanned keeps the units and leaves gaps (`ScanOfList`).

and for advisory locks with any processes, open files, ranges, bounds and signals (`LockfAssumption`):

- `OwnersLocksStayInOrder` (`OwnLocksInOrder`), `NoLockWakeupIsLost` (`SleeperIsBlocked`), `CirclesAreRefused` (`DeadlockIsFound`) and
  `LockListIsByteTable` (`ImplementsRangeLocks`). `LockfInv` has four parts: `LockfBase` (whoever is not idle is in a call of its own),
  `Chain` (of two locks of one owner the first ends before the second starts, and no request waits behind two), `Queued` (what
  waits behind a lock is asleep and blocked by it, and what is asleep waits behind one) and `SplitWaits` (the lock that is to
  be split when `malloc()` returns is still there and lies around the range).
- `Linked` and `Trimmed` put lists together from pieces. `TrimmedIs` and `LinkedIs` say what is on them: the pieces of the
  locks outside the range (`PieceOf`) and, where a lock is added, the new one, unless one lock had just the range or already had it
  locked that way. A lock that contains the range is the only one of its owner that meets it, which is why the loop may
  stop (`OnlyOne`). Everything else about a step follows from these facts.
- `NoLockWakeupIsLost` supposes `"asleep" \notin Interrupts`: a signal that ends the sleep of a request still
  blocked leaves it on its chain (Observations), and the property is then false; the run `lockf` supposes it too (`Interrupts = {"woken"}`). The other three have no hypothesis.
- `CirclesAreRefused`: in a circle of processes that wait for each other's locks the last to sleep had a walk round the
  circle before it. A walk that stays among k processes without meeting that one comes back to where it was
  within k - 1 steps (`WalkComesTo`, by counting), and had closed a circle before: hence the bound `MAXDEPTH + 1` in the property.
- `LockListIsByteTable` follows from what setting and clearing do to each byte (`Changes`): `LinkChanges` and `ClearChanges` say that the
  bytes of the range change for the owner, and no others, whichever of the six cases of `lf_findoverlap()` the locks fall in. That
  nobody is against what is granted is the search of `lf_getblock()` (`NobodyAgainst`).

**NfsClientProofs**, for any finite set of processes, number of requests, retry limit and window (`ClientAssumption`):

- `SentIsCounted` (`SentCounted`) and `SocketSleepersAreCovered` (`SocketSleepersCovered`).
- `ClientInv` adds `RequestsMatchPlaces`: a process has a request exactly while it is in `nfs_request()`, and a request that has
  its reply is not counted any more, so that neither `nfs_reply()` nor the end of `nfs_request()` counts down twice.

**NfsServerProofs**, for any nfsds, entries, requests and reboots (`ServerAssumption`):

- `EntrySleepersAreCovered` (`EntrySleepersCovered`), `RequestsInProgressAreServed` (`InProgressIsServed`) and
  `ServerImplementsRpcServer` (the refinement of `RpcServer`).
- `ServerInv` adds `OneHolder` (an entry is locked by at most one nfsd, who copies the reply of its request),
  `NfsdsAsked` and `EntriesAsked` (what is worked on or remembered was asked for, and a reply in an entry is that of
  its request, which was carried out) and `Tracked`: of a request that is not in `lost` there is one entry, in progress
  exactly while one nfsd is in the procedure, and once a request that is not idempotent was carried out its reply is in the entry or being copied.
  At most once follows from `Tracked`.

**ProcLifeProofs**, for any processes, sessions and pids (`ProcAssumption`):

- `WaitersAreCovered` (`WaitersCovered`). `WaitInv` adds `Family` (every parent is alive: `exit()` gives its
  children to init), `ZombiesMarked` (whoever has a zombie and is not init has `SZCHILD`, by which `exit()` knows that init must be woken) and
  `CallsFit` (the child that `vfork()` waits for stays its child). What the step does to the lists of groups is
  abstracted: none of it matters for sleepers. `Shape` only says which fields an entry has.
- `GroupListsAreExact` (`GroupsAndSessions`), `JobControlCountsAreExact` (`JobcExact`) and `PidRunIsUnused` (`RunUnused`). The invariant is
  `GroupInv`, with `WaitInv` and `InitHere` (init never asks for memory to fork):
  - `Lists` gives for every group a sequence that follows `pg_mem` and `p_pgrpnxt` to the end (`IsList`), has nobody twice and has
    just the processes of the group (`ListOf`). `ListPushed`, `ListRemoved` and `ListInserted` say what enters and leaves it. That
    `Members` returns that sequence is `MembersAre`: two lists from one place agree, a list goes on from each of its members, and the
    function that follows the links exists because every process is on a list that ends.
  - `Counts` are the groups of each session. `setsid()` finds a session that is free because there are more sessions than
    processes, and a session in use has a group, which has a member (`FreeSession`).
  - `JobcInv` is about the `Share` of a process, what `fixjobc()` adds when it enters a group: whether it counts itself, and its
    children in other groups of the session. What counts without it (`RestIn`) does not change while it moves, so
    that what is taken off the old group and added to the new is exact (`Parts`, `MovedJobc`). The children that
    `exit()` gives to init count nowhere, since init has its session to itself (`InitAlone`).
  - The search for a pid ends (`SearchIs`): a try that finds no run moves on by a number, comes round once at most and
    does not pass a number that is nobody's, and there is one, because the processes, with two numbers each, are too few to have them
    all (`FreeNumber`, by `PID_MAX - FirstPid > 2 * (maxproc - 2)`). No number of a process
    that the scan met is in the run that it returns (`Clear`), and until it is used up only `nextpid` itself comes into use (`RunKept`).

**BufCacheProofs**, for any finite sets of processes, buffers and blocks, any vnodes, sizes of blocks, memory and uses of
the cache (`BufAssumption`):

- `NoBufferIsLost` (`Accounted`), `SleepersAreCovered` (`SleepersCovered`) and `SomeoneRuns` (`NotAllAsleep`). The invariant is
  `BufInv`, `WaitInv`, `SpaceInv` and `ValType`:
  - `BufInv` says of each buffer what its flags mean (`BufFits`: not `B_BUSY` is on a free list, `B_ASYNC` is I/O that will release it,
    any other busy buffer has an owner, one with `B_DELWRI` is on the dirty list, what the driver has is busy and
    valid) and of each process what it has in its hands at each place where it may wait (`ReqFits`, `HeldFits`). Neither
    half is inductive alone: `brelse()` may put a buffer on a list because its holder is the only one
    (`OneOwner`), `bread()` may look at it after `biowait()` because nothing else takes a buffer that is held.
  - `WaitInv` counts the writes (`OutputCounted`) and gives for each sleeper the mark and the event that will look at it (`Covered`);
    `wanted` is set only while neither the age nor the LRU list has a buffer: nobody waits beside a free one.
  - `SpaceInv` is the memory: the sum of `b_bufsize` and `freebufspace` (`Total`). What the fold returns is shown as for `Elapsed`
    of the callouts: the recursive function behind it exists, and of two sums that should differ by one size there is no first place
    where they do not (`TotalStep`).
  - From them `NotAllAsleep` follows: if no I/O is under way and everyone sleeps, nobody waits for I/O or for
    output, and whoever waits for a block holds nothing; so each busy buffer is held by a `breada()` that waits in `getnewbuf()`, and
    the others, `wanted` being set, are on the empty list.
- `CacheIsCoherent` (`Coherent`), `NoVersionIsLost` (`NothingLost`) and `SyncWritesAll` (the action property `SyncReachesDisk`), under the hypothesis
  `OneSize`: all blocks have one size, as in the run `bufcache`. Without it `getblk()` may sleep in `allocbuf()` between
  looking a block up and assigning the buffer, the same block gets two buffers, and the three fail (`OneBufferPerBlock` under
  Observations). With it nobody ever sleeps there (`NeverSleepsInAlloc`). `DataInv` adds
  `OneBuffer` (a block is in one valid buffer), `Backed` (the last version is on the disk, or in a buffer that is delayed or being written) and
  `Good` (a delayed write has no error). Each alone is not inductive: a read fills a buffer with the last version only
  because, no other buffer having the block, `Backed` says that it is on the disk. `DueFits` says that what a flush has to write
  was not overtaken by what was lost; with no write counted and nothing on the dirty list, `Backed` gives the rest.

### Model-checked only

Every safety invariant, action property and refinement that a passing run checks is also a theorem. What is left to TLC:

- Every liveness property (`WaitersServed`, `ArmedIsServed`, `TimedSleepEnds`, `KillIsServed`, `WaitsEnd`, `RequestEnds`,
  `RetransmissionAnswered`, `OrphansReaped`): fairness and `ENABLED` are out of the prover's reach.

## Not modelled

Most of the tree is user programs and libraries, many of them vendored (gcc, g++, sed's regular
expressions, X386): sequential programs with no protocol of their own. They are nine tenths of the
1.35 million lines: the whole kernel has some 147,000, so that the share of the tree that is
modelled stays small however much of the kernel is. Of the kernel, the drivers and machine dependent code work on registers, `ufs` and the other
file systems on disk structures too large for TLC, and the Internet protocols are a project of their own.
`PROJECT.json` lists each part with its reason.

## Plan

1. Models: `Vnode` (`vget`, `vrele`, `vclean`, `vgone`, composed with the buffer lists) and `NameCache`; `KMalloc`; `SockBuf`;
   the page queues and the busy/wanted protocol of `kern/vm`.
2. `BufCache`: the window between `incore()` and `splbio()`, `geteblk()`, `vagebuf()`, read-ahead of blocks of different
   sizes. `Sleep`: tracing, `sigsuspend()`. `ProcLife`: the sleeps named under Observations, stopped processes and orphaned groups.
