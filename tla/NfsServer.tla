------------------------------ MODULE NfsServer ------------------------------
(***************************************************************************)
(* nfs/nfs_srvcache.c and the loop of nfssvc() in nfs/nfs_syscalls.c: the  *)
(* nfsds of one server take requests from one UDP socket and look them up  *)
(* in the cache of recent requests, so that a request that was sent again  *)
(* is not carried out again.                                               *)
(*                                                                         *)
(* A process in the kernel runs until it sleeps: waiting for a request or  *)
(* for a locked entry, allocating mbufs for the copy of a reply (M_WAIT),  *)
(* and in the procedure itself.  Steps end there.  The requests are those  *)
(* of one client, so that the xid stands for xid, procedure and address.   *)
(* Clients send them, and send them again, whenever they like: a datagram  *)
(* that was sent may be received any number of times, or never.            *)
(***************************************************************************)
EXTENDS Integers

CONSTANTS
  MaxXid,        \* bound of the model: requests that are made
  NonIdempotent, \* those whose procedure nonidempotent[] marks
  Nfsds,         \* the server processes
  CacheSize,     \* NFSRVCACHESIZ
  MaxReboots     \* bound of the model

ASSUME ServerAssumption == CacheSize \in Nat \ {0} /\ MaxReboots \in Nat
                           /\ MaxXid \in Nat /\ NonIdempotent \subseteq 1 .. MaxXid

Xid == 1 .. MaxXid
Entry == 1 .. CacheSize

VARIABLES
  calls,        \* the xids of the requests that were sent
  replies,      \* the replies under way: [xid, of], `of' the request that was carried out
  nfsrvcache,   \* the entries
  lru,          \* the entries from nfsrvcachehead.rc_next to rc_prev
  srv,          \* d -> what nfsd d is doing
  reboots,
  executed,     \* history: x -> how often x was carried out, as far as it matters
  lost          \* history: requests whose entry was used again, or lost with a reboot,
                \* or that were entered after a sleep, without another look
vars == <<calls, replies, nfsrvcache, lru, srv, reboots, executed, lost>>

\* rep is the request whose reply (RC_REPMBUF) or status (RC_REPSTATUS) is kept.
Unused == [xid |-> 0, state |-> "UNUSED", rep |-> 0,
           recent |-> FALSE, LOCKED |-> FALSE, WANTED |-> FALSE]
Idle == [at |-> "idle", xid |-> 0, rp |-> 0, repvalid |-> FALSE]

\* look, miss and update are runnable, exec is in the procedure; hitwait, misswait and updwait sleep on rp.
Places == {"idle", "look", "hitwait", "miss", "misswait", "copy", "exec", "update", "updwait", "updcopy"}

nfsrvcache_entry ==
  [xid : Xid \cup {0}, state : {"UNUSED", "INPROG", "DONE"}, rep : Xid \cup {0},
   recent : BOOLEAN, LOCKED : BOOLEAN, WANTED : BOOLEAN]
Activity == [at : Places, xid : Xid \cup {0}, rp : Entry \cup {0}, repvalid : BOOLEAN]

TypeOK ==
  /\ calls \subseteq Xid /\ replies \subseteq [xid : Xid, of : Xid]
  /\ nfsrvcache \in [Entry -> nfsrvcache_entry]
  /\ lru \in [Entry -> Entry] /\ \A e \in Entry : \E i \in Entry : lru[i] = e
  /\ srv \in [Nfsds -> Activity]
  /\ reboots \in 0 .. MaxReboots
  /\ executed \in [Xid -> 0 .. 2] /\ lost \subseteq Xid

\* nfsrv_initcache(): the entries, and their order.
nfsrv_initcache == <<[e \in Entry |-> Unused], [i \in Entry |-> CacheSize + 1 - i]>>

Init ==
  /\ calls = {} /\ replies = {}
  /\ nfsrvcache = nfsrv_initcache[1] /\ lru = nfsrv_initcache[2]
  /\ srv = [d \in Nfsds |-> Idle]
  /\ reboots = 0
  /\ executed = [x \in Xid |-> 0] /\ lost = {}

-----------------------------------------------------------------------------
(* The cache                                                               *)

\* Where in lru the entries with x are, and the first of them.  (Entries with the same
\* xid are in that order on their hash chain too: only the first is ever found.)
Chain(x) == {i \in Entry : nfsrvcache[lru[i]].xid = x}
Hit(x) == lru[CHOOSE i \in Chain(x) : \A j \in Chain(x) : i <= j]

Position(e) == CHOOSE i \in Entry : lru[i] = e
put_at_head(e) == [i \in Entry |-> IF i = 1 THEN e
                                   ELSE IF i <= Position(e) THEN lru[i - 1] ELSE lru[i]]

Asleep(x, e) == x.rp = e /\ x.at \in {"hitwait", "misswait", "updwait"}
Resumed(at) == CASE at = "hitwait" -> "look" [] at = "misswait" -> "miss" [] at = "updwait" -> "update"

\* A mistake, to see EntrySleepersCovered fail: the sleepers are forgotten.  (Dropped_done,
\* Dropped_recent and nfsrv_updatecache_valid are of the same kind.)
Woken_none(d, x, e) == [srv EXCEPT ![d] = x]
\* Whoever the wakeup at the unlocking of e reaches goes on, and d goes to x.
Woken(d, x, e) ==
  [c \in Nfsds |-> IF c = d THEN x
                   ELSE IF nfsrvcache[e].WANTED /\ Asleep(srv[c], e)
                        THEN [srv[c] EXCEPT !.at = Resumed(srv[c].at)]
                   ELSE srv[c]]
Unlocked(c) == [c EXCEPT !.LOCKED = FALSE, !.WANTED = FALSE]

Sleep(d, x, e, where, valid) ==
  /\ nfsrvcache' = [nfsrvcache EXCEPT ![e].WANTED = TRUE]
  /\ srv' = [srv EXCEPT ![d] = [Idle EXCEPT !.at = where, !.xid = x, !.rp = e,
                                            !.repvalid = valid]]

\* Entry e becomes the one of x, whatever it was.
Recycle(d, x, e, unsure) ==
  /\ nfsrvcache' = [nfsrvcache EXCEPT ![e].xid = x, ![e].state = "INPROG", ![e].rep = 0,
                                      ![e].LOCKED = FALSE, ![e].WANTED = FALSE]
  /\ lru' = put_at_head(e)
  /\ srv' = [srv EXCEPT ![d] = [Idle EXCEPT !.at = "exec", !.xid = x]]
  /\ lost' = lost \cup ({nfsrvcache[e].xid} \ {0}) \cup unsure

-----------------------------------------------------------------------------
(* nfsrv_getcache()                                                        *)

\* d has a request: a new one, or the one it went to sleep with.
Got(d, x) ==
  \/ srv[d].at = "idle" /\ x \in calls
  \/ srv[d].at = "look" /\ x = srv[d].xid

\* A request whose reply is kept is dropped for ever.
Dropped_done(c) == c.state = "INPROG" \/ c.recent \/ c.rep # 0
\* What is in progress is not told apart from what was done long ago.
Dropped_recent(c) == c.recent
Dropped(c) == c.state = "INPROG" \/ c.recent

getcache_hit(d, x) ==
  /\ Got(d, x) /\ Chain(x) # {}
  /\ LET e == Hit(x)
         c == nfsrvcache[e]
     IN \/ /\ c.LOCKED
           /\ Sleep(d, x, e, "hitwait", FALSE) /\ UNCHANGED lru
        \/ /\ ~c.LOCKED /\ Dropped(c)                        \* RC_DROPIT
           /\ lru' = put_at_head(e) /\ srv' = [srv EXCEPT ![d] = Idle]
           /\ UNCHANGED nfsrvcache
        \/ /\ ~c.LOCKED /\ ~Dropped(c) /\ c.rep # 0          \* RC_REPLY, once it is copied
           /\ lru' = put_at_head(e)
           /\ nfsrvcache' = [nfsrvcache EXCEPT ![e].LOCKED = TRUE]
           /\ srv' = [srv EXCEPT ![d] = [Idle EXCEPT !.at = "copy", !.xid = x, !.rp = e]]
        \/ /\ ~c.LOCKED /\ ~Dropped(c) /\ c.rep = 0          \* RC_DOIT
           /\ lru' = put_at_head(e)
           /\ nfsrvcache' = [nfsrvcache EXCEPT ![e].state = "INPROG"]
           /\ srv' = [srv EXCEPT ![d] = [Idle EXCEPT !.at = "exec", !.xid = x]]
  /\ UNCHANGED <<calls, replies, reboots, executed, lost>>

getcache_miss(d, x) ==
  /\ Got(d, x) /\ Chain(x) = {}
  /\ LET e == lru[CacheSize]
     IN \/ /\ nfsrvcache[e].LOCKED
           /\ Sleep(d, x, e, "misswait", FALSE) /\ UNCHANGED <<lru, lost>>
        \/ /\ ~nfsrvcache[e].LOCKED
           /\ Recycle(d, x, e, {})
  /\ UNCHANGED <<calls, replies, reboots, executed>>

\* After the sleep it is the same entry, wherever it is now, and nobody looks
\* whether x was entered meanwhile.
getcache_again(d) ==
  /\ srv[d].at = "miss"
  /\ LET e == srv[d].rp
         x == srv[d].xid
     IN \/ /\ nfsrvcache[e].LOCKED
           /\ Sleep(d, x, e, "misswait", FALSE) /\ UNCHANGED <<lru, lost>>
        \/ /\ ~nfsrvcache[e].LOCKED
           /\ Recycle(d, x, e, {x})
  /\ UNCHANGED <<calls, replies, reboots, executed>>

\* The copy is made, the entry unlocked and the reply sent.
getcache_reply(d) ==
  /\ srv[d].at = "copy"
  /\ LET e == srv[d].rp IN
       /\ replies' = replies \cup {[xid |-> srv[d].xid, of |-> nfsrvcache[e].rep]}
       /\ nfsrvcache' = [nfsrvcache EXCEPT ![e] = [Unlocked(@) EXCEPT !.recent = TRUE]]
       /\ srv' = Woken(d, Idle, e)
  /\ UNCHANGED <<calls, lru, reboots, executed, lost>>

-----------------------------------------------------------------------------
(* The procedure and nfsrv_updatecache()                                   *)

Answer(x, valid) == IF valid THEN replies' = replies \cup {[xid |-> x, of |-> x]}
                    ELSE UNCHANGED replies

Kept(x, valid) == valid /\ x \in NonIdempotent

\* Whether an idempotent procedure is carried out again does not matter.
Again(x, n) == IF x \in NonIdempotent /\ n > 0 THEN 2 ELSE 1

\* The procedure was carried out, and its reply is valid, or it returned an error
\* that the client is not told; or d has waited for the entry since.
Executed(d, x, valid) ==
  \/ /\ srv[d].at = "exec"
     /\ executed' = IF valid THEN [executed EXCEPT ![x] = Again(x, @)] ELSE executed
  \/ srv[d].at = "update" /\ valid = srv[d].repvalid /\ UNCHANGED executed

Update(d, x, valid) ==
  \/ /\ Chain(x) = {}
     /\ Answer(x, valid) /\ srv' = [srv EXCEPT ![d] = Idle]
     /\ UNCHANGED nfsrvcache
  \/ /\ Chain(x) # {}
     /\ LET e == Hit(x) IN
        \/ /\ nfsrvcache[e].LOCKED
           /\ Sleep(d, x, e, "updwait", valid) /\ UNCHANGED replies
        \/ /\ ~nfsrvcache[e].LOCKED /\ ~Kept(x, valid)
           /\ nfsrvcache' = [nfsrvcache EXCEPT ![e].state = "DONE", ![e].recent = valid]
           /\ Answer(x, valid) /\ srv' = [srv EXCEPT ![d] = Idle]
        \/ /\ ~nfsrvcache[e].LOCKED /\ Kept(x, valid)
           /\ nfsrvcache' = [nfsrvcache EXCEPT ![e].state = "DONE", ![e].recent = TRUE,
                                               ![e].LOCKED = TRUE]
           /\ srv' = [srv EXCEPT ![d].at = "updcopy", ![d].rp = e]
           /\ UNCHANGED replies

\* A procedure that failed leaves the cache alone.
nfsrv_updatecache_valid(d, valid) ==
  /\ Executed(d, srv[d].xid, valid)
  /\ IF valid THEN Update(d, srv[d].xid, valid)
     ELSE srv' = [srv EXCEPT ![d] = Idle] /\ UNCHANGED <<nfsrvcache, replies>>
  /\ UNCHANGED <<calls, lru, reboots, lost>>
nfsrv_updatecache(d, valid) ==
  /\ Executed(d, srv[d].xid, valid)
  /\ Update(d, srv[d].xid, valid)
  /\ UNCHANGED <<calls, lru, reboots, lost>>

\* The reply is copied into the entry, which is unlocked, and sent.
updatecache_copied(d) ==
  /\ srv[d].at = "updcopy"
  /\ LET e == srv[d].rp IN
       /\ nfsrvcache' = [nfsrvcache EXCEPT ![e] = [Unlocked(@) EXCEPT !.rep = srv[d].xid]]
       /\ srv' = Woken(d, Idle, e)
  /\ Answer(srv[d].xid, TRUE)
  /\ UNCHANGED <<calls, lru, reboots, executed, lost>>

-----------------------------------------------------------------------------
\* RC_DELAY passes after a request was done.
Age ==
  /\ \E e \in Entry : nfsrvcache[e].recent
                      /\ nfsrvcache' = [nfsrvcache EXCEPT ![e].recent = FALSE]
  /\ UNCHANGED <<calls, replies, lru, srv, reboots, executed, lost>>

\* The server goes down and comes up with an empty cache.
Reboot ==
  /\ reboots < MaxReboots /\ reboots' = reboots + 1
  /\ nfsrvcache' = nfsrv_initcache[1] /\ lru' = nfsrv_initcache[2]
  /\ srv' = [d \in Nfsds |-> Idle]
  /\ lost' = lost \cup ({nfsrvcache[e].xid : e \in Entry} \ {0})
  /\ UNCHANGED <<calls, replies, executed>>

(* The clients and the network                                             *)

Send(x) ==
  /\ x \notin calls /\ calls' = calls \cup {x}
  /\ UNCHANGED <<replies, nfsrvcache, lru, srv, reboots, executed, lost>>

LoseReply(r) ==
  /\ replies' = replies \ {r}
  /\ UNCHANGED <<calls, nfsrvcache, lru, srv, reboots, executed, lost>>

Next ==
  \/ \E d \in Nfsds :
       \/ \E x \in Xid : getcache_hit(d, x) \/ getcache_miss(d, x)
       \/ getcache_again(d) \/ getcache_reply(d)
       \/ \E valid \in BOOLEAN : nfsrv_updatecache(d, valid)
       \/ updatecache_copied(d)
  \/ Age \/ Reboot
  \/ \E x \in Xid : Send(x)
  \/ \E r \in replies : LoseReply(r)

\* An nfsd that can run does; of a request that is sent again and again some reach
\* an nfsd when it is not dropped (the client's time limit grows past RC_DELAY), and
\* its procedure does not fail for ever.
Serve(x) == \E d \in Nfsds : (getcache_hit(d, x) \/ getcache_miss(d, x)) /\ srv'[d] # Idle
Execute(x) == \E d \in Nfsds : srv[d].xid = x /\ srv[d].at = "exec" /\ nfsrv_updatecache(d, TRUE)
Fairness ==
  /\ \A d \in Nfsds :
       /\ WF_vars(getcache_again(d)) /\ WF_vars(getcache_reply(d))
       /\ WF_vars(srv[d].at = "look" /\ \E x \in Xid : getcache_hit(d, x) \/ getcache_miss(d, x))
       /\ WF_vars(\E valid \in BOOLEAN : nfsrv_updatecache(d, valid))
       /\ WF_vars(updatecache_copied(d))
  /\ WF_vars(Age)
  /\ \A x \in Xid : SF_vars(Serve(x)) /\ SF_vars(Execute(x))

Spec == Init /\ [][Next]_vars /\ Fairness

-----------------------------------------------------------------------------
\* Whoever sleeps for an entry of the cache will be woken: it is locked, by somebody
\* who is copying a reply, and marked as wanted.
EntrySleepersCovered ==
  /\ TypeOK
  /\ \A d \in Nfsds : srv[d].at \in {"hitwait", "misswait", "updwait"} =>
       nfsrvcache[srv[d].rp].LOCKED /\ nfsrvcache[srv[d].rp].WANTED
  /\ \A e \in Entry : nfsrvcache[e].LOCKED =>
       \E d \in Nfsds : srv[d].rp = e /\ srv[d].at \in {"copy", "updcopy"}

\* x is found in progress, so that its retransmissions are dropped, and nobody works on it.
Orphaned(x) ==
  /\ Chain(x) # {} /\ nfsrvcache[Hit(x)].state = "INPROG"
  /\ \A d \in Nfsds : ~(srv[d].xid = x /\ srv[d].at \in {"exec", "update", "updwait"})

\* What is found in progress is: some nfsd works on it and will say how it ended, as
\* long as the server has not lost track of the request.
InProgressIsServed == \A x \in Xid \ lost : ~Orphaned(x)

\* A request that a client sends again and again is answered, and answered again when
\* the reply was lost, unless it is orphaned.
RetransmissionAnswered ==
  \A x \in Xid : x \in calls ~> (\E r \in replies : r.xid = x) \/ Orphaned(x)

\* The server keeps the promises of RpcServer: at most once for what is not
\* idempotent, unless its entry was recycled, lost with a reboot, or entered after a
\* sleep for the oldest entry without looking again; and no reply but the right one.
Abstract == INSTANCE RpcServer
ImplementsRpcServer == Abstract!Spec
=============================================================================
