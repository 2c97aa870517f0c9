------------------------------ MODULE NfsClient ------------------------------
(***************************************************************************)
(* nfs/nfs_socket.c, the client's side of a remote procedure call on a     *)
(* mount over UDP with NFSMNT_INT and NFSMNT_SPONGY: a request gives up    *)
(* after some retransmissions unless its caller says tryhard, and when     *)
(* nfs_timer() sees a signal for its process.                              *)
(*                                                                         *)
(* The processes share the mount's socket.  One of them at a time holds    *)
(* the lock of nfs_solock() and receives for all; nfs_timer() runs as a    *)
(* callout, above them.  r_timer is abstract: a request may time out       *)
(* whenever it is outstanding.                                             *)
(*                                                                         *)
(* UDP loses, repeats and reorders datagrams: each direction is a set of   *)
(* xids, a datagram that is received may stay in it, and one that is in it *)
(* may disappear.  The server answers what reaches it (NfsServer tells     *)
(* when it does).                                                          *)
(***************************************************************************)
EXTENDS Integers, FiniteSets

CONSTANTS
  MaxXid,         \* bound of the model: requests that are made
  Procs,          \* the processes that make requests
  Retry,          \* nm_retry
  NFS_MAXWINDOW

NULL == 0

ASSUME ClientAssumption ==
  /\ MaxXid \in Nat /\ Retry \in Nat \ {0} /\ NFS_MAXWINDOW \in Nat \ {0, 1}
  /\ IsFiniteSet(Procs) /\ NULL \notin Procs

Xid == 1 .. MaxXid

VARIABLES
  calls, replies,     \* the xids of requests and of replies under way
  nfs_xid,    \* the last xid that was used
  req,        \* p -> p's struct nfsreq, linked when xid # NULL
  cat,        \* p -> where p is: idle, send, solock, asleep (in nfs_solock()), receive
  nm_sent, nm_window,
  nm_rtt,     \* whether the mount is timing a request (nm_rtt # -1)
  backoff,    \* nm_rexmit or nm_currexmit is not 0
  scklock,    \* whoever holds NFSMNT_SCKLOCK, or NULL
  wantsck,    \* NFSMNT_WANTSCK
  leaked      \* history: requests freed while nm_sent counted them
netvars == <<calls, replies>>
vars == <<netvars, nfs_xid, req, cat, nm_sent, nm_window, nm_rtt, backoff,
          scklock, wantsck, leaked>>
mountvars == <<nm_sent, nm_window, nm_rtt, backoff>>

NoReq == [xid |-> NULL, sent |-> FALSE, timing |-> FALSE, softterm |-> FALSE,
          mrep |-> FALSE, rexmit |-> 0, hard |-> FALSE]

Request == [xid : Xid \cup {NULL}, sent : BOOLEAN, timing : BOOLEAN, softterm : BOOLEAN,
            mrep : BOOLEAN, rexmit : 0 .. Retry, hard : BOOLEAN]

TypeOK ==
  /\ calls \subseteq Xid /\ replies \subseteq Xid
  /\ nfs_xid \in 0 .. MaxXid
  /\ req \in [Procs -> Request]
  /\ cat \in [Procs -> {"idle", "send", "solock", "asleep", "receive"}]
  /\ nm_sent \in Int /\ nm_window \in 1 .. NFS_MAXWINDOW
  /\ nm_rtt \in BOOLEAN /\ backoff \in BOOLEAN
  /\ scklock \in Procs \cup {NULL} /\ wantsck \in BOOLEAN
  /\ leaked \in Nat

Init ==
  /\ calls = {} /\ replies = {}
  /\ nfs_xid = 0 /\ req = [p \in Procs |-> NoReq]
  /\ cat = [p \in Procs |-> "idle"]
  /\ nm_sent = 0 /\ nm_window = 2 /\ nm_rtt = FALSE /\ backoff = FALSE
  /\ scklock = NULL /\ wantsck = FALSE
  /\ leaked = 0

-----------------------------------------------------------------------------
\* nfs_request(), up to the first transmission: if another request is backed off
\* or the window is full it is left to the timer.
SendNow == nm_sent <= 0 \/ (~backoff /\ nm_sent < nm_window)

nfs_request(p, hard) ==
  /\ cat[p] = "idle" /\ nfs_xid < MaxXid
  /\ nfs_xid' = nfs_xid + 1
  /\ req' = [req EXCEPT ![p] = [NoReq EXCEPT !.xid = nfs_xid + 1, !.hard = hard,
                                             !.sent = SendNow, !.timing = SendNow /\ ~nm_rtt]]
  /\ nm_sent' = nm_sent + (IF SendNow THEN 1 ELSE 0)
  /\ nm_rtt' = (nm_rtt \/ SendNow)
  /\ cat' = [cat EXCEPT ![p] = IF SendNow THEN "send" ELSE "solock"]
  /\ UNCHANGED <<netvars, nm_window, backoff, scklock, wantsck, leaked>>

\* p's request is unlinked and freed.
Unlink(p) ==
  req' = [req EXCEPT ![p] = NoReq]

\* nfs_send(): the datagram may not go out, for lack of space or an error, and
\* nobody is told.  A request that is to be given up returns EINTR to
\* nfs_request(), which frees it as it is.
nfs_send(p) ==
  /\ cat[p] = "send"
  /\ \/ /\ ~req[p].softterm
        /\ calls' \in {calls, calls \cup {req[p].xid}}
        /\ cat' = [cat EXCEPT ![p] = "solock"]
        /\ UNCHANGED <<req, leaked>>
     \/ /\ req[p].softterm
        /\ Unlink(p)
        /\ leaked' = leaked + (IF req[p].sent THEN 1 ELSE 0)
        /\ cat' = [cat EXCEPT ![p] = "idle"]
        /\ UNCHANGED calls
  /\ UNCHANGED <<replies, nfs_xid, mountvars, scklock, wantsck>>

-----------------------------------------------------------------------------
(* nfs_solock() and nfs_sounlock() in nfs_reply()                          *)

\* A mistake, to see SocketSleepersCovered fail: the processes that sleep for the lock
\* are forgotten.  (Settled_once and Outstanding_sent are of the same kind.)
Woken_none(p, x) == [cat EXCEPT ![p] = x]
\* p goes to x, and who sleeps for the lock is woken.
Woken(p, x) == [q \in Procs |-> IF q = p THEN x
                                ELSE IF wantsck /\ cat[q] = "asleep" THEN "solock" ELSE cat[q]]

nfs_solock(p) ==
  /\ cat[p] = "solock"
  /\ \/ /\ scklock # NULL
        /\ wantsck' = TRUE /\ cat' = [cat EXCEPT ![p] = "asleep"]
        /\ UNCHANGED <<req, scklock>>
     \/ /\ scklock = NULL /\ ~req[p].mrep
        /\ scklock' = p /\ cat' = [cat EXCEPT ![p] = "receive"]
        /\ UNCHANGED <<req, wantsck>>
     \/ /\ scklock = NULL /\ req[p].mrep          \* Already received, bye bye
        /\ cat' = Woken(p, "idle") /\ wantsck' = FALSE
        /\ Unlink(p)
        /\ UNCHANGED scklock
  /\ UNCHANGED <<netvars, nfs_xid, mountvars, leaked>>

\* nfs_updatetimer() for the request that was timed.
updatetimer(timing) ==
  IF ~timing THEN UNCHANGED <<nm_window, backoff>>
  ELSE IF backoff THEN backoff' = FALSE /\ UNCHANGED nm_window
  ELSE nm_window' \in nm_window .. NFS_MAXWINDOW /\ UNCHANGED backoff

Owner(x) == {q \in Procs : req[q].xid = x /\ ~req[q].mrep}

\* R_SENT is not looked at.
Settled_once(q) ==
  /\ nm_sent' = nm_sent - 1
  /\ nm_rtt' = (nm_rtt /\ ~req[q].timing)
\* The counters of the mount without request q.
Settled(q) ==
  /\ nm_sent' = nm_sent - (IF req[q].sent THEN 1 ELSE 0)
  /\ nm_rtt' = (nm_rtt /\ ~req[q].timing)

\* The receiver gets a reply for somebody, releases the lock and, unless it was
\* its own, has it again before anybody else runs.
receive_reply(p) ==
  /\ cat[p] = "receive"
  /\ \E x \in replies :
       /\ replies' \in {replies, replies \ {x}}
       /\ \/ /\ Owner(x) = {}                  \* not expected: dropped
             /\ cat' = Woken(p, "receive")
             /\ UNCHANGED <<req, mountvars, scklock>>
          \/ \E q \in Owner(x) :
             /\ Settled(q) /\ updatetimer(req[q].timing)
             /\ IF q = p
                THEN /\ cat' = Woken(p, "idle") /\ scklock' = NULL
                     /\ Unlink(p)
                ELSE /\ req' = [req EXCEPT ![q].mrep = TRUE, ![q].sent = FALSE, ![q].timing = FALSE]
                     /\ cat' = Woken(p, "receive") /\ UNCHANGED scklock
  /\ wantsck' = FALSE
  /\ UNCHANGED <<calls, nfs_xid, leaked>>

\* soreceive() times out and the request is to be given up.
receive_giveup(p) ==
  /\ cat[p] = "receive" /\ req[p].softterm
  /\ Settled(p) /\ Unlink(p)
  /\ cat' = Woken(p, "idle") /\ scklock' = NULL /\ wantsck' = FALSE
  /\ UNCHANGED <<netvars, nfs_xid, nm_window, backoff, leaked>>

\* A socket error that NFSIGNORE_SOERROR names: round the loop again.
receive_ignore(p) ==
  /\ cat[p] = "receive" /\ wantsck
  /\ cat' = Woken(p, "receive") /\ wantsck' = FALSE
  /\ UNCHANGED <<netvars, nfs_xid, req, mountvars, scklock, leaked>>

-----------------------------------------------------------------------------
(* nfs_timer(), for one request of the list                                *)

\* A request that was left to the timer is not looked at.
Outstanding_sent(p) == req[p].xid # NULL /\ ~req[p].mrep /\ ~req[p].softterm /\ req[p].sent
Outstanding(p) == req[p].xid # NULL /\ ~req[p].mrep /\ ~req[p].softterm

timer_signal(p) ==
  /\ Outstanding(p)
  /\ req' = [req EXCEPT ![p].softterm = TRUE]
  /\ UNCHANGED <<netvars, nfs_xid, cat, mountvars, scklock, wantsck, leaked>>

\* The request has timed out: backoff, and it no longer counts as sent.  If it may
\* try again, and the window and the memory allow, it is sent.
timer_expire(p, resend) ==
  /\ Outstanding(p)
  /\ LET r == req[p]
         sent == nm_sent - (IF r.sent THEN 1 ELSE 0)
         window == IF r.timing THEN 1 ELSE nm_window
         rexmit == IF r.rexmit < Retry THEN r.rexmit + 1 ELSE Retry
         over == ~r.hard /\ rexmit >= Retry
     IN /\ resend => ~over /\ sent < window
        /\ req' = [req EXCEPT ![p] = [r EXCEPT !.sent = resend, !.timing = resend,
                                               !.rexmit = rexmit, !.softterm = over]]
        /\ nm_sent' = sent + (IF resend THEN 1 ELSE 0)
        /\ nm_rtt' = (resend \/ (nm_rtt /\ ~r.timing))
        /\ nm_window' = window /\ backoff' = (backoff \/ r.timing)
        /\ calls' = IF resend THEN calls \cup {r.xid} ELSE calls
  /\ UNCHANGED <<replies, nfs_xid, cat, scklock, wantsck, leaked>>

-----------------------------------------------------------------------------
(* The network and the server                                              *)

Lose ==
  /\ \/ \E x \in calls : calls' = calls \ {x} /\ UNCHANGED replies
     \/ \E x \in replies : replies' = replies \ {x} /\ UNCHANGED calls
  /\ UNCHANGED <<nfs_xid, req, cat, mountvars, scklock, wantsck, leaked>>

Answer(x) ==
  /\ x \in calls
  /\ calls' \in {calls, calls \ {x}} /\ replies' = replies \cup {x}
  /\ UNCHANGED <<nfs_xid, req, cat, mountvars, scklock, wantsck, leaked>>

Next ==
  \/ \E p \in Procs :
       \/ \E hard \in BOOLEAN : nfs_request(p, hard)
       \/ nfs_send(p) \/ nfs_solock(p)
       \/ receive_reply(p) \/ receive_giveup(p) \/ receive_ignore(p)
       \/ timer_signal(p) \/ \E resend \in BOOLEAN : timer_expire(p, resend)
  \/ Lose \/ \E x \in Xid : Answer(x)

\* A process that can run does; requests time out; of what is sent again and again
\* some reaches the server, which answers, and some of the answers come back.
Fairness ==
  /\ \A p \in Procs :
       /\ WF_vars(nfs_send(p)) /\ WF_vars(nfs_solock(p)) /\ WF_vars(receive_giveup(p))
       /\ SF_vars(timer_expire(p, TRUE)) /\ WF_vars(timer_expire(p, FALSE))
       /\ SF_vars(receive_reply(p) /\ req'[p] = NoReq)
  /\ \A x \in Xid : SF_vars(Answer(x))

Spec == Init /\ [][Next]_vars /\ Fairness

-----------------------------------------------------------------------------
\* nm_sent, which the window limits, counts the requests that are marked R_SENT,
\* and those that nfs_request() freed when they were: replies, time limits and
\* retransmissions in any order neither count one twice nor forget one.
SentCounted ==
  TypeOK /\ nm_sent = leaked + Cardinality({p \in Procs : req[p].sent})

\* A process that sleeps for the socket will be woken: some other process receives,
\* and knows that the socket is wanted.
SocketSleepersCovered ==
  /\ \A p \in Procs : cat[p] = "asleep" => wantsck /\ scklock # NULL
  /\ \A p \in Procs : scklock = p <=> cat[p] = "receive"

\* A request that was freed, or is to be given up, still fills the window.
Clogged == leaked > 0 \/ \E q \in Procs : req[q].softterm /\ req[q].sent

\* Every request ends, with a reply or because it is given up, whatever is lost and
\* whoever receives the replies, unless the window is clogged.
RequestEnds ==
  \A p \in Procs : cat[p] # "idle" ~> (cat[p] = "idle" \/ Clogged)

\* An interrupted request ends (nfs.h:63, "The set of signals the interrupt an I/O in
\* progress for NFSMNT_INT mounts").  Not so: a request that a signal marked while its
\* process sleeps for the socket stays counted in the window, the receiver's own
\* request is not sent again, and neither process goes on.
InterruptEnds ==
  \A p \in Procs : req[p].softterm ~> cat[p] = "idle"
=============================================================================
