--------------------------- MODULE NfsClientProofs ---------------------------
(***************************************************************************)
(* Proofs about NfsClient for any finite set of processes, any number of   *)
(* requests and any retry limit and window.                                *)
(***************************************************************************)
EXTENDS NfsClient, FiniteSetTheorems, TLAPS

\* What the count of nm_sent rests on: a process outside nfs_request() has no request,
\* one inside has one, and a request that has its reply no longer counts as sent.
RequestsMatchPlaces == \A p \in Procs :
  /\ cat[p] = "idle" <=> req[p].xid = NULL
  /\ cat[p] = "idle" => req[p] = NoReq
  /\ req[p].mrep => ~req[p].sent

\* The inductive invariant.
ClientInv == SentCounted /\ RequestsMatchPlaces /\ SocketSleepersCovered

\* Where a process of the mount may be.
Places == {"idle", "send", "solock", "asleep", "receive"}

\* The processes whose request is marked R_SENT.
SentSet == {p \in Procs : req[p].sent}

-----------------------------------------------------------------------------
(* Counting the requests marked R_SENT.                                    *)

\* One process more or less in a set changes its size by one.
LEMMA CountOne ==
  ASSUME NEW S \in SUBSET Procs, NEW p \in Procs
  PROVE  /\ Cardinality(S) \in Nat
         /\ Cardinality(S \cup {p}) = Cardinality(S) + (IF p \in S THEN 0 ELSE 1)
         /\ Cardinality(S \ {p}) = Cardinality(S) - (IF p \in S THEN 1 ELSE 0)
<1>1. IsFiniteSet(S)
  BY ClientAssumption, FS_Subset
<1>2. Cardinality(S) \in Nat
  BY <1>1, FS_CardinalityType
<1>3. p \in S => S \cup {p} = S
  OBVIOUS
<1>4. p \notin S => S \ {p} = S
  OBVIOUS
<1>5. p \notin S => Cardinality(S \cup {p}) = Cardinality(S) + 1
  BY <1>1, FS_AddElement
<1>6. p \in S => Cardinality(S \ {p}) = Cardinality(S) - 1
  BY <1>1, FS_RemoveElement
<1> QED
  BY <1>2, <1>3, <1>4, <1>5, <1>6

\* When only p's R_SENT may change, the number of sent requests follows it.
LEMMA SentFollows ==
  ASSUME NEW p \in Procs, req[p].sent \in BOOLEAN, req'[p].sent \in BOOLEAN,
         \A q \in Procs \ {p} : req'[q].sent = req[q].sent
  PROVE  /\ Cardinality(SentSet) \in Nat
         /\ Cardinality(SentSet') = Cardinality(SentSet) - (IF req[p].sent THEN 1 ELSE 0)
                                                         + (IF req'[p].sent THEN 1 ELSE 0)
<1>1. SentSet \in SUBSET Procs /\ (p \in SentSet <=> req[p].sent)
  BY DEF SentSet
<1>2. Cardinality(SentSet) \in Nat
  BY <1>1, CountOne
<1>3. CASE req'[p].sent
  <2>1. SentSet' = SentSet \cup {p}
    BY <1>3 DEF SentSet
  <2>2. Cardinality(SentSet \cup {p}) = Cardinality(SentSet) + (IF p \in SentSet THEN 0 ELSE 1)
    BY <1>1, CountOne
  <2> QED
    BY <1>1, <1>2, <1>3, <2>1, <2>2
<1>4. CASE ~req'[p].sent
  <2>1. SentSet' = SentSet \ {p}
    BY <1>4 DEF SentSet
  <2>2. Cardinality(SentSet \ {p}) = Cardinality(SentSet) - (IF p \in SentSet THEN 1 ELSE 0)
    BY <1>1, CountOne
  <2> QED
    BY <1>1, <1>2, <1>4, <2>1, <2>2
<1> QED
  BY <1>2, <1>3, <1>4

\* A request that is new, changed, or freed while nm_sent and the leak are adjusted for
\* its R_SENT keeps the count exact.
LEMMA CountKept ==
  ASSUME SentCounted, NEW p \in Procs, TypeOK',
         \A q \in Procs \ {p} : req'[q].sent = req[q].sent,
         nm_sent' - leaked' = nm_sent - leaked - (IF req[p].sent THEN 1 ELSE 0)
                                               + (IF req'[p].sent THEN 1 ELSE 0)
  PROVE  SentCounted'
<1>1. req[p].sent \in BOOLEAN /\ req'[p].sent \in BOOLEAN
  BY DEF SentCounted, TypeOK, Request
<1>2. /\ Cardinality(SentSet) \in Nat
      /\ Cardinality(SentSet') = Cardinality(SentSet) - (IF req[p].sent THEN 1 ELSE 0)
                                                      + (IF req'[p].sent THEN 1 ELSE 0)
  BY <1>1, SentFollows
<1>3. nm_sent = leaked + Cardinality(SentSet)
  BY DEF SentCounted, SentSet
<1>4. nm_sent \in Int /\ leaked \in Nat /\ nm_sent' \in Int /\ leaked' \in Nat
  BY DEF SentCounted, TypeOK
<1>5. nm_sent' = leaked' + Cardinality(SentSet')
  BY <1>1, <1>2, <1>3, <1>4
<1> QED
  BY <1>5 DEF SentCounted, SentSet

-----------------------------------------------------------------------------
\* With no request made the invariant holds.
LEMMA InitInv == Init => ClientInv
<1> SUFFICES ASSUME Init PROVE ClientInv
  OBVIOUS
<1>1. TypeOK
  <2>1. NoReq \in Request
    BY ClientAssumption DEF NoReq, Request
  <2>2. 0 \in 0 .. MaxXid /\ 0 \in Int /\ 0 \in Nat /\ 2 \in 1 .. NFS_MAXWINDOW
    BY ClientAssumption
  <2> QED
    BY <2>1, <2>2, Zenon DEF Init, TypeOK
<1>2. SentSet = {}
  BY DEF Init, NoReq, SentSet
<1>3. Cardinality(SentSet) = 0
  BY <1>2, FS_EmptySet
<1>4. SentCounted
  BY <1>1, <1>3 DEF Init, SentCounted, SentSet
<1>5. RequestsMatchPlaces /\ SocketSleepersCovered
  BY ClientAssumption DEF Init, RequestsMatchPlaces, SocketSleepersCovered, NoReq, NULL
<1> QED
  BY <1>4, <1>5 DEF ClientInv

-----------------------------------------------------------------------------
(* The step, one lemma for each operation.                                 *)

\* A request is made, and sent if the window allows.
LEMMA RequestInv ==
  ASSUME ClientInv, NEW p \in Procs, NEW hard \in BOOLEAN, nfs_request(p, hard)
  PROVE  ClientInv'
<1> USE DEF ClientInv
<1>1. /\ req[p] = NoReq /\ cat[p] = "idle" /\ nfs_xid + 1 \in Xid /\ SendNow \in BOOLEAN
      /\ req'[p] = [NoReq EXCEPT !.xid = nfs_xid + 1, !.hard = hard, !.sent = SendNow,
                                 !.timing = SendNow /\ ~nm_rtt]
      /\ \A q \in Procs \ {p} : req'[q] = req[q]
  BY ClientAssumption DEF nfs_request, SentCounted, TypeOK, RequestsMatchPlaces, Xid, SendNow
<1>2. TypeOK'
  <2>1. req' \in [Procs -> Request]
    BY ZenonT(30), <1>1, ClientAssumption DEF nfs_request, SentCounted, TypeOK, Request, NoReq, NULL
  <2>2. nm_sent' \in Int /\ nfs_xid' \in 0 .. MaxXid
    BY <1>1, ClientAssumption DEF nfs_request, SentCounted, TypeOK, Xid
  <2>3. cat' \in [Procs -> {"idle", "send", "solock", "asleep", "receive"}]
    BY <1>1 DEF nfs_request, SentCounted, TypeOK
  <2>4. nm_rtt' \in BOOLEAN
    BY <1>1 DEF nfs_request, SentCounted, TypeOK
  <2> QED
    BY <2>1, <2>2, <2>3, <2>4, Zenon DEF nfs_request, SentCounted, TypeOK, netvars, Xid
<1>3. SentCounted'
  <2>1. /\ ~req[p].sent /\ req'[p].sent = SendNow
        /\ \A q \in Procs \ {p} : req'[q].sent = req[q].sent
    BY <1>1 DEF NoReq
  <2>2. nm_sent' - leaked' = nm_sent - leaked - (IF req[p].sent THEN 1 ELSE 0)
                                              + (IF req'[p].sent THEN 1 ELSE 0)
    BY <1>1, <2>1 DEF nfs_request, SentCounted, TypeOK
  <2> QED
    BY <1>2, <2>1, <2>2, CountKept
<1>4. RequestsMatchPlaces'
  BY <1>1 DEF nfs_request, RequestsMatchPlaces, SentCounted, TypeOK, NoReq, NULL, Xid
<1>5. SocketSleepersCovered'
  BY <1>1 DEF nfs_request, SocketSleepersCovered, SentCounted, TypeOK
<1> QED
  BY <1>3, <1>4, <1>5

\* Freeing a request, with its R_SENT taken off nm_sent or added to the leak, as its
\* process leaves nfs_request(); others may be woken from the socket's lock.
LEMMA FreeInv ==
  ASSUME ClientInv, TypeOK', NEW p \in Procs, Unlink(p),
         nm_sent' - leaked' = nm_sent - leaked - (IF req[p].sent THEN 1 ELSE 0),
         cat'[p] = "idle",
         \A q \in Procs \ {p} : cat'[q] = "idle" <=> cat[q] = "idle",
         SocketSleepersCovered'
  PROVE  ClientInv'
<1> USE DEF ClientInv
<1>1. req'[p] = NoReq /\ \A q \in Procs \ {p} : req'[q] = req[q]
  BY DEF Unlink, SentCounted, TypeOK
<1>2. SentCounted'
  <2>1. ~req'[p].sent /\ \A q \in Procs \ {p} : req'[q].sent = req[q].sent
    BY <1>1 DEF NoReq
  <2>2. nm_sent' - leaked' = nm_sent - leaked - (IF req[p].sent THEN 1 ELSE 0)
                                              + (IF req'[p].sent THEN 1 ELSE 0)
    BY <2>1 DEF SentCounted, TypeOK
  <2> QED
    BY <2>1, <2>2, CountKept
<1>3. RequestsMatchPlaces'
  <2>1. NoReq.xid = NULL /\ NoReq.mrep = FALSE
    BY DEF NoReq
  <2>2. ASSUME NEW q \in Procs
        PROVE  /\ cat'[q] = "idle" <=> req'[q].xid = NULL
               /\ cat'[q] = "idle" => req'[q] = NoReq
               /\ req'[q].mrep => ~req'[q].sent
    <3>1. CASE q = p
      BY <1>1, <2>1, <3>1
    <3>2. CASE q # p
      <4>1. req'[q] = req[q] /\ (cat'[q] = "idle" <=> cat[q] = "idle")
        BY <1>1, <3>2
      <4> QED
        BY <4>1 DEF RequestsMatchPlaces
    <3> QED
      BY <3>1, <3>2
  <2> QED
    BY <2>2 DEF RequestsMatchPlaces
<1> QED
  BY <1>2, <1>3

\* The types that a freed request and a woken process keep.
LEMMA FreeTypes ==
  ASSUME TypeOK, NEW p \in Procs, NEW x \in Places
  PROVE  /\ NoReq \in Request
         /\ Unlink(p) => req' \in [Procs -> Request]
         /\ cat' = [cat EXCEPT ![p] = x] => cat' \in [Procs -> Places]
         /\ cat' = Woken(p, x) => cat' \in [Procs -> Places]
<1>1. NoReq \in Request
  BY ClientAssumption DEF NoReq, Request
<1>2. Unlink(p) => req' \in [Procs -> Request]
  BY <1>1 DEF Unlink, TypeOK
<1> QED
  BY <1>1, <1>2 DEF TypeOK, Woken, Places

\* nfs_send() sends a datagram, or frees the request as it is.
LEMMA SendInv ==
  ASSUME ClientInv, NEW p \in Procs, nfs_send(p)
  PROVE  ClientInv'
<1> USE DEF ClientInv
<1>1. CASE ~req[p].softterm
  <2>1. /\ cat[p] = "send" /\ cat' = [cat EXCEPT ![p] = "solock"]
        /\ calls' \in {calls, calls \cup {req[p].xid}}
        /\ UNCHANGED <<req, leaked, replies, nfs_xid, mountvars, scklock, wantsck>>
    BY <1>1 DEF nfs_send
  <2>2. req[p].xid \in Xid
    BY <2>1 DEF SentCounted, TypeOK, Request, RequestsMatchPlaces
  <2>3. TypeOK'
    <3>1. cat' \in [Procs -> Places]
      BY <2>1 DEF SentCounted, TypeOK, Places
    <3>2. calls' \subseteq Xid
      BY <2>1, <2>2 DEF SentCounted, TypeOK
    <3> QED
      BY <2>1, <3>1, <3>2 DEF SentCounted, TypeOK, mountvars, Places
  <2>4. SentCounted'
    BY <2>1, <2>3 DEF SentCounted, mountvars
  <2>5. RequestsMatchPlaces'
    BY <2>1 DEF RequestsMatchPlaces, SentCounted, TypeOK
  <2>6. SocketSleepersCovered'
    BY <2>1 DEF SocketSleepersCovered, SentCounted, TypeOK
  <2> QED
    BY <2>4, <2>5, <2>6
<1>2. CASE req[p].softterm
  <2>1. /\ cat[p] = "send" /\ cat' = [cat EXCEPT ![p] = "idle"] /\ Unlink(p)
        /\ leaked' = leaked + (IF req[p].sent THEN 1 ELSE 0)
        /\ UNCHANGED <<calls, replies, nfs_xid, mountvars, scklock, wantsck>>
    BY <1>2 DEF nfs_send
  <2>2. TypeOK'
    <3>1. cat' \in [Procs -> Places] /\ req' \in [Procs -> Request]
      BY <2>1, FreeTypes DEF SentCounted, Places
    <3>2. leaked' \in Nat
      BY <2>1 DEF SentCounted, TypeOK
    <3> QED
      BY <2>1, <3>1, <3>2 DEF SentCounted, TypeOK, mountvars, Places
  <2>3. SocketSleepersCovered'
    BY <2>1 DEF SocketSleepersCovered, SentCounted, TypeOK
  <2>4. nm_sent' - leaked' = nm_sent - leaked - (IF req[p].sent THEN 1 ELSE 0)
    BY <2>1 DEF SentCounted, TypeOK, mountvars
  <2>5. cat'[p] = "idle" /\ \A q \in Procs \ {p} : cat'[q] = "idle" <=> cat[q] = "idle"
    BY <2>1 DEF SentCounted, TypeOK
  <2> QED
    BY <2>1, <2>2, <2>3, <2>4, <2>5, FreeInv
<1> QED
  BY <1>1, <1>2

\* nfs_solock() sleeps, takes the lock, or leaves with a reply that came meanwhile.
LEMMA SolockInv ==
  ASSUME ClientInv, NEW p \in Procs, nfs_solock(p)
  PROVE  ClientInv'
<1> USE DEF ClientInv
<1>1. cat[p] = "solock" /\ UNCHANGED <<netvars, nfs_xid, mountvars, leaked>>
  BY DEF nfs_solock
<1>2. ASSUME scklock # NULL, wantsck' = TRUE, cat' = [cat EXCEPT ![p] = "asleep"],
             UNCHANGED <<req, scklock>>
      PROVE  ClientInv'
  <2>1. cat' \in [Procs -> Places]
    BY <1>2 DEF SentCounted, TypeOK, Places
  <2>2. TypeOK'
    BY <1>1, <1>2, <2>1 DEF SentCounted, TypeOK, mountvars, netvars, Places
  <2>3. SentCounted'
    BY <1>1, <1>2, <2>2 DEF SentCounted, mountvars
  <2>4. RequestsMatchPlaces' /\ SocketSleepersCovered'
    BY <1>1, <1>2 DEF RequestsMatchPlaces, SocketSleepersCovered, SentCounted, TypeOK
  <2> QED
    BY <2>3, <2>4
<1>3. ASSUME scklock = NULL, scklock' = p, cat' = [cat EXCEPT ![p] = "receive"],
             UNCHANGED <<req, wantsck>>
      PROVE  ClientInv'
  <2>1. cat' \in [Procs -> Places]
    BY <1>3 DEF SentCounted, TypeOK, Places
  <2>2. TypeOK'
    BY <1>1, <1>3, <2>1 DEF SentCounted, TypeOK, mountvars, netvars, Places
  <2>3. SentCounted'
    BY <1>1, <1>3, <2>2 DEF SentCounted, mountvars
  <2>4. RequestsMatchPlaces' /\ SocketSleepersCovered'
    BY <1>1, <1>3, ClientAssumption
    DEF RequestsMatchPlaces, SocketSleepersCovered, SentCounted, TypeOK
  <2> QED
    BY <2>3, <2>4
<1>4. ASSUME scklock = NULL, req[p].mrep, cat' = Woken(p, "idle"), wantsck' = FALSE,
             Unlink(p), UNCHANGED scklock
      PROVE  ClientInv'
  <2>1. cat' \in [Procs -> Places] /\ req' \in [Procs -> Request]
    BY <1>4, FreeTypes DEF SentCounted, Places
  <2>2. TypeOK'
    BY <1>1, <1>4, <2>1 DEF SentCounted, TypeOK, mountvars, netvars, Places
  <2>3. SocketSleepersCovered'
    BY <1>1, <1>4, ClientAssumption DEF SocketSleepersCovered, Woken
  <2>4. nm_sent' - leaked' = nm_sent - leaked - (IF req[p].sent THEN 1 ELSE 0)
    BY <1>1, <1>4 DEF SentCounted, TypeOK, mountvars, RequestsMatchPlaces
  <2>5. cat'[p] = "idle" /\ \A q \in Procs \ {p} : cat'[q] = "idle" <=> cat[q] = "idle"
    BY <1>4 DEF Woken
  <2> QED
    BY <1>4, <2>2, <2>3, <2>4, <2>5, FreeInv
<1> QED
  BY <1>2, <1>3, <1>4 DEF nfs_solock

\* What the counters become once a request is settled.
LEMMA SettledTypes ==
  ASSUME TypeOK, NEW q \in Procs, Settled(q)
  PROVE  /\ nm_sent' \in Int /\ nm_rtt' \in BOOLEAN
         /\ nm_sent' = nm_sent - (IF req[q].sent THEN 1 ELSE 0)
         /\ updatetimer(req[q].timing) => nm_window' \in 1 .. NFS_MAXWINDOW /\ backoff' \in BOOLEAN
<1>1. nm_sent' \in Int /\ nm_sent' = nm_sent - (IF req[q].sent THEN 1 ELSE 0)
  BY DEF TypeOK, Settled
<1>2. nm_rtt' \in BOOLEAN
  BY DEF TypeOK, Settled
<1>3. ASSUME updatetimer(req[q].timing)
      PROVE  nm_window' \in 1 .. NFS_MAXWINDOW /\ backoff' \in BOOLEAN
  <2>1. CASE ~req[q].timing
    BY <1>3, <2>1 DEF updatetimer, TypeOK
  <2>2. CASE req[q].timing /\ backoff
    BY <1>3, <2>2 DEF updatetimer, TypeOK
  <2>3. CASE req[q].timing /\ ~backoff
    BY <1>3, <2>3, ClientAssumption DEF updatetimer, TypeOK
  <2> QED
    BY <2>1, <2>2, <2>3
<1> QED
  BY <1>1, <1>2, <1>3

\* Waking who sleeps for the lock, with wantsck cleared, leaves nobody asleep; the
\* receiver keeps the lock or gives it up with its place.
LEMMA WokenCovers ==
  ASSUME ClientInv, NEW p \in Procs, cat[p] = "receive", wantsck' = FALSE,
         \/ cat' = Woken(p, "receive") /\ UNCHANGED scklock
         \/ cat' = Woken(p, "idle") /\ scklock' = NULL
  PROVE  /\ SocketSleepersCovered'
         /\ cat' \in [Procs -> Places]
         /\ \A q \in Procs \ {p} : cat'[q] = "idle" <=> cat[q] = "idle"
<1> USE DEF ClientInv
<1>1. cat' \in [Procs -> Places]
  BY FreeTypes DEF SentCounted, Places
<1>2. \A q \in Procs \ {p} : cat'[q] = "idle" <=> cat[q] = "idle"
  BY DEF Woken
<1>3. scklock = p /\ \A q \in Procs \ {p} : cat[q] # "receive"
  BY DEF SocketSleepersCovered
<1>4. \A q \in Procs : cat'[q] # "asleep"
  BY DEF Woken, SocketSleepersCovered
<1>5. \A q \in Procs : scklock' = q <=> cat'[q] = "receive"
  BY <1>3, ClientAssumption DEF Woken
<1> QED
  BY <1>1, <1>2, <1>4, <1>5 DEF SocketSleepersCovered

\* A reply arrives: nobody's, somebody else's, or the receiver's own.
LEMMA ReplyInv ==
  ASSUME ClientInv, NEW p \in Procs, receive_reply(p)
  PROVE  ClientInv'
<1> USE DEF ClientInv
<1>1. cat[p] = "receive" /\ wantsck' = FALSE /\ UNCHANGED <<calls, nfs_xid, leaked>>
  BY DEF receive_reply
<1>2. PICK x \in replies :
        /\ replies' \in {replies, replies \ {x}}
        /\ \/ /\ Owner(x) = {}
              /\ cat' = Woken(p, "receive")
              /\ UNCHANGED <<req, mountvars, scklock>>
           \/ \E q \in Owner(x) :
              /\ Settled(q) /\ updatetimer(req[q].timing)
              /\ IF q = p
                 THEN /\ cat' = Woken(p, "idle") /\ scklock' = NULL
                      /\ Unlink(p)
                 ELSE /\ req' = [req EXCEPT ![q].mrep = TRUE, ![q].sent = FALSE, ![q].timing = FALSE]
                      /\ cat' = Woken(p, "receive") /\ UNCHANGED scklock
  BY DEF receive_reply
<1>3. replies' \subseteq Xid /\ calls' \subseteq Xid /\ x \in Xid
  BY <1>1, <1>2 DEF SentCounted, TypeOK
<1>4. CASE cat' = Woken(p, "receive") /\ UNCHANGED <<req, mountvars, scklock>>
  <2>1. /\ SocketSleepersCovered' /\ cat' \in [Procs -> Places]
        /\ \A q \in Procs \ {p} : cat'[q] = "idle" <=> cat[q] = "idle"
    BY <1>1, <1>4, WokenCovers
  <2>2. TypeOK'
    BY <1>1, <1>3, <1>4, <2>1 DEF SentCounted, TypeOK, mountvars, Places
  <2>3. SentCounted'
    BY <1>1, <1>4, <2>2 DEF SentCounted, mountvars
  <2>4. cat'[p] = "receive"
    BY <1>4 DEF Woken
  <2>5. RequestsMatchPlaces'
    BY <1>1, <1>4, <2>1, <2>4 DEF RequestsMatchPlaces
  <2> QED
    BY <2>1, <2>3, <2>5
<1>5. ASSUME NEW q \in Owner(x), Settled(q), updatetimer(req[q].timing), q = p,
             cat' = Woken(p, "idle"), scklock' = NULL, Unlink(p)
      PROVE  ClientInv'
  <2>1. /\ SocketSleepersCovered' /\ cat' \in [Procs -> Places]
        /\ \A r \in Procs \ {p} : cat'[r] = "idle" <=> cat[r] = "idle"
    BY <1>1, <1>5, WokenCovers
  <2>2. /\ nm_sent' \in Int /\ nm_rtt' \in BOOLEAN
        /\ nm_sent' = nm_sent - (IF req[p].sent THEN 1 ELSE 0)
        /\ nm_window' \in 1 .. NFS_MAXWINDOW /\ backoff' \in BOOLEAN
    BY <1>5, SettledTypes DEF SentCounted
  <2>3. req' \in [Procs -> Request]
    BY <1>5, FreeTypes DEF SentCounted, Places
  <2>4. TypeOK'
    BY <1>1, <1>3, <1>5, <2>1, <2>2, <2>3, Zenon DEF SentCounted, TypeOK, Places
  <2>5. nm_sent' - leaked' = nm_sent - leaked - (IF req[p].sent THEN 1 ELSE 0)
    BY <1>1, <2>2 DEF SentCounted, TypeOK
  <2>6. cat'[p] = "idle"
    BY <1>5 DEF Woken
  <2> QED
    BY <1>5, <2>1, <2>4, <2>5, <2>6, FreeInv
<1>6. ASSUME NEW q \in Owner(x), Settled(q), updatetimer(req[q].timing), q # p,
             req' = [req EXCEPT ![q].mrep = TRUE, ![q].sent = FALSE, ![q].timing = FALSE],
             cat' = Woken(p, "receive"), UNCHANGED scklock
      PROVE  ClientInv'
  <2>0. q \in Procs /\ req[q].xid = x /\ req[q].xid # NULL
    BY <1>3, <1>6 DEF Owner, Xid, NULL
  <2>1. /\ SocketSleepersCovered' /\ cat' \in [Procs -> Places]
        /\ \A r \in Procs \ {p} : cat'[r] = "idle" <=> cat[r] = "idle"
    BY <1>1, <1>6, WokenCovers
  <2>2. /\ nm_sent' \in Int /\ nm_rtt' \in BOOLEAN
        /\ nm_sent' = nm_sent - (IF req[q].sent THEN 1 ELSE 0)
        /\ nm_window' \in 1 .. NFS_MAXWINDOW /\ backoff' \in BOOLEAN
    BY <1>6, <2>0, SettledTypes DEF SentCounted
  <2>3. /\ req' \in [Procs -> Request]
        /\ req'[q].xid = req[q].xid /\ req'[q].sent = FALSE
        /\ \A r \in Procs \ {q} : req'[r] = req[r]
    <3>1. req \in [Procs -> Request]
      BY DEF SentCounted, TypeOK
    <3>2. /\ req' = [req EXCEPT ![q] = req'[q]]
          /\ req'[q] = [req[q] EXCEPT !.mrep = TRUE, !.sent = FALSE, !.timing = FALSE]
      BY <1>6, <2>0, <3>1 DEF Request
    <3>3. req'[q] \in Request
      BY ZenonT(30), <2>0, <3>1, <3>2 DEF Request
    <3>4. req'[q].xid = req[q].xid /\ req'[q].sent = FALSE
      BY <2>0, <3>1, <3>2 DEF Request
    <3> QED
      BY <2>0, <3>1, <3>2, <3>3, <3>4
  <2>4. TypeOK'
    BY <1>1, <1>3, <1>6, <2>1, <2>2, <2>3, Zenon DEF SentCounted, TypeOK, Places
  <2>5. SentCounted'
    <3>1. \A r \in Procs \ {q} : req'[r].sent = req[r].sent
      BY <2>3
    <3>2. nm_sent' - leaked' = nm_sent - leaked - (IF req[q].sent THEN 1 ELSE 0)
                                                + (IF req'[q].sent THEN 1 ELSE 0)
      BY <1>1, <2>2, <2>3 DEF SentCounted, TypeOK
    <3> QED
      BY <2>0, <2>4, <3>1, <3>2, CountKept
  <2>6. cat'[p] = "receive" /\ cat[q] # "idle"
    BY <1>6, <2>0 DEF Woken, RequestsMatchPlaces
  <2>7. RequestsMatchPlaces'
    <3>1. ASSUME NEW r \in Procs
          PROVE  /\ cat'[r] = "idle" <=> req'[r].xid = NULL
                 /\ cat'[r] = "idle" => req'[r] = NoReq
                 /\ req'[r].mrep => ~req'[r].sent
      <4>1. cat'[r] = "idle" <=> cat[r] = "idle"
        BY <1>1, <2>1, <2>6
      <4>2. req'[r].xid = req[r].xid /\ (r # q => req'[r] = req[r])
        BY <2>3
      <4> QED
        BY <2>3, <2>6, <4>1, <4>2 DEF RequestsMatchPlaces
    <3> QED
      BY <3>1 DEF RequestsMatchPlaces
  <2> QED
    BY <2>1, <2>5, <2>7
<1> QED
  BY <1>2, <1>4, <1>5, <1>6

\* The receiver gives its request up.
LEMMA GiveupInv ==
  ASSUME ClientInv, NEW p \in Procs, receive_giveup(p)
  PROVE  ClientInv'
<1> USE DEF ClientInv
<1>1. /\ cat[p] = "receive" /\ Settled(p) /\ Unlink(p)
      /\ cat' = Woken(p, "idle") /\ scklock' = NULL /\ wantsck' = FALSE
      /\ UNCHANGED <<netvars, nfs_xid, nm_window, backoff, leaked>>
  BY DEF receive_giveup
<1>2. /\ SocketSleepersCovered' /\ cat' \in [Procs -> Places]
      /\ \A r \in Procs \ {p} : cat'[r] = "idle" <=> cat[r] = "idle"
  BY <1>1, WokenCovers
<1>3. /\ nm_sent' \in Int /\ nm_rtt' \in BOOLEAN
      /\ nm_sent' = nm_sent - (IF req[p].sent THEN 1 ELSE 0)
  BY <1>1, SettledTypes DEF SentCounted
<1>4. req' \in [Procs -> Request]
  BY <1>1, FreeTypes DEF SentCounted, Places
<1>5. TypeOK'
  BY <1>1, <1>2, <1>3, <1>4, Zenon DEF SentCounted, TypeOK, Places, netvars
<1>6. nm_sent' - leaked' = nm_sent - leaked - (IF req[p].sent THEN 1 ELSE 0)
  BY <1>1, <1>3 DEF SentCounted, TypeOK
<1>7. cat'[p] = "idle"
  BY <1>1 DEF Woken
<1> QED
  BY <1>1, <1>2, <1>5, <1>6, <1>7, FreeInv

\* The receiver goes round the loop and wakes the others.
LEMMA IgnoreInv ==
  ASSUME ClientInv, NEW p \in Procs, receive_ignore(p)
  PROVE  ClientInv'
<1> USE DEF ClientInv
<1>1. /\ cat[p] = "receive" /\ cat' = Woken(p, "receive") /\ wantsck' = FALSE
      /\ UNCHANGED <<netvars, nfs_xid, req, mountvars, scklock, leaked>>
  BY DEF receive_ignore
<1>2. /\ SocketSleepersCovered' /\ cat' \in [Procs -> Places]
      /\ \A q \in Procs \ {p} : cat'[q] = "idle" <=> cat[q] = "idle"
  BY <1>1, WokenCovers
<1>3. TypeOK'
  BY <1>1, <1>2 DEF SentCounted, TypeOK, mountvars, netvars, Places
<1>4. SentCounted'
  BY <1>1, <1>3 DEF SentCounted, mountvars
<1>5. cat'[p] = "receive"
  BY <1>1 DEF Woken
<1>6. RequestsMatchPlaces'
  BY <1>1, <1>2, <1>5 DEF RequestsMatchPlaces
<1> QED
  BY <1>2, <1>4, <1>6

\* nfs_timer() changes a request in place: its xid and reply stay, and nobody moves.
LEMMA TimerInv ==
  ASSUME ClientInv, TypeOK', NEW p \in Procs, Outstanding(p),
         NEW r \in Request, req' = [req EXCEPT ![p] = r],
         r.xid = req[p].xid, r.mrep = req[p].mrep,
         nm_sent' = nm_sent - (IF req[p].sent THEN 1 ELSE 0) + (IF r.sent THEN 1 ELSE 0),
         UNCHANGED <<cat, scklock, wantsck, leaked>>
  PROVE  ClientInv'
<1> USE DEF ClientInv
<1>1. req'[p] = r /\ (\A q \in Procs \ {p} : req'[q] = req[q]) /\ ~r.mrep
  BY DEF SentCounted, TypeOK, Outstanding
<1>2. SentCounted'
  <2>1. \A q \in Procs \ {p} : req'[q].sent = req[q].sent
    BY <1>1
  <2>2. nm_sent' - leaked' = nm_sent - leaked - (IF req[p].sent THEN 1 ELSE 0)
                                              + (IF req'[p].sent THEN 1 ELSE 0)
    BY <1>1 DEF SentCounted, TypeOK
  <2> QED
    BY <2>1, <2>2, CountKept
<1>3. RequestsMatchPlaces'
  BY <1>1 DEF RequestsMatchPlaces, Outstanding
<1>4. SocketSleepersCovered'
  BY DEF SocketSleepersCovered
<1> QED
  BY <1>2, <1>3, <1>4

\* nfs_timer() sees a signal.
LEMMA TimerSignalInv ==
  ASSUME ClientInv, NEW p \in Procs, timer_signal(p)
  PROVE  ClientInv'
<1> USE DEF ClientInv
<1> DEFINE r == [req[p] EXCEPT !.softterm = TRUE]
<1>1. /\ Outstanding(p) /\ req' = [req EXCEPT ![p] = r]
      /\ UNCHANGED <<netvars, nfs_xid, cat, mountvars, scklock, wantsck, leaked>>
  BY DEF timer_signal, SentCounted, TypeOK
<1>2. r \in Request /\ r.xid = req[p].xid /\ r.mrep = req[p].mrep /\ r.sent = req[p].sent
  BY DEF SentCounted, TypeOK, Request
<1>3. TypeOK'
  BY <1>1, <1>2, Zenon DEF SentCounted, TypeOK, mountvars, netvars
<1>4. nm_sent' = nm_sent - (IF req[p].sent THEN 1 ELSE 0) + (IF r.sent THEN 1 ELSE 0)
  BY <1>1, <1>2 DEF SentCounted, TypeOK, mountvars
<1> HIDE DEF r
<1> QED
  BY <1>1, <1>2, <1>3, <1>4, TimerInv

\* nfs_timer() counts a timeout, gives the request up or sends it again.
LEMMA TimerExpireInv ==
  ASSUME ClientInv, NEW p \in Procs, NEW resend \in BOOLEAN, timer_expire(p, resend)
  PROVE  ClientInv'
<1> USE DEF ClientInv
<1> DEFINE rexmit == IF req[p].rexmit < Retry THEN req[p].rexmit + 1 ELSE Retry
           over == ~req[p].hard /\ rexmit >= Retry
           r == [req[p] EXCEPT !.sent = resend, !.timing = resend,
                               !.rexmit = rexmit, !.softterm = over]
           sent == nm_sent - (IF req[p].sent THEN 1 ELSE 0)
           window == IF req[p].timing THEN 1 ELSE nm_window
<1>1. /\ Outstanding(p) /\ req' = [req EXCEPT ![p] = r]
      /\ nm_sent' = sent + (IF resend THEN 1 ELSE 0)
      /\ nm_rtt' = (resend \/ (nm_rtt /\ ~req[p].timing))
      /\ nm_window' = window /\ backoff' = (backoff \/ req[p].timing)
      /\ calls' = IF resend THEN calls \cup {req[p].xid} ELSE calls
      /\ UNCHANGED <<replies, nfs_xid, cat, scklock, wantsck, leaked>>
  BY DEF timer_expire
<1>2. req[p] \in Request /\ req[p].xid \in Xid
  BY <1>1 DEF SentCounted, TypeOK, Outstanding, Request
<1>3. rexmit \in 0 .. Retry /\ over \in BOOLEAN
  BY <1>2, ClientAssumption DEF Request
<1>4. r \in Request /\ r.xid = req[p].xid /\ r.mrep = req[p].mrep /\ r.sent = resend
  <2> HIDE DEF over, rexmit
  <2> QED
    BY <1>2, <1>3 DEF Request
<1>5. TypeOK'
  <2>1. req' \in [Procs -> Request]
    <3> HIDE DEF r
    <3> QED
      BY <1>1, <1>4 DEF SentCounted, TypeOK
  <2>2. nm_sent' \in Int /\ nm_window' \in 1 .. NFS_MAXWINDOW
    BY <1>1, ClientAssumption DEF SentCounted, TypeOK
  <2>3. nm_rtt' \in BOOLEAN /\ backoff' \in BOOLEAN
    BY <1>1
  <2>4. calls' \subseteq Xid
    BY <1>1, <1>2 DEF SentCounted, TypeOK
  <2> QED
    BY <1>1, <2>1, <2>2, <2>3, <2>4, Zenon DEF SentCounted, TypeOK
<1>6. nm_sent' = nm_sent - (IF req[p].sent THEN 1 ELSE 0) + (IF r.sent THEN 1 ELSE 0)
  BY <1>1, <1>4
<1> HIDE DEF r
<1> QED
  BY <1>1, <1>4, <1>5, <1>6, TimerInv

\* The network loses datagrams and the server answers: nothing of the mount changes.
LEMMA NetworkInv ==
  ASSUME ClientInv, Lose \/ \E x \in Xid : Answer(x)
  PROVE  ClientInv'
<1> USE DEF ClientInv
<1>1. UNCHANGED <<nfs_xid, req, cat, mountvars, scklock, wantsck, leaked>>
  BY DEF Lose, Answer
<1>2. calls' \subseteq Xid /\ replies' \subseteq Xid
  BY DEF Lose, Answer, SentCounted, TypeOK
<1>3. TypeOK'
  BY <1>1, <1>2, Zenon DEF SentCounted, TypeOK, mountvars
<1>4. SentCounted'
  BY <1>1, <1>3 DEF SentCounted, mountvars
<1>5. RequestsMatchPlaces' /\ SocketSleepersCovered'
  BY <1>1 DEF RequestsMatchPlaces, SocketSleepersCovered
<1> QED
  BY <1>4, <1>5

\* Every step keeps the invariant.
LEMMA StepInv == ClientInv /\ [Next]_vars => ClientInv'
<1> SUFFICES ASSUME ClientInv, [Next]_vars PROVE ClientInv'
  OBVIOUS
<1>1. CASE UNCHANGED vars
  <2>1. TypeOK' /\ RequestsMatchPlaces' /\ SocketSleepersCovered'
    BY <1>1, Zenon DEF ClientInv, SentCounted, TypeOK, RequestsMatchPlaces,
                       SocketSleepersCovered, vars, netvars
  <2> QED
    BY <1>1, <2>1 DEF ClientInv, SentCounted, vars
<1>2. ASSUME NEW p \in Procs, \E hard \in BOOLEAN : nfs_request(p, hard) PROVE ClientInv'
  BY <1>2, RequestInv
<1>3. ASSUME NEW p \in Procs, nfs_send(p) PROVE ClientInv'
  BY <1>3, SendInv
<1>4. ASSUME NEW p \in Procs, nfs_solock(p) PROVE ClientInv'
  BY <1>4, SolockInv
<1>5. ASSUME NEW p \in Procs, receive_reply(p) PROVE ClientInv'
  BY <1>5, ReplyInv
<1>6. ASSUME NEW p \in Procs, receive_giveup(p) PROVE ClientInv'
  BY <1>6, GiveupInv
<1>7. ASSUME NEW p \in Procs, receive_ignore(p) PROVE ClientInv'
  BY <1>7, IgnoreInv
<1>8. ASSUME NEW p \in Procs, timer_signal(p) PROVE ClientInv'
  BY <1>8, TimerSignalInv
<1>9. ASSUME NEW p \in Procs, \E resend \in BOOLEAN : timer_expire(p, resend) PROVE ClientInv'
  BY <1>9, TimerExpireInv
<1>10. CASE Lose \/ \E x \in Xid : Answer(x)
  BY <1>10, NetworkInv
<1> QED
  BY <1>1, <1>2, <1>3, <1>4, <1>5, <1>6, <1>7, <1>8, <1>9, <1>10 DEF Next

-----------------------------------------------------------------------------
\* nm_sent counts the requests marked R_SENT, and those freed while they were, however
\* replies, time limits, signals and retransmissions interleave (nfs_request(), nfs_reply()
\* and nfs_timer()).
THEOREM SentIsCounted == Spec => []SentCounted
<1>1. ClientInv => SentCounted
  BY DEF ClientInv
<1> QED
  BY InitInv, StepInv, <1>1, PTL DEF Spec

\* A process asleep in nfs_solock() is covered by a receiver that knows it is wanted:
\* the wakeup of nfs_sounlock() cannot be missed.
THEOREM SocketSleepersAreCovered == Spec => []SocketSleepersCovered
<1>1. ClientInv => SocketSleepersCovered
  BY DEF ClientInv
<1> QED
  BY InitInv, StepInv, <1>1, PTL DEF Spec
=============================================================================
