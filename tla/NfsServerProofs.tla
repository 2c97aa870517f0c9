--------------------------- MODULE NfsServerProofs ---------------------------
(***************************************************************************)
(* Proofs about NfsServer for any number of requests, entries, reboots and *)
(* nfsds.                                                                  *)
(***************************************************************************)
EXTENDS NfsServer, WellFoundedInduction, TLAPS

Copying(d) == srv[d].at \in {"copy", "updcopy"}
Waiting(d) == srv[d].at \in {"hitwait", "misswait", "updwait"}
Serving(d, x) == srv[d].xid = x /\ srv[d].at \in {"exec", "update", "updwait"}

\* Whoever copies a reply has locked the entry of its request, and nobody else has.
OneHolder ==
  /\ \A d \in Nfsds : Copying(d) => /\ srv[d].rp \in Entry /\ nfsrvcache[srv[d].rp].LOCKED
                                    /\ nfsrvcache[srv[d].rp].xid = srv[d].xid
  /\ \A c, d \in Nfsds : Copying(c) /\ Copying(d) /\ srv[c].rp = srv[d].rp => c = d

\* What an nfsd works on was asked for; it sleeps for an entry, and an nfsd that waits
\* to update the cache with a valid reply, or copies one, has carried the request out.
NfsdAsked(d) ==
  /\ srv[d].at # "idle" => srv[d].xid \in calls
  /\ srv[d].at \in {"hitwait", "misswait", "updwait", "miss"} => srv[d].rp \in Entry
  /\ srv[d].at \in {"update", "updwait"} /\ srv[d].repvalid => executed[srv[d].xid] > 0
  /\ srv[d].at = "updcopy" => executed[srv[d].xid] > 0
  /\ srv[d].at = "copy" => nfsrvcache[srv[d].rp].rep = srv[d].xid
NfsdsAsked == \A d \in Nfsds : NfsdAsked(d)

\* An entry holds a request that was asked for, and no reply but its own.
EntriesAsked == \A e \in Entry :
  /\ nfsrvcache[e].xid \in calls \cup {0}
  /\ nfsrvcache[e].state = "UNUSED" => nfsrvcache[e].xid = 0
  /\ nfsrvcache[e].rep # 0 => /\ nfsrvcache[e].rep = nfsrvcache[e].xid
                              /\ executed[nfsrvcache[e].xid] > 0

\* Of a request the server keeps track of there is one entry; it is in progress exactly
\* while one nfsd is in the procedure, and once what is not idempotent was carried out its
\* reply is there or being copied.
KeepsTrack(x) ==
  /\ \A e, f \in Entry : nfsrvcache[e].xid = x /\ nfsrvcache[f].xid = x => e = f
  /\ \A d \in Nfsds : srv[d].xid = x => srv[d].at \notin {"update", "updwait"}
  /\ \A c, d \in Nfsds : srv[c].xid = x /\ srv[c].at = "exec"
                         /\ srv[d].xid = x /\ srv[d].at = "exec" => c = d
  /\ \A d \in Nfsds : srv[d].xid = x /\ srv[d].at = "exec" =>
       \E e \in Entry : nfsrvcache[e].xid = x /\ nfsrvcache[e].state = "INPROG" /\ ~nfsrvcache[e].LOCKED
  /\ \A e \in Entry : nfsrvcache[e].xid = x /\ nfsrvcache[e].state = "INPROG" =>
       \E d \in Nfsds : srv[d].xid = x /\ srv[d].at = "exec"
  /\ x \in NonIdempotent /\ executed[x] > 0 =>
       \E e \in Entry : /\ nfsrvcache[e].xid = x /\ nfsrvcache[e].state = "DONE"
                        /\ nfsrvcache[e].rep = x \/ nfsrvcache[e].LOCKED
Tracked == \A x \in Xid \ lost : KeepsTrack(x)

\* The inductive invariant.
ServerInv == EntrySleepersCovered /\ OneHolder /\ NfsdsAsked /\ EntriesAsked /\ Tracked /\ lost \subseteq calls

-----------------------------------------------------------------------------
(* The lists.                                                              *)

\* A set of numbers that is not empty has a least one.
LEMMA Least ==
  ASSUME NEW T \in SUBSET Nat, T # {}
  PROVE  \E i \in T : \A j \in T : i <= j
<1> DEFINE R == OpToRel(<, Nat)
<1>1. IsWellFoundedOn(R, Nat)
  BY NatLessThanWellFounded
<1>2. \A x, y \in Nat : <<y, x>> \in R <=> y < x
  BY DEF OpToRel
<1> HIDE DEF R
<1>3. PICK i \in T : \A j \in T : ~(<<j, i>> \in R)
  BY <1>1, WFMin
<1>4. \A j \in T : i <= j
  <2> TAKE j \in T
  <2>1. ~(j < i)
    BY <1>2, <1>3
  <2> QED
    BY <2>1
<1> QED
  BY <1>4

\* nfsrv_getcache() finds an entry with x if and only if there is one.
LEMMA HitFacts ==
  ASSUME TypeOK, NEW x \in Xid
  PROVE  /\ Chain(x) # {} => Hit(x) \in Entry /\ nfsrvcache[Hit(x)].xid = x
         /\ Chain(x) = {} => \A e \in Entry : nfsrvcache[e].xid # x
<1>1. ASSUME Chain(x) # {}
      PROVE  Hit(x) \in Entry /\ nfsrvcache[Hit(x)].xid = x
  <2> DEFINE P(i) == \A j \in Chain(x) : i <= j
             first == CHOOSE i \in Chain(x) : P(i)
  <2>1. Chain(x) \in SUBSET Nat
    BY ServerAssumption DEF Chain, Entry
  <2>2. \E i \in Chain(x) : P(i)
    BY <1>1, <2>1, Least
  <2>3. first \in Chain(x)
    <3> HIDE DEF P
    <3> QED
      BY <2>2
  <2>4. Hit(x) = lru[first]
    BY DEF Hit
  <2> HIDE DEF first
  <2> QED
    BY <2>3, <2>4 DEF Chain, TypeOK
<1>2. ASSUME Chain(x) = {}, NEW e \in Entry
      PROVE  nfsrvcache[e].xid # x
  BY <1>2 DEF Chain, TypeOK
<1> QED
  BY <1>1, <1>2

\* put_at_head() keeps every entry on the list.
LEMMA HeadTypes ==
  ASSUME TypeOK, NEW e \in Entry
  PROVE  /\ put_at_head(e) \in [Entry -> Entry]
         /\ \A f \in Entry : \E i \in Entry : put_at_head(e)[i] = f
         /\ lru[CacheSize] \in Entry
<1>1. Position(e) \in Entry /\ lru[Position(e)] = e
  <2>1. \E i \in Entry : lru[i] = e
    BY DEF TypeOK
  <2> QED
    BY <2>1 DEF Position
<1>2. \A i \in Entry : i # 1 => i - 1 \in Entry
  BY ServerAssumption DEF Entry
<1>3. 1 \in Entry /\ CacheSize \in Entry
  BY ServerAssumption DEF Entry
<1>4. put_at_head(e) \in [Entry -> Entry]
  BY <1>2 DEF put_at_head, TypeOK
<1>5. ASSUME NEW f \in Entry
      PROVE  \E i \in Entry : put_at_head(e)[i] = f
  <2>1. CASE f = e
    BY <1>3, <2>1 DEF put_at_head
  <2>2. CASE f # e
    <3>1. PICK j \in Entry : lru[j] = f
      BY DEF TypeOK
    <3>2. j # Position(e)
      BY <1>1, <2>2, <3>1
    <3>3. CASE j < Position(e)
      <4>1. j + 1 \in Entry /\ j + 1 # 1 /\ j + 1 <= Position(e) /\ (j + 1) - 1 = j
        BY <1>1, <3>3, ServerAssumption DEF Entry
      <4>2. put_at_head(e)[j + 1] = lru[j]
        BY <4>1 DEF put_at_head
      <4> QED
        BY <3>1, <4>1, <4>2
    <3>4. CASE ~(j < Position(e))
      <4>1. j # 1 /\ ~(j <= Position(e))
        BY <1>1, <3>2, <3>4, ServerAssumption DEF Entry
      <4>2. put_at_head(e)[j] = lru[j]
        BY <4>1 DEF put_at_head
      <4> QED
        BY <3>1, <4>2
    <3> QED
      BY <3>3, <3>4
  <2> QED
    BY <2>1, <2>2
<1> QED
  BY <1>3, <1>4, <1>5 DEF TypeOK

\* A server that comes up satisfies the invariant.
LEMMA InitInv == Init => ServerInv
<1> SUFFICES ASSUME Init PROVE ServerInv
  OBVIOUS
<1>1. TypeOK
  <2>1. Unused \in nfsrvcache_entry /\ Idle \in Activity
    BY DEF Unused, nfsrvcache_entry, Idle, Activity, Places
  <2>2. lru = [i \in Entry |-> CacheSize + 1 - i]
    BY DEF Init, nfsrv_initcache
  <2>3. \A i \in Entry : CacheSize + 1 - i \in Entry
    BY ServerAssumption DEF Entry
  <2>4. lru \in [Entry -> Entry]
    BY <2>2, <2>3
  <2>5. ASSUME NEW e \in Entry PROVE \E i \in Entry : lru[i] = e
    <3>1. CacheSize + 1 - (CacheSize + 1 - e) = e
      BY ServerAssumption DEF Entry
    <3> QED
      BY <2>2, <2>3, <3>1
  <2>6. nfsrvcache = [e \in Entry |-> Unused]
    BY DEF Init, nfsrv_initcache
  <2>7. 0 \in 0 .. MaxReboots /\ 0 \in 0 .. 2
    BY ServerAssumption
  <2> QED
    BY <2>1, <2>4, <2>5, <2>6, <2>7, Zenon DEF Init, TypeOK
<1>2. \A e \in Entry : nfsrvcache[e] = Unused
  BY DEF Init, nfsrv_initcache
<1>3. \A d \in Nfsds : srv[d] = Idle
  BY DEF Init
<1>4. calls = {} /\ lost = {} /\ \A x \in Xid : executed[x] = 0
  BY DEF Init
<1>5. EntrySleepersCovered
  BY <1>1, <1>2, <1>3 DEF EntrySleepersCovered, Unused, Idle
<1>6. OneHolder /\ NfsdsAsked
  BY <1>3 DEF OneHolder, NfsdsAsked, NfsdAsked, Copying, Idle
<1>7. EntriesAsked
  BY <1>2 DEF EntriesAsked, Unused
<1>8. Tracked
  BY <1>2, <1>3, <1>4 DEF Tracked, KeepsTrack, Unused, Idle, Xid
<1> QED
  BY <1>4, <1>5, <1>6, <1>7, <1>8 DEF ServerInv

-----------------------------------------------------------------------------
(* The steps of an nfsd.                                                   *)

\* What a procedure does to the history: nothing, or x was carried out.
Carried(x) ==
  /\ executed' \in [Xid -> 0 .. 2]
  /\ \A y \in Xid : executed[y] > 0 => executed'[y] > 0
  /\ \A y \in Xid \ {x} : executed'[y] = executed[y]

\* An nfsd goes to sleep for a locked entry.
LEMMA SleepInv ==
  ASSUME ServerInv, NEW d \in Nfsds, NEW x \in Xid, NEW e \in Entry, NEW where, NEW valid \in BOOLEAN,
         Sleep(d, x, e, where, valid), nfsrvcache[e].LOCKED, x \in calls,
         where \in {"hitwait", "misswait"} \/ (where = "updwait" /\ x \in lost),
         ~Copying(d), srv[d].at = "exec" => srv[d].xid \in lost,
         where = "updwait" /\ valid => executed'[x] > 0,
         x \in lost \/ executed' = executed, Carried(x),
         replies' \subseteq [xid : Xid, of : Xid],
         UNCHANGED <<calls, lru, reboots, lost>>
  PROVE  ServerInv'
<1> USE DEF ServerInv
<1> DEFINE act == [Idle EXCEPT !.at = where, !.xid = x, !.rp = e, !.repvalid = valid]
<1>1. /\ act \in Activity /\ act.at = where /\ act.xid = x /\ act.rp = e /\ act.repvalid = valid
  BY DEF Idle, Activity, Places
<1>2. /\ srv'[d] = act /\ \A c \in Nfsds \ {d} : srv'[c] = srv[c]
      /\ srv' \in [Nfsds -> Activity]
  BY <1>1 DEF Sleep, EntrySleepersCovered, TypeOK
<1> HIDE DEF act
<1>3. /\ nfsrvcache'[e].WANTED
      /\ \A f \in Entry \ {e} : nfsrvcache'[f] = nfsrvcache[f]
      /\ \A f \in Entry : /\ nfsrvcache'[f].xid = nfsrvcache[f].xid
                          /\ nfsrvcache'[f].state = nfsrvcache[f].state
                          /\ nfsrvcache'[f].rep = nfsrvcache[f].rep
                          /\ nfsrvcache'[f].LOCKED = nfsrvcache[f].LOCKED
      /\ nfsrvcache' \in [Entry -> nfsrvcache_entry]
  <2>1. nfsrvcache \in [Entry -> nfsrvcache_entry]
    BY DEF EntrySleepersCovered, TypeOK
  <2>2. nfsrvcache' = [nfsrvcache EXCEPT ![e] = [nfsrvcache[e] EXCEPT !.WANTED = TRUE]]
    BY DEF Sleep
  <2>3. [nfsrvcache[e] EXCEPT !.WANTED = TRUE] \in nfsrvcache_entry
    BY <2>1 DEF nfsrvcache_entry
  <2> QED
    BY <2>1, <2>2, <2>3 DEF nfsrvcache_entry
<1>4. TypeOK'
  BY <1>2, <1>3, Zenon DEF EntrySleepersCovered, TypeOK, Carried
<1>5. EntrySleepersCovered'
  <2>1. ASSUME NEW c \in Nfsds, srv'[c].at \in {"hitwait", "misswait", "updwait"}
        PROVE  nfsrvcache'[srv'[c].rp].LOCKED /\ nfsrvcache'[srv'[c].rp].WANTED
    BY <1>1, <1>2, <1>3, <2>1 DEF EntrySleepersCovered, NfsdsAsked, NfsdAsked
  <2>2. ASSUME NEW f \in Entry, nfsrvcache'[f].LOCKED
        PROVE  \E c \in Nfsds : srv'[c].rp = f /\ srv'[c].at \in {"copy", "updcopy"}
    <3>1. PICK c \in Nfsds : srv[c].rp = f /\ srv[c].at \in {"copy", "updcopy"}
      BY <1>3, <2>2 DEF EntrySleepersCovered
    <3>2. c # d
      BY <3>1 DEF Copying
    <3> QED
      BY <1>2, <3>1, <3>2
  <2> QED
    BY <1>4, <2>1, <2>2 DEF EntrySleepersCovered
<1>6. OneHolder'
  BY <1>1, <1>2, <1>3 DEF OneHolder, Copying
<1>7. NfsdsAsked'
  <2>1. ASSUME NEW c \in Nfsds
        PROVE  NfsdAsked(c)'
    <3>1. CASE c = d
      BY <1>1, <1>2, <3>1 DEF NfsdAsked
    <3>2. CASE c # d
      <4>1. srv'[c] = srv[c] /\ (srv[c].at # "idle" => srv[c].xid \in Xid)
        BY <1>2, <3>2 DEF NfsdsAsked, NfsdAsked, EntrySleepersCovered, TypeOK
      <4>2. srv[c].at = "copy" => srv[c].rp \in Entry
        BY DEF OneHolder, Copying
      <4> QED
        BY <1>3, <4>1, <4>2 DEF NfsdsAsked, NfsdAsked, Carried
    <3> QED
      BY <3>1, <3>2
  <2> QED
    BY <2>1 DEF NfsdsAsked
<1>8. EntriesAsked'
  <2>1. \A f \in Entry : nfsrvcache[f].xid \in Xid \cup {0} /\ nfsrvcache[f].rep \in Xid \cup {0}
    BY DEF EntrySleepersCovered, TypeOK, nfsrvcache_entry
  <2> QED
    BY <1>3, <2>1, ServerAssumption DEF EntriesAsked, Carried, Xid
<1>9. Tracked'
  <2>1. ASSUME NEW y \in Xid \ lost
        PROVE  KeepsTrack(y)'
    <3>1. executed'[y] = executed[y]
      BY DEF Carried
    <3>2. \A c \in Nfsds : srv'[c].xid = y /\ srv'[c].at \in {"exec", "update", "updwait"} =>
             c # d /\ srv'[c] = srv[c]
      BY <1>1, <1>2
    <3>3. \A c \in Nfsds : srv[c].xid = y /\ srv[c].at = "exec" => srv'[c] = srv[c]
      BY <1>2
    <3> QED
      BY <1>3, <3>1, <3>2, <3>3 DEF Tracked, KeepsTrack
  <2> QED
    BY <2>1 DEF Tracked
<1> QED
  BY <1>5, <1>6, <1>7, <1>8, <1>9

\* One nfsd and one entry change, within their types.
LEMMA OneOfEach ==
  ASSUME TypeOK, NEW d \in Nfsds, NEW e \in Entry, NEW act \in Activity, NEW ent \in nfsrvcache_entry,
         srv' = [srv EXCEPT ![d] = act], nfsrvcache' = [nfsrvcache EXCEPT ![e] = ent]
  PROVE  /\ srv' \in [Nfsds -> Activity] /\ nfsrvcache' \in [Entry -> nfsrvcache_entry]
         /\ srv'[d] = act /\ \A b \in Nfsds \ {d} : srv'[b] = srv[b]
         /\ nfsrvcache'[e] = ent /\ \A f \in Entry \ {e} : nfsrvcache'[f] = nfsrvcache[f]
  BY DEF TypeOK

\* An nfsd is done with a request: it is dropped, or answered without the cache.
LEMMA IdleInv ==
  ASSUME ServerInv, TypeOK', NEW d \in Nfsds, NEW x \in Xid,
         srv' = [srv EXCEPT ![d] = Idle],
         ~Copying(d), srv[d].at = "exec" => srv[d].xid \in lost,
         x \in lost \/ executed' = executed, Carried(x),
         UNCHANGED <<calls, nfsrvcache, lost>>
  PROVE  ServerInv'
<1> USE DEF ServerInv
<1>1. /\ srv'[d].at = "idle" /\ \A c \in Nfsds \ {d} : srv'[c] = srv[c]
  BY DEF Idle, EntrySleepersCovered, TypeOK
<1>2. EntrySleepersCovered'
  <2>1. ASSUME NEW f \in Entry, nfsrvcache[f].LOCKED
        PROVE  \E c \in Nfsds : srv'[c].rp = f /\ srv'[c].at \in {"copy", "updcopy"}
    <3>1. PICK c \in Nfsds : srv[c].rp = f /\ srv[c].at \in {"copy", "updcopy"}
      BY <2>1 DEF EntrySleepersCovered
    <3> QED
      BY <1>1, <3>1 DEF Copying
  <2> QED
    BY <1>1, <2>1 DEF EntrySleepersCovered
<1>3. OneHolder'
  BY <1>1 DEF OneHolder, Copying
<1>4. NfsdsAsked'
  <2>1. ASSUME NEW c \in Nfsds
        PROVE  NfsdAsked(c)'
    <3>1. CASE c = d
      BY <1>1, <3>1 DEF NfsdAsked
    <3>2. CASE c # d
      <4>1. srv'[c] = srv[c] /\ (srv[c].at # "idle" => srv[c].xid \in Xid)
        BY <1>1, <3>2 DEF NfsdsAsked, NfsdAsked, EntrySleepersCovered, TypeOK
      <4> QED
        BY <4>1 DEF NfsdsAsked, NfsdAsked, Carried
    <3> QED
      BY <3>1, <3>2
  <2> QED
    BY <2>1 DEF NfsdsAsked
<1>5. EntriesAsked'
  <2>1. \A f \in Entry : nfsrvcache[f].xid \in Xid \cup {0} /\ nfsrvcache[f].rep \in Xid \cup {0}
    BY DEF EntrySleepersCovered, TypeOK, nfsrvcache_entry
  <2> QED
    BY <2>1, ServerAssumption DEF EntriesAsked, Carried, Xid
<1>6. Tracked'
  <2>1. ASSUME NEW y \in Xid \ lost
        PROVE  KeepsTrack(y)'
    <3>1. executed'[y] = executed[y]
      BY DEF Carried
    <3>2. \A c \in Nfsds : srv'[c].xid = y /\ srv'[c].at \in {"exec", "update", "updwait"} =>
             srv'[c] = srv[c]
      BY <1>1
    <3>3. \A c \in Nfsds : srv[c].xid = y /\ srv[c].at = "exec" => srv'[c] = srv[c]
      BY <1>1
    <3> QED
      BY <3>1, <3>2, <3>3 DEF Tracked, KeepsTrack
  <2> QED
    BY <2>1 DEF Tracked
<1> QED
  BY <1>2, <1>3, <1>4, <1>5, <1>6

\* The shared part of the steps that change the entry e of request x, which nobody has
\* locked, while nfsd d goes on to something else with x or is done.
LEMMA EntryInv ==
  ASSUME ServerInv, TypeOK', NEW d \in Nfsds, NEW x \in Xid, NEW e \in Entry,
         NEW act, NEW ent,
         srv' = [srv EXCEPT ![d] = act], nfsrvcache' = [nfsrvcache EXCEPT ![e] = ent],
         ~nfsrvcache[e].LOCKED, nfsrvcache[e].xid = x, ent.xid = x,
         ent.LOCKED <=> act.at \in {"copy", "updcopy"},
         act.at \in {"idle", "exec"} \/ (act.at \in {"copy", "updcopy"} /\ act.rp = e /\ act.xid = x),
         act.at = "exec" => act.xid = x,
         act.at = "copy" => ent.rep = x,
         act.at = "updcopy" => executed'[x] > 0,
         ent.rep \in {0, nfsrvcache[e].rep}, ent.state # "UNUSED",
         x \in calls, ~Copying(d), srv[d].at = "exec" => srv[d].xid = x,
         Carried(x), x \notin lost => KeepsTrack(x)',
         UNCHANGED <<calls, lost>>
  PROVE  ServerInv'
<1> USE DEF ServerInv
<1>1. /\ srv'[d] = act /\ \A c \in Nfsds \ {d} : srv'[c] = srv[c]
      /\ nfsrvcache'[e] = ent /\ \A f \in Entry \ {e} : nfsrvcache'[f] = nfsrvcache[f]
  BY DEF EntrySleepersCovered, TypeOK
<1>2. \A c \in Nfsds : srv[c].at \in {"copy", "updcopy", "hitwait", "misswait", "updwait"}
        => srv[c].rp # e /\ srv[c].rp \in Entry
  BY DEF EntrySleepersCovered, OneHolder, Copying, NfsdsAsked, NfsdAsked
<1>3. EntrySleepersCovered'
  <2>1. ASSUME NEW c \in Nfsds, srv'[c].at \in {"hitwait", "misswait", "updwait"}
        PROVE  nfsrvcache'[srv'[c].rp].LOCKED /\ nfsrvcache'[srv'[c].rp].WANTED
    <3>1. c # d /\ srv'[c] = srv[c]
      BY <1>1, <2>1
    <3> QED
      BY <1>1, <1>2, <2>1, <3>1 DEF EntrySleepersCovered
  <2>2. ASSUME NEW f \in Entry, nfsrvcache'[f].LOCKED
        PROVE  \E c \in Nfsds : srv'[c].rp = f /\ srv'[c].at \in {"copy", "updcopy"}
    <3>1. CASE f = e
      BY <1>1, <2>2, <3>1
    <3>2. CASE f # e
      <4>1. PICK c \in Nfsds : srv[c].rp = f /\ srv[c].at \in {"copy", "updcopy"}
        BY <1>1, <2>2, <3>2 DEF EntrySleepersCovered
      <4> QED
        BY <1>1, <4>1 DEF Copying
    <3> QED
      BY <3>1, <3>2
  <2> QED
    BY <2>1, <2>2 DEF EntrySleepersCovered
<1>4. OneHolder'
  <2>1. ASSUME NEW c \in Nfsds, Copying(c)'
        PROVE  /\ srv'[c].rp \in Entry /\ nfsrvcache'[srv'[c].rp].LOCKED
               /\ nfsrvcache'[srv'[c].rp].xid = srv'[c].xid
               /\ srv'[c].rp = e <=> c = d
    <3>1. CASE c = d
      BY <1>1, <2>1, <3>1 DEF Copying
    <3>2. CASE c # d
      BY <1>1, <1>2, <2>1, <3>2 DEF Copying, OneHolder
    <3> QED
      BY <3>1, <3>2
  <2>2. ASSUME NEW b \in Nfsds, NEW c \in Nfsds, Copying(b)', Copying(c)', srv'[b].rp = srv'[c].rp
        PROVE  b = c
    <3>1. CASE srv'[b].rp = e
      BY <2>1, <2>2, <3>1
    <3>2. CASE srv'[b].rp # e
      <4>1. b # d /\ c # d
        BY <2>1, <2>2, <3>2
      <4> QED
        BY <1>1, <2>2, <4>1 DEF Copying, OneHolder
    <3> QED
      BY <3>1, <3>2
  <2> QED
    BY <2>1, <2>2 DEF OneHolder
<1>5. NfsdsAsked'
  <2>1. ASSUME NEW c \in Nfsds
        PROVE  NfsdAsked(c)'
    <3>1. CASE c = d
      BY <1>1, <3>1 DEF NfsdAsked
    <3>2. CASE c # d
      <4>1. srv'[c] = srv[c] /\ (srv[c].at # "idle" => srv[c].xid \in Xid)
        BY <1>1, <3>2 DEF NfsdsAsked, NfsdAsked, EntrySleepersCovered, TypeOK
      <4>2. srv[c].at = "copy" => nfsrvcache'[srv[c].rp] = nfsrvcache[srv[c].rp]
        BY <1>1, <1>2
      <4> QED
        BY <4>1, <4>2 DEF NfsdsAsked, NfsdAsked, Carried
    <3> QED
      BY <3>1, <3>2
  <2> QED
    BY <2>1 DEF NfsdsAsked
<1>6. EntriesAsked'
  <2>1. \A f \in Entry : nfsrvcache[f].xid \in Xid \cup {0} /\ nfsrvcache[f].rep \in Xid \cup {0}
    BY DEF EntrySleepersCovered, TypeOK, nfsrvcache_entry
  <2>2. ASSUME NEW f \in Entry
        PROVE  /\ nfsrvcache'[f].xid \in calls \cup {0}
               /\ nfsrvcache'[f].state = "UNUSED" => nfsrvcache'[f].xid = 0
               /\ nfsrvcache'[f].rep # 0 => /\ nfsrvcache'[f].rep = nfsrvcache'[f].xid
                                            /\ executed'[nfsrvcache'[f].xid] > 0
    <3>1. CASE f = e
      BY <1>1, <3>1 DEF EntriesAsked, Carried
    <3>2. CASE f # e
      <4>1. nfsrvcache'[f] = nfsrvcache[f]
        BY <1>1, <3>2
      <4>2. nfsrvcache[f].rep # 0 => nfsrvcache[f].xid \in Xid
        BY <2>1 DEF EntriesAsked
      <4> QED
        BY <4>1, <4>2 DEF EntriesAsked, Carried
    <3> QED
      BY <3>1, <3>2
  <2> QED
    BY <2>2 DEF EntriesAsked
<1>7. Tracked'
  <2>1. ASSUME NEW y \in Xid \ lost, y # x
        PROVE  KeepsTrack(y)'
    <3>1. executed'[y] = executed[y]
      BY <2>1 DEF Carried
    <3>2. \A c \in Nfsds : srv'[c].xid = y /\ srv'[c].at \in {"exec", "update", "updwait"} =>
             srv'[c] = srv[c]
      BY <1>1, <2>1
    <3>3. \A c \in Nfsds : srv[c].xid = y /\ srv[c].at = "exec" => srv'[c] = srv[c]
      BY <1>1, <2>1
    <3>4. \A f \in Entry : nfsrvcache[f].xid = y \/ nfsrvcache'[f].xid = y => nfsrvcache'[f] = nfsrvcache[f]
      BY <1>1, <2>1
    <3> QED
      BY <3>1, <3>2, <3>3, <3>4 DEF Tracked, KeepsTrack
  <2> QED
    BY <2>1 DEF Tracked
<1> QED
  BY <1>3, <1>4, <1>5, <1>6, <1>7

\* What an nfsd that has a request is: idle or back from a sleep, and the request was made.
LEMMA GotFacts ==
  ASSUME ServerInv, NEW d \in Nfsds, NEW x \in Xid, Got(d, x)
  PROVE  /\ x \in calls /\ ~Copying(d) /\ srv[d].at # "exec"
         /\ UNCHANGED executed => Carried(x)
  BY DEF Got, Copying, ServerInv, NfsdsAsked, NfsdAsked, Carried, EntrySleepersCovered, TypeOK

\* nfsrv_getcache() finds the request: it sleeps, drops, copies the reply or goes on.
LEMMA HitInv ==
  ASSUME ServerInv, NEW d \in Nfsds, NEW x \in Xid, getcache_hit(d, x)
  PROVE  ServerInv'
<1> DEFINE e == Hit(x)
           c == nfsrvcache[e]
<1>1. /\ Got(d, x) /\ Chain(x) # {}
      /\ UNCHANGED <<calls, replies, reboots, executed, lost>>
  BY DEF getcache_hit
<1>2. TypeOK
  BY DEF ServerInv, EntrySleepersCovered
<1>3. e \in Entry /\ c.xid = x /\ c \in nfsrvcache_entry
  BY <1>1, <1>2, HitFacts DEF TypeOK
<1>4. /\ x \in calls /\ ~Copying(d) /\ srv[d].at # "exec" /\ Carried(x)
  BY <1>1, GotFacts
<1>5. put_at_head(e) \in [Entry -> Entry] /\ \A f \in Entry : \E i \in Entry : put_at_head(e)[i] = f
  BY <1>2, <1>3, HeadTypes
<1>6. replies' \subseteq [xid : Xid, of : Xid]
  BY <1>1, <1>2 DEF TypeOK
<1>7. \/ c.LOCKED /\ Sleep(d, x, e, "hitwait", FALSE) /\ UNCHANGED lru
      \/ lru' = put_at_head(e) /\ srv' = [srv EXCEPT ![d] = Idle] /\ UNCHANGED nfsrvcache
      \/ /\ ~c.LOCKED /\ ~Dropped(c) /\ c.rep # 0
         /\ lru' = put_at_head(e)
         /\ nfsrvcache' = [nfsrvcache EXCEPT ![e].LOCKED = TRUE]
         /\ srv' = [srv EXCEPT ![d] = [Idle EXCEPT !.at = "copy", !.xid = x, !.rp = e]]
      \/ /\ ~c.LOCKED /\ ~Dropped(c) /\ c.rep = 0
         /\ lru' = put_at_head(e)
         /\ nfsrvcache' = [nfsrvcache EXCEPT ![e].state = "INPROG"]
         /\ srv' = [srv EXCEPT ![d] = [Idle EXCEPT !.at = "exec", !.xid = x]]
  BY DEF getcache_hit
<1> HIDE DEF e, c
<1>8. nfsrvcache[e] = c
  BY DEF c
<1>9. CASE c.LOCKED /\ Sleep(d, x, e, "hitwait", FALSE) /\ UNCHANGED lru
  BY <1>1, <1>3, <1>4, <1>6, <1>8, <1>9, SleepInv
<1>10. CASE lru' = put_at_head(e) /\ srv' = [srv EXCEPT ![d] = Idle] /\ UNCHANGED nfsrvcache
  <2>1. Idle \in Activity
    BY DEF Idle, Activity, Places
  <2>2. TypeOK'
    BY <1>1, <1>2, <1>5, <1>10, <2>1, Zenon DEF TypeOK
  <2> QED
    BY <1>1, <1>4, <1>10, <2>2, IdleInv
<1>11. ASSUME ~c.LOCKED, ~Dropped(c), c.rep # 0, lru' = put_at_head(e),
              nfsrvcache' = [nfsrvcache EXCEPT ![e].LOCKED = TRUE],
              srv' = [srv EXCEPT ![d] = [Idle EXCEPT !.at = "copy", !.xid = x, !.rp = e]]
       PROVE  ServerInv'
  <2> DEFINE act == [Idle EXCEPT !.at = "copy", !.xid = x, !.rp = e]
             ent == [c EXCEPT !.LOCKED = TRUE]
  <2>1. act \in Activity /\ act.at = "copy" /\ act.xid = x /\ act.rp = e
    BY <1>3 DEF Idle, Activity, Places
  <2>2. ent \in nfsrvcache_entry /\ ent.LOCKED /\ ent.xid = x /\ ent.rep = c.rep /\ ent.state = c.state
    BY <1>3 DEF nfsrvcache_entry
  <2>3. srv' = [srv EXCEPT ![d] = act] /\ nfsrvcache' = [nfsrvcache EXCEPT ![e] = ent]
    BY <1>8, <1>11
  <2> HIDE DEF act, ent
  <2>4. TypeOK'
    <3>1. srv' \in [Nfsds -> Activity] /\ nfsrvcache' \in [Entry -> nfsrvcache_entry]
      BY <1>2, <1>3, <2>1, <2>2, <2>3, OneOfEach
    <3> QED
      BY <1>1, <1>2, <1>5, <1>11, <3>1, Zenon DEF TypeOK
  <2>5. c.rep = x
    BY <1>3, <1>8, <1>11 DEF ServerInv, EntriesAsked
  <2>6. c.state = "DONE"
    <3>1. c.state # "UNUSED"
      BY <1>3, <1>8, ServerAssumption DEF ServerInv, EntriesAsked, Xid
    <3>2. c.state # "INPROG"
      BY <1>11 DEF Dropped
    <3> QED
      BY <1>3, <3>1, <3>2 DEF nfsrvcache_entry
  <2>7. ASSUME x \notin lost PROVE KeepsTrack(x)'
    <3>1. /\ srv'[d] = act /\ \A b \in Nfsds \ {d} : srv'[b] = srv[b]
          /\ nfsrvcache'[e] = ent /\ \A f \in Entry \ {e} : nfsrvcache'[f] = nfsrvcache[f]
      BY <1>2, <1>3, <2>3 DEF TypeOK
    <3> QED
      BY <1>1, <1>3, <1>4, <1>8, <2>1, <2>2, <2>5, <2>6, <2>7, <3>1
      DEF ServerInv, Tracked, KeepsTrack
  <2>8. /\ ent.rep = x /\ ent.state # "UNUSED" /\ act.at \notin {"exec", "updcopy"}
        /\ ent.rep \in {0, nfsrvcache[e].rep} /\ nfsrvcache[e].xid = x /\ ~nfsrvcache[e].LOCKED
        /\ ent.LOCKED <=> act.at \in {"copy", "updcopy"}
    BY <1>3, <1>8, <1>11, <2>1, <2>2, <2>5, <2>6
  <2>9. UNCHANGED <<calls, lost>>
    BY <1>1
  <2> QED
    BY <1>3, <1>4, <2>1, <2>2, <2>3, <2>4, <2>7, <2>8, <2>9, EntryInv
<1>12. ASSUME ~c.LOCKED, ~Dropped(c), c.rep = 0, lru' = put_at_head(e),
              nfsrvcache' = [nfsrvcache EXCEPT ![e].state = "INPROG"],
              srv' = [srv EXCEPT ![d] = [Idle EXCEPT !.at = "exec", !.xid = x]]
       PROVE  ServerInv'
  <2> DEFINE act == [Idle EXCEPT !.at = "exec", !.xid = x]
             ent == [c EXCEPT !.state = "INPROG"]
  <2>1. act \in Activity /\ act.at = "exec" /\ act.xid = x
    BY <1>3 DEF Idle, Activity, Places
  <2>2. /\ ent \in nfsrvcache_entry /\ ~ent.LOCKED /\ ent.xid = x /\ ent.rep = 0
        /\ ent.state = "INPROG"
    BY <1>3, <1>12 DEF nfsrvcache_entry
  <2>3. srv' = [srv EXCEPT ![d] = act] /\ nfsrvcache' = [nfsrvcache EXCEPT ![e] = ent]
    BY <1>8, <1>12
  <2> HIDE DEF act, ent
  <2>4. TypeOK'
    <3>1. srv' \in [Nfsds -> Activity] /\ nfsrvcache' \in [Entry -> nfsrvcache_entry]
      BY <1>2, <1>3, <2>1, <2>2, <2>3, OneOfEach
    <3> QED
      BY <1>1, <1>2, <1>5, <1>12, <3>1, Zenon DEF TypeOK
  <2>5. ASSUME x \notin lost PROVE KeepsTrack(x)'
    <3>1. c.state # "INPROG"
      BY <1>12 DEF Dropped
    <3>2. /\ srv'[d] = act /\ \A b \in Nfsds \ {d} : srv'[b] = srv[b]
          /\ nfsrvcache'[e] = ent /\ \A f \in Entry \ {e} : nfsrvcache'[f] = nfsrvcache[f]
      BY <1>2, <1>3, <2>3 DEF TypeOK
    <3>3. \A b \in Nfsds : ~(srv[b].xid = x /\ srv[b].at = "exec")
      BY <1>3, <1>8, <2>5, <3>1 DEF ServerInv, Tracked, KeepsTrack
    <3>4. ~(x \in NonIdempotent /\ executed[x] > 0)
      BY <1>3, <1>8, <1>12, <2>5 DEF ServerInv, Tracked, KeepsTrack, Xid
    <3> QED
      BY <1>1, <1>3, <1>4, <1>8, <2>1, <2>2, <2>5, <3>1, <3>2, <3>3, <3>4
      DEF ServerInv, Tracked, KeepsTrack
  <2> QED
    BY <1>1, <1>3, <1>4, <1>8, <1>12, <2>1, <2>2, <2>3, <2>4, <2>5, EntryInv
<1> QED
  BY <1>7, <1>9, <1>10, <1>11, <1>12

\* The oldest entry, which nobody has locked, becomes the one of x; x is lost track of if
\* another entry may have it.
LEMMA RecycleInv ==
  ASSUME ServerInv, NEW d \in Nfsds, NEW x \in Xid, NEW e \in Entry, NEW unsure \in SUBSET {x},
         Recycle(d, x, e, unsure), ~nfsrvcache[e].LOCKED, x \in calls,
         ~Copying(d), srv[d].at # "exec",
         unsure = {} => \A f \in Entry : nfsrvcache[f].xid # x,
         UNCHANGED <<calls, replies, reboots, executed>>
  PROVE  ServerInv'
<1> USE DEF ServerInv
<1> DEFINE act == [Idle EXCEPT !.at = "exec", !.xid = x]
           ent == [nfsrvcache[e] EXCEPT !.xid = x, !.state = "INPROG", !.rep = 0,
                                        !.LOCKED = FALSE, !.WANTED = FALSE]
<1>1. TypeOK /\ nfsrvcache[e] \in nfsrvcache_entry
  BY DEF EntrySleepersCovered, TypeOK
<1>2. act \in Activity /\ act.at = "exec" /\ act.xid = x
  BY DEF Idle, Activity, Places
<1>3. /\ ent \in nfsrvcache_entry /\ ent.xid = x /\ ent.state = "INPROG" /\ ent.rep = 0
      /\ ~ent.LOCKED
  BY <1>1 DEF nfsrvcache_entry
<1>4. srv' = [srv EXCEPT ![d] = act] /\ nfsrvcache' = [nfsrvcache EXCEPT ![e] = ent]
  BY <1>1 DEF Recycle, nfsrvcache_entry, TypeOK
<1> HIDE DEF act, ent
<1>5. /\ srv' \in [Nfsds -> Activity] /\ nfsrvcache' \in [Entry -> nfsrvcache_entry]
      /\ srv'[d] = act /\ \A b \in Nfsds \ {d} : srv'[b] = srv[b]
      /\ nfsrvcache'[e] = ent /\ \A f \in Entry \ {e} : nfsrvcache'[f] = nfsrvcache[f]
  BY <1>1, <1>2, <1>3, <1>4, OneOfEach
<1>6. lost' = lost \cup ({nfsrvcache[e].xid} \ {0}) \cup unsure
  BY DEF Recycle
<1>7. lost' \subseteq calls
  BY <1>6 DEF EntriesAsked
<1>8. TypeOK'
  <2>1. lru' = put_at_head(e)
    BY DEF Recycle
  <2>2. lru' \in [Entry -> Entry] /\ \A f \in Entry : \E i \in Entry : lru'[i] = f
    BY ZenonT(30), <1>1, <2>1, HeadTypes
  <2>3. lost' \subseteq Xid
    BY <1>1, <1>7 DEF TypeOK
  <2> QED
    BY <1>1, <1>5, <2>2, <2>3, Zenon DEF TypeOK
<1>9. \A c \in Nfsds : srv[c].at \in {"copy", "updcopy", "hitwait", "misswait", "updwait"}
        => srv[c].rp # e /\ srv[c].rp \in Entry
  BY DEF EntrySleepersCovered, OneHolder, Copying, NfsdsAsked, NfsdAsked
<1>10. EntrySleepersCovered'
  <2>1. ASSUME NEW c \in Nfsds, srv'[c].at \in {"hitwait", "misswait", "updwait"}
        PROVE  nfsrvcache'[srv'[c].rp].LOCKED /\ nfsrvcache'[srv'[c].rp].WANTED
    BY <1>2, <1>5, <1>9, <2>1 DEF EntrySleepersCovered
  <2>2. ASSUME NEW f \in Entry, nfsrvcache'[f].LOCKED
        PROVE  \E c \in Nfsds : srv'[c].rp = f /\ srv'[c].at \in {"copy", "updcopy"}
    <3>1. PICK c \in Nfsds : srv[c].rp = f /\ srv[c].at \in {"copy", "updcopy"}
      BY <1>3, <1>5, <2>2 DEF EntrySleepersCovered
    <3> QED
      BY <1>5, <3>1 DEF Copying
  <2> QED
    BY <1>8, <2>1, <2>2 DEF EntrySleepersCovered
<1>11. OneHolder'
  <2>1. \A c \in Nfsds : Copying(c)' =>
          c # d /\ Copying(c) /\ srv'[c] = srv[c] /\ nfsrvcache'[srv[c].rp] = nfsrvcache[srv[c].rp]
    BY <1>2, <1>5, <1>9 DEF Copying
  <2> QED
    BY <2>1 DEF OneHolder
<1>12. NfsdsAsked'
  <2>1. ASSUME NEW c \in Nfsds
        PROVE  NfsdAsked(c)'
    <3>1. CASE c = d
      BY <1>2, <1>5, <3>1 DEF NfsdAsked
    <3>2. CASE c # d
      BY <1>5, <1>9, <3>2 DEF NfsdsAsked, NfsdAsked
    <3> QED
      BY <3>1, <3>2
  <2> QED
    BY <2>1 DEF NfsdsAsked
<1>13. EntriesAsked'
  BY <1>3, <1>5 DEF EntriesAsked
<1>14. Tracked'
  <2>1. ASSUME NEW y \in Xid \ lost'
        PROVE  KeepsTrack(y)'
    <3>1. y \notin lost /\ y # nfsrvcache[e].xid
      BY <1>6, <2>1, ServerAssumption DEF Xid
    <3>2. KeepsTrack(y)
      BY <3>1 DEF Tracked
    <3>3. CASE y = x
      <4>1. unsure = {}
        BY <1>6, <2>1, <3>3
      <4>2. \A f \in Entry : nfsrvcache[f].xid # x
        BY <4>1
      <4> QED
        BY <1>2, <1>3, <1>5, <3>2, <3>3, <4>2 DEF KeepsTrack
    <3>4. CASE y # x
      <4>1. \A f \in Entry : nfsrvcache[f].xid = y \/ nfsrvcache'[f].xid = y => nfsrvcache'[f] = nfsrvcache[f]
        BY <1>3, <1>5, <3>1, <3>4
      <4>2. \A c \in Nfsds : srv'[c].xid = y /\ srv'[c].at \in {"exec", "update", "updwait"} =>
               srv'[c] = srv[c]
        BY <1>2, <1>5, <3>4
      <4>3. \A c \in Nfsds : srv[c].xid = y /\ srv[c].at = "exec" => srv'[c] = srv[c]
        BY <1>5
      <4> QED
        BY <3>2, <4>1, <4>2, <4>3 DEF KeepsTrack
    <3> QED
      BY <3>3, <3>4
  <2> QED
    BY <2>1 DEF Tracked
<1> QED
  BY <1>7, <1>10, <1>11, <1>12, <1>13, <1>14

\* nfsrv_getcache() finds no entry.
LEMMA MissInv ==
  ASSUME ServerInv, NEW d \in Nfsds, NEW x \in Xid, getcache_miss(d, x)
  PROVE  ServerInv'
<1> DEFINE e == lru[CacheSize]
<1>1. TypeOK
  BY DEF ServerInv, EntrySleepersCovered
<1>2. e \in Entry
  <2>1. CacheSize \in Entry
    BY ServerAssumption DEF Entry
  <2> QED
    BY <1>1, <2>1 DEF TypeOK
<1>3. /\ Got(d, x) /\ UNCHANGED <<calls, replies, reboots, executed>>
      /\ \A f \in Entry : nfsrvcache[f].xid # x
  BY <1>1, HitFacts DEF getcache_miss
<1>4. /\ x \in calls /\ ~Copying(d) /\ srv[d].at # "exec" /\ Carried(x)
  BY <1>3, GotFacts
<1>5. \/ nfsrvcache[e].LOCKED /\ Sleep(d, x, e, "misswait", FALSE) /\ UNCHANGED <<lru, lost>>
      \/ ~nfsrvcache[e].LOCKED /\ Recycle(d, x, e, {})
  BY DEF getcache_miss
<1> HIDE DEF e
<1>6. CASE nfsrvcache[e].LOCKED /\ Sleep(d, x, e, "misswait", FALSE) /\ UNCHANGED <<lru, lost>>
  <2>1. replies' \subseteq [xid : Xid, of : Xid]
    BY <1>1, <1>3 DEF TypeOK
  <2> QED
    BY <1>2, <1>3, <1>4, <1>6, <2>1, SleepInv
<1>7. CASE ~nfsrvcache[e].LOCKED /\ Recycle(d, x, e, {})
  BY <1>2, <1>3, <1>4, <1>7, RecycleInv
<1> QED
  BY <1>5, <1>6, <1>7

\* Back from the sleep for the oldest entry.
LEMMA AgainInv ==
  ASSUME ServerInv, NEW d \in Nfsds, getcache_again(d)
  PROVE  ServerInv'
<1> DEFINE e == srv[d].rp
           x == srv[d].xid
<1>1. TypeOK
  BY DEF ServerInv, EntrySleepersCovered
<1>2. e \in Entry /\ x \in calls /\ x \in Xid /\ ~Copying(d) /\ srv[d].at # "exec"
  BY <1>1 DEF getcache_again, ServerInv, NfsdsAsked, NfsdAsked, Copying, TypeOK
<1>3. UNCHANGED <<calls, replies, reboots, executed>> /\ Carried(x)
  BY <1>1 DEF getcache_again, Carried, TypeOK
<1>4. \/ nfsrvcache[e].LOCKED /\ Sleep(d, x, e, "misswait", FALSE) /\ UNCHANGED <<lru, lost>>
      \/ ~nfsrvcache[e].LOCKED /\ Recycle(d, x, e, {x})
  BY DEF getcache_again
<1> HIDE DEF e, x
<1>5. CASE nfsrvcache[e].LOCKED /\ Sleep(d, x, e, "misswait", FALSE) /\ UNCHANGED <<lru, lost>>
  <2>1. replies' \subseteq [xid : Xid, of : Xid]
    BY <1>1, <1>3 DEF TypeOK
  <2> QED
    BY <1>2, <1>3, <1>5, <2>1, SleepInv
<1>6. CASE ~nfsrvcache[e].LOCKED /\ Recycle(d, x, e, {x})
  <2>1. {x} \in SUBSET {x} /\ {x} # {}
    OBVIOUS
  <2> QED
    BY <1>2, <1>3, <1>6, <2>1, RecycleInv
<1> QED
  BY <1>4, <1>5, <1>6

\* The entry e is unlocked, with the reply of its request: who slept for it goes on.
LEMMA UnlockInv ==
  ASSUME ServerInv, NEW d \in Nfsds, NEW e \in Entry, NEW ent \in nfsrvcache_entry, Copying(d),
         srv[d].rp = e, nfsrvcache' = [nfsrvcache EXCEPT ![e] = ent],
         ent.xid = nfsrvcache[e].xid, ent.rep = ent.xid, ent.state = nfsrvcache[e].state,
         ~ent.LOCKED, executed[ent.xid] > 0, srv' = Woken(d, Idle, e),
         replies' \subseteq [xid : Xid, of : Xid],
         UNCHANGED <<calls, lru, reboots, executed, lost>>
  PROVE  ServerInv'
<1> USE DEF ServerInv
<1>1. TypeOK
  BY DEF EntrySleepersCovered
<1>2. /\ nfsrvcache' \in [Entry -> nfsrvcache_entry]
      /\ nfsrvcache'[e] = ent /\ \A f \in Entry \ {e} : nfsrvcache'[f] = nfsrvcache[f]
  BY <1>1 DEF TypeOK
<1>3. /\ srv'[d] = Idle /\ Idle.at = "idle" /\ Idle \in Activity
      /\ \A c \in Nfsds \ {d} :
           srv'[c] = IF nfsrvcache[e].WANTED /\ Asleep(srv[c], e)
                     THEN [srv[c] EXCEPT !.at = Resumed(srv[c].at)] ELSE srv[c]
  BY DEF Woken, Idle, Activity, Places
<1>4. ASSUME NEW c \in Nfsds \ {d}
      PROVE  /\ srv'[c] \in Activity
             /\ srv'[c].xid = srv[c].xid /\ srv'[c].rp = srv[c].rp /\ srv'[c].repvalid = srv[c].repvalid
             /\ Waiting(c) /\ srv[c].rp = e => srv'[c].at = Resumed(srv[c].at)
             /\ ~(Waiting(c) /\ srv[c].rp = e) => srv'[c].at = srv[c].at
  <2>1. srv[c] \in Activity
    BY <1>1 DEF TypeOK
  <2>2. CASE Waiting(c) /\ srv[c].rp = e
    <3>1. nfsrvcache[e].WANTED
      BY <2>2 DEF EntrySleepersCovered, Waiting
    <3>2. srv'[c] = [srv[c] EXCEPT !.at = Resumed(srv[c].at)]
      BY <1>3, <2>2, <3>1 DEF Waiting, Asleep
    <3>3. Resumed(srv[c].at) \in Places
      BY <2>2 DEF Waiting, Resumed, Places
    <3> QED
      BY <2>1, <2>2, <3>2, <3>3 DEF Activity
  <2>3. CASE ~(Waiting(c) /\ srv[c].rp = e)
    <3>1. srv'[c] = srv[c]
      BY <1>3, <2>3 DEF Waiting, Asleep
    <3> QED
      BY <2>1, <2>3, <3>1
  <2> QED
    BY <2>2, <2>3
<1>5. TypeOK'
  <2>1. srv' \in [Nfsds -> Activity]
    BY <1>3, <1>4 DEF Woken
  <2> QED
    BY <1>1, <1>2, <2>1, Zenon DEF TypeOK
<1>6. \A c \in Nfsds \ {d} : Copying(c) => srv[c].rp # e
  BY DEF OneHolder
<1>7. \A c \in Nfsds : Copying(c)' =>
         c # d /\ Copying(c) /\ srv'[c].at = srv[c].at /\ srv[c].rp # e /\ srv[c].rp \in Entry
  <2> TAKE c \in Nfsds
  <2> HAVE Copying(c)'
  <2>1. c # d
    BY <1>3 DEF Copying
  <2>2. ~(Waiting(c) /\ srv[c].rp = e)
    BY <1>4, <2>1 DEF Copying, Waiting, Resumed
  <2> QED
    BY <1>4, <1>6, <2>1, <2>2 DEF Copying, OneHolder
<1>8. EntrySleepersCovered'
  <2>1. ASSUME NEW c \in Nfsds, srv'[c].at \in {"hitwait", "misswait", "updwait"}
        PROVE  nfsrvcache'[srv'[c].rp].LOCKED /\ nfsrvcache'[srv'[c].rp].WANTED
    <3>1. c # d /\ ~(Waiting(c) /\ srv[c].rp = e)
      BY <1>3, <1>4, <2>1 DEF Waiting, Resumed
    <3>2. Waiting(c) /\ srv[c].rp # e /\ srv[c].rp \in Entry
      BY <1>4, <2>1, <3>1 DEF Waiting, NfsdsAsked, NfsdAsked
    <3> QED
      BY <1>2, <1>4, <3>1, <3>2 DEF EntrySleepersCovered, Waiting
  <2>2. ASSUME NEW f \in Entry, nfsrvcache'[f].LOCKED
        PROVE  \E c \in Nfsds : srv'[c].rp = f /\ srv'[c].at \in {"copy", "updcopy"}
    <3>1. f # e /\ nfsrvcache[f].LOCKED
      BY <1>2, <2>2
    <3>2. PICK c \in Nfsds : srv[c].rp = f /\ srv[c].at \in {"copy", "updcopy"}
      BY <3>1 DEF EntrySleepersCovered
    <3> QED
      BY <1>4, <3>1, <3>2
  <2> QED
    BY <1>5, <2>1, <2>2 DEF EntrySleepersCovered
<1>9. OneHolder'
  BY <1>2, <1>4, <1>7 DEF OneHolder, Copying
<1>10. NfsdsAsked'
  <2>1. ASSUME NEW c \in Nfsds
        PROVE  NfsdAsked(c)'
    <3>1. CASE c = d
      BY <1>3, <3>1 DEF NfsdAsked
    <3>2. CASE c # d /\ Waiting(c) /\ srv[c].rp = e
      <4>1. srv[c].at = "hitwait" => srv'[c].at = "look"
        BY <1>4, <3>2 DEF Resumed
      <4>2. srv[c].at = "misswait" => srv'[c].at = "miss"
        BY <1>4, <3>2 DEF Resumed
      <4>3. srv[c].at = "updwait" => srv'[c].at = "update"
        BY <1>4, <3>2 DEF Resumed
      <4> QED
        BY <1>4, <3>2, <4>1, <4>2, <4>3 DEF NfsdsAsked, NfsdAsked, Waiting
    <3>3. CASE c # d /\ ~(Waiting(c) /\ srv[c].rp = e)
      <4>1. srv'[c].at = "copy" => nfsrvcache'[srv[c].rp] = nfsrvcache[srv[c].rp]
        BY <1>2, <1>7 DEF Copying
      <4> QED
        BY <1>4, <3>3, <4>1 DEF NfsdsAsked, NfsdAsked
    <3> QED
      BY <3>1, <3>2, <3>3
  <2> QED
    BY <2>1 DEF NfsdsAsked
<1>11. EntriesAsked'
  BY <1>2 DEF EntriesAsked
<1>12. Tracked'
  <2>1. ASSUME NEW y \in Xid \ lost
        PROVE  KeepsTrack(y)'
    <3>1. KeepsTrack(y)
      BY DEF Tracked
    <3>2. \A c \in Nfsds : srv'[c].at \in {"exec", "update", "updwait"} /\ srv'[c].xid = y =>
            srv'[c].at = "exec" /\ srv[c].at = "exec" /\ srv[c].xid = y
      <4> TAKE c \in Nfsds
      <4> HAVE srv'[c].at \in {"exec", "update", "updwait"} /\ srv'[c].xid = y
      <4>1. c # d
        BY <1>3
      <4>2. srv[c].xid = y /\ srv[c].at # "updwait"
        BY <1>4, <3>1, <4>1 DEF KeepsTrack
      <4> QED
        BY <1>4, <3>1, <4>1, <4>2 DEF KeepsTrack, Waiting, Resumed
    <3>3. \A c \in Nfsds : srv[c].at = "exec" /\ srv[c].xid = y => srv'[c].at = "exec" /\ srv'[c].xid = y
      BY <1>4 DEF Waiting, Copying
    <3>4. nfsrvcache[e].LOCKED
      BY DEF OneHolder
    <3> QED
      BY <1>2, <3>1, <3>2, <3>3, <3>4 DEF KeepsTrack
  <2> QED
    BY <2>1 DEF Tracked
<1> QED
  BY <1>8, <1>9, <1>10, <1>11, <1>12

\* The copy of a kept reply is sent.
LEMMA ReplyInv ==
  ASSUME ServerInv, NEW d \in Nfsds, getcache_reply(d)
  PROVE  ServerInv'
<1> DEFINE e == srv[d].rp
           x == srv[d].xid
           ent == [nfsrvcache[e] EXCEPT !.LOCKED = FALSE, !.WANTED = FALSE, !.recent = TRUE]
<1>1. /\ srv[d].at = "copy" /\ srv' = Woken(d, Idle, e)
      /\ replies' = replies \cup {[xid |-> x, of |-> nfsrvcache[e].rep]}
      /\ nfsrvcache' = [nfsrvcache EXCEPT ![e] = [Unlocked(@) EXCEPT !.recent = TRUE]]
      /\ UNCHANGED <<calls, lru, reboots, executed, lost>>
  BY DEF getcache_reply
<1>2. TypeOK /\ Copying(d)
  BY <1>1 DEF ServerInv, EntrySleepersCovered, Copying
<1>3. /\ e \in Entry /\ nfsrvcache[e] \in nfsrvcache_entry /\ x \in Xid
      /\ nfsrvcache[e].xid = x /\ nfsrvcache[e].rep = x /\ executed[x] > 0
  <2>1. e \in Entry /\ nfsrvcache[e].xid = x
    BY <1>2 DEF ServerInv, OneHolder
  <2>2. nfsrvcache[e].rep = x /\ x \in calls
    BY <1>1 DEF ServerInv, NfsdsAsked, NfsdAsked
  <2>3. x \in Xid
    BY <1>2, <2>2 DEF TypeOK
  <2> QED
    BY <1>2, <2>1, <2>2, <2>3, ServerAssumption DEF ServerInv, EntriesAsked, TypeOK, Xid
<1>4. /\ ent \in nfsrvcache_entry /\ ent.xid = x /\ ent.rep = x /\ ent.state = nfsrvcache[e].state
      /\ ~ent.LOCKED /\ nfsrvcache' = [nfsrvcache EXCEPT ![e] = ent]
  BY <1>1, <1>2, <1>3 DEF Unlocked, nfsrvcache_entry, TypeOK
<1>5. replies' \subseteq [xid : Xid, of : Xid]
  BY <1>1, <1>2, <1>3 DEF TypeOK
<1>6. srv[d].rp = e
  OBVIOUS
<1> HIDE DEF ent, e, x
<1> QED
  BY <1>1, <1>2, <1>3, <1>4, <1>5, <1>6, UnlockInv

\* The copy of a new reply is kept and sent.
LEMMA CopiedInv ==
  ASSUME ServerInv, NEW d \in Nfsds, updatecache_copied(d)
  PROVE  ServerInv'
<1> DEFINE e == srv[d].rp
           x == srv[d].xid
           ent == [nfsrvcache[e] EXCEPT !.LOCKED = FALSE, !.WANTED = FALSE, !.rep = x]
<1>1. /\ srv[d].at = "updcopy" /\ srv' = Woken(d, Idle, e) /\ Answer(x, TRUE)
      /\ nfsrvcache' = [nfsrvcache EXCEPT ![e] = [Unlocked(@) EXCEPT !.rep = x]]
      /\ UNCHANGED <<calls, lru, reboots, executed, lost>>
  BY DEF updatecache_copied
<1>2. TypeOK /\ Copying(d)
  BY <1>1 DEF ServerInv, EntrySleepersCovered, Copying
<1>3. /\ e \in Entry /\ nfsrvcache[e] \in nfsrvcache_entry /\ x \in Xid
      /\ nfsrvcache[e].xid = x /\ executed[x] > 0
  <2>1. e \in Entry /\ nfsrvcache[e].xid = x
    BY <1>2 DEF ServerInv, OneHolder
  <2>2. x \in calls /\ executed[x] > 0
    BY <1>1 DEF ServerInv, NfsdsAsked, NfsdAsked
  <2> QED
    BY <1>2, <2>1, <2>2 DEF TypeOK
<1>4. /\ ent \in nfsrvcache_entry /\ ent.xid = x /\ ent.rep = x /\ ent.state = nfsrvcache[e].state
      /\ ~ent.LOCKED /\ nfsrvcache' = [nfsrvcache EXCEPT ![e] = ent]
  BY <1>1, <1>2, <1>3 DEF Unlocked, nfsrvcache_entry, TypeOK
<1>5. replies' \subseteq [xid : Xid, of : Xid]
  BY <1>1, <1>2, <1>3 DEF TypeOK, Answer
<1>6. srv[d].rp = e
  OBVIOUS
<1> HIDE DEF ent, e, x
<1> QED
  BY <1>1, <1>2, <1>3, <1>4, <1>5, <1>6, UnlockInv

\* What the history becomes when a procedure returns.
LEMMA ExecutedFacts ==
  ASSUME ServerInv, NEW d \in Nfsds, NEW valid \in BOOLEAN, NEW x, x = srv[d].xid,
         Executed(d, x, valid)
  PROVE  /\ srv[d].at \in {"exec", "update"} /\ x \in calls /\ x \in Xid
         /\ Carried(x)
         /\ valid => executed'[x] > 0
         /\ ~valid => executed' = executed
         /\ srv[d].at = "update" => x \in lost /\ executed' = executed
<1>1. TypeOK
  BY DEF ServerInv, EntrySleepersCovered
<1>2. srv[d].at \in {"exec", "update"}
  BY DEF Executed
<1>3. x \in calls /\ x \in Xid
  BY <1>1, <1>2 DEF ServerInv, NfsdsAsked, NfsdAsked, TypeOK
<1>4. srv[d].at = "update" => x \in lost /\ executed' = executed
  BY <1>3 DEF Executed, ServerInv, Tracked, KeepsTrack
<1>5. CASE executed' = executed
  <2>1. Carried(x)
    BY <1>1, <1>5 DEF Carried, TypeOK
  <2>2. ASSUME valid PROVE executed'[x] > 0
    <3>1. CASE srv[d].at = "update"
      BY <2>2, <3>1 DEF Executed, ServerInv, NfsdsAsked, NfsdAsked
    <3>2. CASE srv[d].at = "exec"
      <4>1. executed' = [executed EXCEPT ![x] = Again(x, @)]
        BY <2>2, <3>2 DEF Executed
      <4> QED
        BY <1>1, <1>3, <4>1 DEF TypeOK, Again
    <3> QED
      BY <1>2, <3>1, <3>2
  <2> QED
    BY <1>2, <1>3, <1>4, <1>5, <2>1, <2>2
<1>6. CASE srv[d].at = "exec" /\ valid /\ executed' = [executed EXCEPT ![x] = Again(x, @)]
  <2>1. Carried(x) /\ executed'[x] > 0
    BY <1>1, <1>3, <1>6 DEF Carried, TypeOK, Again
  <2> QED
    BY <1>3, <1>6, <2>1
<1> QED
  BY <1>5, <1>6 DEF Executed

\* nfsrv_updatecache(): there is no entry, or it is locked, or it is done.
LEMMA UpdateInv ==
  ASSUME ServerInv, NEW d \in Nfsds, NEW valid \in BOOLEAN, nfsrv_updatecache(d, valid)
  PROVE  ServerInv'
<1>0. PICK x : x = srv[d].xid
  OBVIOUS
<1> DEFINE e == Hit(x)
           c == nfsrvcache[e]
<1>1. /\ Executed(d, x, valid) /\ Update(d, x, valid)
      /\ UNCHANGED <<calls, lru, reboots, lost>>
  BY <1>0 DEF nfsrv_updatecache
<1>2. /\ srv[d].at \in {"exec", "update"} /\ x \in calls /\ x \in Xid
      /\ Carried(x)
      /\ valid => executed'[x] > 0
      /\ ~valid => executed' = executed
      /\ srv[d].at = "update" => x \in lost /\ executed' = executed
  BY <1>0, <1>1, ExecutedFacts
<1>3. TypeOK
  BY DEF ServerInv, EntrySleepersCovered
<1>4. ~Copying(d)
  BY <1>2 DEF Copying
<1>5. ASSUME replies' = replies \/ Answer(x, valid)
      PROVE  replies' \subseteq [xid : Xid, of : Xid]
  BY <1>2, <1>3, <1>5 DEF TypeOK, Answer
<1>6. CASE Chain(x) = {}
  <2>1. Answer(x, valid) /\ srv' = [srv EXCEPT ![d] = Idle] /\ UNCHANGED nfsrvcache
    BY <1>1, <1>6 DEF Update
  <2>2. \A f \in Entry : nfsrvcache[f].xid # x
    BY <1>2, <1>3, <1>6, HitFacts
  <2>3. x \in lost
    BY <1>0, <1>2, <2>2 DEF ServerInv, Tracked, KeepsTrack
  <2>4. TypeOK'
    <3>1. srv' \in [Nfsds -> Activity]
      BY <1>3, <2>1 DEF TypeOK, Idle, Activity, Places
    <3>2. replies' \subseteq [xid : Xid, of : Xid]
      BY <1>5, <2>1
    <3> QED
      BY <1>1, <1>2, <1>3, <2>1, <3>1, <3>2, Zenon DEF TypeOK, Carried
  <2> QED
    BY <1>0, <1>1, <1>2, <1>4, <2>1, <2>3, <2>4, IdleInv
<1>7. CASE Chain(x) # {}
  <2>1. e \in Entry /\ c.xid = x /\ c \in nfsrvcache_entry
    BY <1>2, <1>3, <1>7, HitFacts DEF TypeOK
  <2>2. \/ c.LOCKED /\ Sleep(d, x, e, "updwait", valid) /\ UNCHANGED replies
        \/ /\ ~c.LOCKED /\ ~Kept(x, valid)
           /\ nfsrvcache' = [nfsrvcache EXCEPT ![e].state = "DONE", ![e].recent = valid]
           /\ Answer(x, valid) /\ srv' = [srv EXCEPT ![d] = Idle]
        \/ /\ ~c.LOCKED /\ Kept(x, valid)
           /\ nfsrvcache' = [nfsrvcache EXCEPT ![e].state = "DONE", ![e].recent = TRUE,
                                               ![e].LOCKED = TRUE]
           /\ srv' = [srv EXCEPT ![d].at = "updcopy", ![d].rp = e]
           /\ UNCHANGED replies
    BY <1>1, <1>7 DEF Update
  <2>3. srv[d].xid = x /\ nfsrvcache[e] = c /\ srv[d] \in Activity
    BY <1>0, <1>3 DEF TypeOK
  <2> HIDE DEF e, c
  <2>4. x \notin lost => /\ srv[d].at = "exec" /\ c.state = "INPROG" /\ ~c.LOCKED
                         /\ \A b \in Nfsds : srv[b].xid = x /\ srv[b].at = "exec" => b = d
                         /\ \A f \in Entry : nfsrvcache[f].xid = x => f = e
                         /\ ~(x \in NonIdempotent /\ executed[x] > 0)
    BY <1>2, <2>1, <2>3 DEF ServerInv, Tracked, KeepsTrack
  <2>5. CASE c.LOCKED /\ Sleep(d, x, e, "updwait", valid) /\ UNCHANGED replies
    <3>1. x \in lost
      BY <2>4, <2>5
    <3>2. replies' \subseteq [xid : Xid, of : Xid]
      BY <1>3, <2>5 DEF TypeOK
    <3> QED
      BY <1>1, <1>2, <1>4, <2>1, <2>3, <2>5, <3>1, <3>2, SleepInv
  <2>6. ASSUME NEW act \in Activity, NEW ent \in nfsrvcache_entry, ~c.LOCKED,
               srv' = [srv EXCEPT ![d] = act], nfsrvcache' = [nfsrvcache EXCEPT ![e] = ent],
               ent.xid = x, ent.state = "DONE", ent.rep = c.rep, ent.LOCKED = Kept(x, valid),
               IF Kept(x, valid) THEN act.at = "updcopy" /\ act.rp = e /\ act.xid = x
                                 ELSE act.at = "idle",
               replies' = replies \/ Answer(x, valid)
        PROVE  ServerInv'
    <3>1. /\ srv' \in [Nfsds -> Activity] /\ nfsrvcache' \in [Entry -> nfsrvcache_entry]
          /\ srv'[d] = act /\ \A b \in Nfsds \ {d} : srv'[b] = srv[b]
          /\ nfsrvcache'[e] = ent /\ \A f \in Entry \ {e} : nfsrvcache'[f] = nfsrvcache[f]
      BY <1>3, <2>1, <2>6, OneOfEach
    <3>2. replies' \subseteq [xid : Xid, of : Xid]
      BY <1>5, <2>6
    <3>3. TypeOK'
      BY <1>1, <1>2, <1>3, <3>1, <3>2, Zenon DEF TypeOK, Carried
    <3>4. ASSUME x \notin lost PROVE KeepsTrack(x)'
      <4>1. \A b \in Nfsds : srv'[b].xid = x => srv'[b].at \notin {"exec", "update", "updwait"}
        BY <1>2, <2>4, <2>6, <3>1, <3>4 DEF ServerInv, Tracked, KeepsTrack
      <4>2. x \in NonIdempotent /\ executed'[x] > 0 => ent.LOCKED
        BY <1>2, <2>4, <2>6, <3>4 DEF Kept
      <4>3. \A f \in Entry : nfsrvcache'[f].xid = x => f = e
        BY <2>4, <3>1, <3>4
      <4>4. nfsrvcache'[e] = ent /\ ent.xid = x /\ ent.state = "DONE"
        BY <2>6, <3>1
      <4> QED
        BY <2>1, <4>1, <4>2, <4>3, <4>4 DEF KeepsTrack
    <3>5. /\ ent.LOCKED <=> act.at \in {"copy", "updcopy"}
          /\ act.at \in {"idle", "exec"} \/ (act.at \in {"copy", "updcopy"} /\ act.rp = e /\ act.xid = x)
          /\ act.at \notin {"exec", "copy"}
          /\ act.at = "updcopy" => executed'[x] > 0
      BY <1>2, <2>6 DEF Kept
    <3>6. UNCHANGED <<calls, lost>>
      BY <1>1
    <3>7. /\ ent.rep \in {0, nfsrvcache[e].rep} /\ ent.state # "UNUSED" /\ ent.xid = x
          /\ nfsrvcache[e].xid = x /\ ~nfsrvcache[e].LOCKED
          /\ srv' = [srv EXCEPT ![d] = act] /\ nfsrvcache' = [nfsrvcache EXCEPT ![e] = ent]
      BY <2>1, <2>3, <2>6
    <3> QED
      BY <1>2, <1>4, <2>1, <2>3, <3>3, <3>4, <3>5, <3>6, <3>7, EntryInv
  <2>7. CASE /\ ~c.LOCKED /\ ~Kept(x, valid)
             /\ nfsrvcache' = [nfsrvcache EXCEPT ![e].state = "DONE", ![e].recent = valid]
             /\ Answer(x, valid) /\ srv' = [srv EXCEPT ![d] = Idle]
    <3> DEFINE ent == [c EXCEPT !.state = "DONE", !.recent = valid]
    <3>1. /\ ent \in nfsrvcache_entry /\ ent.xid = x /\ ent.state = "DONE" /\ ent.rep = c.rep
          /\ ent.LOCKED = c.LOCKED
      BY <2>1 DEF nfsrvcache_entry
    <3>2. nfsrvcache' = [nfsrvcache EXCEPT ![e] = ent]
      BY <1>3, <2>1, <2>3, <2>7 DEF TypeOK, nfsrvcache_entry
    <3>3. Idle \in Activity /\ Idle.at = "idle"
      BY DEF Idle, Activity, Places
    <3>4. ent.LOCKED = Kept(x, valid)
      <4>1. c.LOCKED \in BOOLEAN /\ Kept(x, valid) \in BOOLEAN
        BY <2>1 DEF nfsrvcache_entry, Kept
      <4> QED
        BY <2>7, <3>1, <4>1
    <3> HIDE DEF ent
    <3> QED
      BY <2>6, <2>7, <3>1, <3>2, <3>3, <3>4
  <2>8. CASE /\ ~c.LOCKED /\ Kept(x, valid)
             /\ nfsrvcache' = [nfsrvcache EXCEPT ![e].state = "DONE", ![e].recent = TRUE,
                                                 ![e].LOCKED = TRUE]
             /\ srv' = [srv EXCEPT ![d].at = "updcopy", ![d].rp = e]
             /\ UNCHANGED replies
    <3> DEFINE ent == [c EXCEPT !.state = "DONE", !.recent = TRUE, !.LOCKED = TRUE]
               act == [srv[d] EXCEPT !.at = "updcopy", !.rp = e]
    <3>1. /\ ent \in nfsrvcache_entry /\ ent.xid = x /\ ent.state = "DONE" /\ ent.rep = c.rep
          /\ ent.LOCKED = TRUE
      BY <2>1 DEF nfsrvcache_entry
    <3>2. nfsrvcache' = [nfsrvcache EXCEPT ![e] = ent]
      BY <1>3, <2>1, <2>3, <2>8 DEF TypeOK, nfsrvcache_entry
    <3>3. act \in Activity /\ act.at = "updcopy" /\ act.rp = e /\ act.xid = x
      BY <2>1, <2>3 DEF Activity, Places
    <3>4. srv' = [srv EXCEPT ![d] = act]
      BY <1>3, <2>3, <2>8 DEF TypeOK, Activity
    <3>5. ent.LOCKED = Kept(x, valid)
      <4>1. Kept(x, valid) \in BOOLEAN
        BY DEF Kept
      <4> QED
        BY <2>8, <3>1, <4>1
    <3> HIDE DEF ent, act
    <3> QED
      BY <2>6, <2>8, <3>1, <3>2, <3>3, <3>4, <3>5
  <2> QED
    BY <2>2, <2>5, <2>7, <2>8
<1> QED
  BY <1>6, <1>7

-----------------------------------------------------------------------------
(* The clock, the crash, the clients and the network.                      *)

\* An entry is no longer recent.
LEMMA AgeInv ==
  ASSUME ServerInv, Age
  PROVE  ServerInv'
<1> USE DEF ServerInv
<1>1. PICK e \in Entry : nfsrvcache' = [nfsrvcache EXCEPT ![e].recent = FALSE]
  BY DEF Age
<1>2. UNCHANGED <<calls, replies, lru, srv, reboots, executed, lost>>
  BY DEF Age
<1>3. TypeOK
  BY DEF EntrySleepersCovered
<1>4. \A f \in Entry : /\ nfsrvcache'[f].xid = nfsrvcache[f].xid
                       /\ nfsrvcache'[f].state = nfsrvcache[f].state
                       /\ nfsrvcache'[f].rep = nfsrvcache[f].rep
                       /\ nfsrvcache'[f].LOCKED = nfsrvcache[f].LOCKED
                       /\ nfsrvcache'[f].WANTED = nfsrvcache[f].WANTED
                       /\ nfsrvcache'[f] \in nfsrvcache_entry
  <2>1. nfsrvcache[e] \in nfsrvcache_entry
    BY <1>3 DEF TypeOK
  <2>2. /\ nfsrvcache'[e] = [nfsrvcache[e] EXCEPT !.recent = FALSE]
        /\ \A f \in Entry \ {e} : nfsrvcache'[f] = nfsrvcache[f]
    BY <1>1, <1>3 DEF TypeOK
  <2>3. nfsrvcache'[e] \in nfsrvcache_entry
    BY <2>1, <2>2 DEF nfsrvcache_entry
  <2> QED
    BY <1>3, <2>1, <2>2, <2>3 DEF TypeOK, nfsrvcache_entry
<1>5. TypeOK'
  <2>1. nfsrvcache' \in [Entry -> nfsrvcache_entry]
    BY <1>1, <1>3, <1>4 DEF TypeOK
  <2> QED
    BY <1>2, <1>3, <2>1, Zenon DEF TypeOK
<1>6. EntrySleepersCovered'
  <2>1. \A d \in Nfsds : srv[d].at \in {"hitwait", "misswait", "updwait"} => srv[d].rp \in Entry
    BY DEF NfsdsAsked, NfsdAsked
  <2> QED
    BY <1>2, <1>4, <1>5, <2>1 DEF EntrySleepersCovered
<1>7. OneHolder'
  BY <1>2, <1>4 DEF OneHolder, Copying
<1>8. NfsdsAsked'
  <2>1. \A d \in Nfsds : srv[d].at = "copy" => srv[d].rp \in Entry
    BY DEF OneHolder, Copying
  <2> QED
    BY <1>2, <1>4, <2>1 DEF NfsdsAsked, NfsdAsked
<1>9. EntriesAsked'
  BY <1>2, <1>4 DEF EntriesAsked
<1>10. Tracked'
  BY <1>2, <1>4 DEF Tracked, KeepsTrack
<1> QED
  BY <1>2, <1>6, <1>7, <1>8, <1>9, <1>10

\* The server comes up again: every request that was in the cache is lost track of.
LEMMA RebootInv ==
  ASSUME ServerInv, Reboot
  PROVE  ServerInv'
<1> USE DEF ServerInv
<1>1. /\ reboots < MaxReboots /\ reboots' = reboots + 1
      /\ nfsrvcache' = [e \in Entry |-> Unused] /\ lru' = [i \in Entry |-> CacheSize + 1 - i]
      /\ srv' = [d \in Nfsds |-> Idle]
      /\ lost' = lost \cup ({nfsrvcache[e].xid : e \in Entry} \ {0})
      /\ UNCHANGED <<calls, replies, executed>>
  BY DEF Reboot, nfsrv_initcache
<1>2. TypeOK
  BY DEF EntrySleepersCovered
<1>3. lost' \subseteq calls
  BY <1>1 DEF EntriesAsked
<1>4. TypeOK'
  <2>1. Unused \in nfsrvcache_entry /\ Idle \in Activity
    BY DEF Unused, nfsrvcache_entry, Idle, Activity, Places
  <2>2. \A i \in Entry : CacheSize + 1 - i \in Entry
    BY ServerAssumption DEF Entry
  <2>3. lru' \in [Entry -> Entry]
    BY <1>1, <2>2
  <2>4. ASSUME NEW e \in Entry PROVE \E i \in Entry : lru'[i] = e
    <3>1. CacheSize + 1 - (CacheSize + 1 - e) = e
      BY ServerAssumption DEF Entry
    <3> QED
      BY <1>1, <2>2, <3>1
  <2>5. reboots' \in 0 .. MaxReboots
    BY <1>1, <1>2, ServerAssumption DEF TypeOK
  <2>6. lost' \subseteq Xid
    BY <1>2, <1>3 DEF TypeOK
  <2>7. srv' \in [Nfsds -> Activity] /\ nfsrvcache' \in [Entry -> nfsrvcache_entry]
    BY <1>1, <2>1
  <2> QED
    BY <1>1, <1>2, <2>3, <2>4, <2>5, <2>6, <2>7, Zenon DEF TypeOK
<1>5. \A e \in Entry : nfsrvcache'[e] = Unused
  BY <1>1
<1>6. \A d \in Nfsds : srv'[d] = Idle
  BY <1>1
<1>7. EntrySleepersCovered'
  BY <1>4, <1>5, <1>6 DEF EntrySleepersCovered, Unused, Idle
<1>8. OneHolder' /\ NfsdsAsked'
  BY <1>6 DEF OneHolder, NfsdsAsked, NfsdAsked, Copying, Idle
<1>9. EntriesAsked'
  BY <1>5 DEF EntriesAsked, Unused
<1>10. Tracked'
  <2>1. ASSUME NEW x \in Xid \ lost', x \in NonIdempotent, executed'[x] > 0 PROVE FALSE
    <3>1. x \notin lost /\ x # 0 /\ \A e \in Entry : nfsrvcache[e].xid # x
      BY <1>1, <2>1, ServerAssumption DEF Xid
    <3> QED
      BY <1>1, <2>1, <3>1 DEF Tracked, KeepsTrack
  <2>2. \A x \in Xid : x # 0
    BY DEF Xid
  <2> QED
    BY <1>5, <1>6, <2>1, <2>2 DEF Tracked, KeepsTrack, Unused, Idle
<1> QED
  BY <1>1, <1>3, <1>7, <1>8, <1>9, <1>10

\* More requests and fewer replies are under way.
LEMMA NetworkInv ==
  ASSUME ServerInv, calls \subseteq calls', calls' \subseteq Xid, replies' \subseteq replies,
         UNCHANGED <<nfsrvcache, lru, srv, reboots, executed, lost>>
  PROVE  ServerInv'
<1> USE DEF ServerInv
<1>1. TypeOK'
  <2>1. replies' \subseteq [xid : Xid, of : Xid]
    BY DEF EntrySleepersCovered, TypeOK
  <2> QED
    BY <2>1, Zenon DEF EntrySleepersCovered, TypeOK
<1>2. EntrySleepersCovered'
  BY <1>1 DEF EntrySleepersCovered
<1>3. OneHolder'
  BY DEF OneHolder, Copying
<1>4. NfsdsAsked'
  BY DEF NfsdsAsked, NfsdAsked
<1>5. EntriesAsked'
  BY DEF EntriesAsked
<1>6. Tracked'
  BY DEF Tracked, KeepsTrack
<1> QED
  BY <1>2, <1>3, <1>4, <1>5, <1>6

\* Every step keeps the invariant.
LEMMA StepInv == ServerInv /\ [Next]_vars => ServerInv'
<1> SUFFICES ASSUME ServerInv, [Next]_vars PROVE ServerInv'
  OBVIOUS
<1>1. calls \subseteq Xid
  BY DEF ServerInv, EntrySleepersCovered, TypeOK
<1>2. ASSUME NEW d \in Nfsds, NEW x \in Xid, getcache_hit(d, x) PROVE ServerInv'
  BY <1>2, HitInv
<1>3. ASSUME NEW d \in Nfsds, NEW x \in Xid, getcache_miss(d, x) PROVE ServerInv'
  BY <1>3, MissInv
<1>4. ASSUME NEW d \in Nfsds, getcache_again(d) PROVE ServerInv'
  BY <1>4, AgainInv
<1>5. ASSUME NEW d \in Nfsds, getcache_reply(d) PROVE ServerInv'
  BY <1>5, ReplyInv
<1>6. ASSUME NEW d \in Nfsds, NEW valid \in BOOLEAN, nfsrv_updatecache(d, valid) PROVE ServerInv'
  BY <1>6, UpdateInv
<1>7. ASSUME NEW d \in Nfsds, updatecache_copied(d) PROVE ServerInv'
  BY <1>7, CopiedInv
<1>8. CASE Age
  BY <1>8, AgeInv
<1>9. CASE Reboot
  BY <1>9, RebootInv
<1>10. ASSUME NEW x \in Xid, Send(x) PROVE ServerInv'
  BY <1>1, <1>10, NetworkInv DEF Send
<1>11. ASSUME NEW r \in replies, LoseReply(r) PROVE ServerInv'
  BY <1>1, <1>11, NetworkInv DEF LoseReply
<1>12. CASE UNCHANGED vars
  BY <1>1, <1>12, NetworkInv DEF vars
<1> QED
  BY <1>2, <1>3, <1>4, <1>5, <1>6, <1>7, <1>8, <1>9, <1>10, <1>11, <1>12 DEF Next

-----------------------------------------------------------------------------
\* An nfsd that sleeps for a cache entry is covered: the entry is locked by an nfsd that
\* copies a reply, and marked RC_WANTED, so that unlocking it wakes the sleeper.
THEOREM EntrySleepersAreCovered == Spec => []EntrySleepersCovered
<1>1. ServerInv => EntrySleepersCovered
  BY DEF ServerInv
<1> QED
  BY InitInv, StepInv, <1>1, PTL DEF Spec

\* A request in progress that the server keeps track of is being served: its
\* retransmissions, which nfsrv_getcache() drops, are not dropped for ever.
THEOREM RequestsInProgressAreServed == Spec => []InProgressIsServed
<1>1. ASSUME ServerInv PROVE InProgressIsServed
  <2>1. ASSUME NEW x \in Xid \ lost, Orphaned(x) PROVE FALSE
    <3>1. /\ Hit(x) \in Entry /\ nfsrvcache[Hit(x)].xid = x
          /\ nfsrvcache[Hit(x)].state = "INPROG"
      BY <1>1, <2>1, HitFacts DEF Orphaned, ServerInv, EntrySleepersCovered
    <3>2. PICK d \in Nfsds : srv[d].xid = x /\ srv[d].at = "exec"
      BY <1>1, <3>1 DEF ServerInv, Tracked, KeepsTrack
    <3> QED
      BY <2>1, <3>2 DEF Orphaned
  <2> QED
    BY <2>1 DEF InProgressIsServed
<1> QED
  BY InitInv, StepInv, <1>1, PTL DEF Spec

-----------------------------------------------------------------------------
(* The server keeps the promises of RpcServer.                             *)

\* A request that is carried out was asked for, and if it may not be repeated it was not
\* carried out before, unless the server has lost track of it.
LEMMA ExecuteAllowed ==
  ASSUME ServerInv, NEW d \in Nfsds, srv[d].at = "exec"
  PROVE  /\ srv[d].xid \in calls
         /\ srv[d].xid \in NonIdempotent /\ executed[srv[d].xid] > 0 => srv[d].xid \in lost
<1>1. srv[d].xid \in calls /\ srv[d].xid \in Xid
  BY DEF ServerInv, NfsdsAsked, NfsdAsked, EntrySleepersCovered, TypeOK
<1> QED
  BY <1>1 DEF ServerInv, Tracked, KeepsTrack

\* nfsrv_updatecache() is an execution, answered at once or not, a late answer, or nothing.
LEMMA UpdateRefines ==
  ASSUME ServerInv, NEW d \in Nfsds, NEW valid \in BOOLEAN, nfsrv_updatecache(d, valid)
  PROVE  [Abstract!Next]_(Abstract!vars)
<1>0. PICK x : x = srv[d].xid
  OBVIOUS
<1>1. /\ Executed(d, x, valid) /\ Update(d, x, valid)
      /\ UNCHANGED <<calls, lru, reboots, lost>>
  BY <1>0 DEF nfsrv_updatecache
<1>2. /\ srv[d].at \in {"exec", "update"} /\ x \in calls /\ x \in Xid
      /\ srv[d].at = "update" => x \in lost /\ executed' = executed
  BY <1>0, <1>1, ExecutedFacts
<1>3. replies' = replies \/ (valid /\ replies' = replies \cup {[xid |-> x, of |-> x]})
  BY <1>1 DEF Update, Answer
<1>4. CASE srv[d].at = "exec" /\ valid
  <2>1. executed' = [executed EXCEPT ![x] = Again(x, @)]
    BY <1>1, <1>4 DEF Executed
  <2>2. x \in NonIdempotent /\ executed[x] > 0 => x \in lost
    BY <1>0, <1>4, ExecuteAllowed
  <2>3. Abstract!Execute(x)
    BY <1>1, <1>2, <1>3, <2>1, <2>2 DEF Abstract!Execute, Abstract!Answer, Again
  <2> QED
    BY <1>2, <2>3 DEF Abstract!Next
<1>5. CASE srv[d].at = "exec" /\ ~valid
  BY <1>1, <1>3, <1>5 DEF Executed, Abstract!vars
<1>6. CASE srv[d].at = "update"
  <2>1. executed' = executed
    BY <1>2, <1>6
  <2>2. CASE replies' = replies
    BY <1>1, <2>1, <2>2 DEF Abstract!vars
  <2>3. CASE valid /\ replies' = replies \cup {[xid |-> x, of |-> x]}
    <3>1. executed[x] > 0
      BY <1>0, <1>1, <1>6, <2>3 DEF Executed, ServerInv, NfsdsAsked, NfsdAsked
    <3>2. Abstract!Reply(x)
      BY <1>1, <2>1, <2>3, <3>1 DEF Abstract!Reply, Abstract!Answer
    <3> QED
      BY <1>2, <3>2 DEF Abstract!Next
  <2> QED
    BY <1>3, <2>2, <2>3
<1> QED
  BY <1>2, <1>4, <1>5, <1>6

\* What a copying nfsd sends is the reply of its request, which was carried out.
LEMMA CopyRefines ==
  ASSUME ServerInv, NEW d \in Nfsds, getcache_reply(d) \/ updatecache_copied(d)
  PROVE  [Abstract!Next]_(Abstract!vars)
<1>0. PICK x : x = srv[d].xid
  OBVIOUS
<1>1. srv[d].at \in {"copy", "updcopy"} /\ UNCHANGED <<calls, executed, lost>>
  BY DEF getcache_reply, updatecache_copied
<1>2. srv[d].rp \in Entry /\ nfsrvcache[srv[d].rp].xid = x /\ x \in calls
  BY <1>0, <1>1 DEF ServerInv, OneHolder, Copying, NfsdsAsked, NfsdAsked
<1>3. x \in Xid
  BY <1>2 DEF ServerInv, EntrySleepersCovered, TypeOK
<1>4. CASE getcache_reply(d)
  <2>1. nfsrvcache[srv[d].rp].rep = x
    BY <1>0, <1>4 DEF getcache_reply, ServerInv, NfsdsAsked, NfsdAsked
  <2>2. replies' = replies \cup {[xid |-> x, of |-> x]}
    BY <1>0, <1>4, <2>1 DEF getcache_reply
  <2>3. executed[x] > 0
    BY <1>2, <1>3, <2>1, ServerAssumption DEF ServerInv, EntriesAsked, Xid
  <2>4. Abstract!Reply(x)
    BY <1>1, <2>2, <2>3 DEF Abstract!Reply, Abstract!Answer
  <2> QED
    BY <1>3, <2>4 DEF Abstract!Next
<1>5. CASE updatecache_copied(d)
  <2>1. replies' = replies \cup {[xid |-> x, of |-> x]}
    BY <1>0, <1>5 DEF updatecache_copied, Answer
  <2>2. executed[x] > 0
    BY <1>0, <1>5 DEF updatecache_copied, ServerInv, NfsdsAsked, NfsdAsked
  <2>3. Abstract!Reply(x)
    BY <1>1, <2>1, <2>2 DEF Abstract!Reply, Abstract!Answer
  <2> QED
    BY <1>3, <2>3 DEF Abstract!Next
<1> QED
  BY <1>4, <1>5

\* Every step of the server is a step of RpcServer or changes nothing it speaks of.
LEMMA StepRefines == ServerInv /\ [Next]_vars => [Abstract!Next]_(Abstract!vars)
<1> SUFFICES ASSUME ServerInv, [Next]_vars PROVE [Abstract!Next]_(Abstract!vars)
  OBVIOUS
<1>1. ASSUME lost \subseteq lost', UNCHANGED <<calls, replies, executed>>
      PROVE  [Abstract!Next]_(Abstract!vars)
  <2>1. lost' \subseteq calls
    BY <1>1, StepInv DEF ServerInv
  <2>2. Abstract!Lose
    BY <1>1, <2>1 DEF Abstract!Lose
  <2> QED
    BY <2>2 DEF Abstract!Next
<1>2. ASSUME NEW d \in Nfsds, NEW x \in Xid, getcache_hit(d, x) PROVE [Abstract!Next]_(Abstract!vars)
  BY <1>2 DEF getcache_hit, Abstract!vars
<1>3. ASSUME NEW d \in Nfsds, NEW x \in Xid, getcache_miss(d, x) PROVE [Abstract!Next]_(Abstract!vars)
  BY <1>1, <1>3 DEF getcache_miss, Recycle
<1>4. ASSUME NEW d \in Nfsds, getcache_again(d) PROVE [Abstract!Next]_(Abstract!vars)
  BY <1>1, <1>4 DEF getcache_again, Recycle
<1>5. ASSUME NEW d \in Nfsds, getcache_reply(d) \/ updatecache_copied(d)
      PROVE  [Abstract!Next]_(Abstract!vars)
  BY <1>5, CopyRefines
<1>6. ASSUME NEW d \in Nfsds, NEW valid \in BOOLEAN, nfsrv_updatecache(d, valid)
      PROVE  [Abstract!Next]_(Abstract!vars)
  BY <1>6, UpdateRefines
<1>7. CASE Age
  BY <1>7 DEF Age, Abstract!vars
<1>8. CASE Reboot
  BY <1>1, <1>8 DEF Reboot
<1>9. ASSUME NEW x \in Xid, Send(x) PROVE [Abstract!Next]_(Abstract!vars)
  BY <1>9 DEF Send, Abstract!Ask, Abstract!Next
<1>10. ASSUME NEW r \in replies, LoseReply(r) PROVE [Abstract!Next]_(Abstract!vars)
  BY <1>10 DEF LoseReply, Abstract!Drop, Abstract!Next
<1>11. CASE UNCHANGED vars
  BY <1>11 DEF vars, Abstract!vars
<1> QED
  BY <1>2, <1>3, <1>4, <1>5, <1>6, <1>7, <1>8, <1>9, <1>10, <1>11 DEF Next

\* The cache implements RpcServer: what is not idempotent is carried out at most once unless
\* the server has lost track of it, and every reply is that of its own request, after it was
\* carried out, however retransmissions, sleeping nfsds, recycling and reboots interleave.
THEOREM ServerImplementsRpcServer == Spec => ImplementsRpcServer
<1>1. Init => Abstract!Init
  BY DEF Init, Abstract!Init
<1> QED
  BY InitInv, StepInv, StepRefines, <1>1, PTL DEF Spec, ImplementsRpcServer, Abstract!Spec
=============================================================================
