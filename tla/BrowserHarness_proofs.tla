------------------------- MODULE BrowserHarness_proofs -------------------------
(***************************************************************************)
(* What the tools of the browser harness and the processes that look for   *)
(* its daemon keep in every reachable state, for any calls, tabs, plans,   *)
(* processes and daemons.                                                  *)
(***************************************************************************)
EXTENDS BrowserHarness, FiniteSetTheorems, TLAPS

-----------------------------------------------------------------------------
(* The daemons.                                                            *)
Alive(d) == daemon[d].st \in {"starting", "binding", "listening", "serving", "stopping", "closed"}
Pending(s) == ~s.own /\ ~s.gone

(* A probe that waits for its ack has one connection, to the daemon it     *)
(* remembers, unless that daemon has gone; connections are with daemons    *)
(* that accept; who serves and has nobody registered counts down.          *)
Seated ==
  /\ faults \in 0..MaxFaults
  /\ \A p \in Proc : proc[p].at \in {"ack", "up", "client"} => proc[p].d \in Daemon
  /\ \A p \in Proc : proc[p].at = "ack" => SockOf(p) # {} \/ daemon[proc[p].d].st \in {"closed", "dead"}
  /\ \A d \in Daemon : \A s \in daemon[d].socks :
       /\ Accepts(d)
       /\ Pending(s) => proc[s.p].at = "ack" /\ proc[s.p].d = d
  /\ \A d \in Daemon : \A s, r \in daemon[d].socks : s.p = r.p /\ Pending(s) /\ Pending(r) => s = r
  /\ \A d \in Daemon : daemon[d].st = "serving" /\ RegisteredAt(d) = {} => daemon[d].idle
  /\ path # Nothing => daemon[path].st \in {"listening", "serving", "stopping", "dead"}

(* While processes have not met and none timed out or was turned away: one *)
(* daemon lives, the path is its own as soon as it listens, a daemon that  *)
(* comes up is the one its probe waits for, and what is to be unlinked     *)
(* belongs to the dead.                                                    *)
Unmet ==
  /\ ~Meeting
  /\ \A d \in Daemon : Accepts(d) => path = d
  /\ \A d, e \in Daemon : Alive(d) /\ Alive(e) => d = e
  /\ \A d \in Daemon : daemon[d].st \in {"starting", "binding"} => \E p \in Proc : Ensuring(p) /\ proc[p].spawned
  /\ \A u \in unlinks : u # Nothing => daemon[u].st = "dead"
  /\ \A p \in Proc : proc[p].at = "ack" => \A d \in Daemon : Alive(d) => d = proc[p].d
  /\ \A p \in Proc : proc[p].at = "up" => daemon[proc[p].d].st \in {"listening", "serving", "dead"}

SpawnInv == SpawnTypeOK /\ Seated /\ (~excused => Unmet)


LEMMA SpawnInitKeeps == ASSUME SpawnInit PROVE SpawnInv
<1> USE SpawnAssumption DEF SpawnInit
<1>1. SpawnTypeOK
  BY DEF SpawnTypeOK
<1>2. Seated
  BY DEF Seated
<1>3. Unmet
  BY DEF Unmet, Meeting, Ensuring, Accepts, Alive
<1> QED BY <1>1, <1>2, <1>3 DEF SpawnInv

(* What a step says of the one before it, when nothing excuses it.         *)
LEMMA StillUnmet ==
  ASSUME SpawnInv, NEW why \in BOOLEAN, Excuse(why), ~excused'
  PROVE  Unmet /\ ~why /\ ~Meeting' /\ ~excused
BY DEF Excuse, SpawnInv

(* A probe that has found nothing, when no daemon can be where it looked.  *)
LEMMA NoneAlive ==
  ASSUME SpawnInv, Unmet, NEW p \in Proc, Ensuring(p), path = Nothing \/ daemon[path].st = "dead"
  PROVE  /\ \A d \in Daemon : ~Accepts(d) /\ daemon[d].st \notin {"stopping", "closed"}
         /\ \A d \in Daemon : Alive(d) => proc[p].spawned
<1>1. \A d \in Daemon : ~Accepts(d)
  BY SpawnAssumption DEF Unmet, Accepts
<1>2. \A d \in Daemon : daemon[d].st \notin {"stopping", "closed"}
  BY DEF Unmet, Meeting, Ensuring
<1>3. ASSUME NEW d \in Daemon, Alive(d)
      PROVE  proc[p].spawned
  <2>1. daemon[d].st \in {"starting", "binding"}
    BY <1>1, <1>2, <1>3, SpawnAssumption DEF Alive, Accepts
  <2>2. PICK q \in Proc : Ensuring(q) /\ proc[q].spawned
    BY <2>1 DEF Unmet
  <2>3. q = p
    BY <2>2 DEF Unmet, Meeting
  <2> QED BY <2>2, <2>3
<1> QED BY <1>1, <1>2, <1>3

(* Connections after a probe is over: the daemons stand as they did.       *)
Quieter(p, ds) ==
  /\ ds \in [Daemon -> [st : {"unused", "starting", "binding", "listening", "serving", "stopping", "closed", "dead"},
                        socks : SUBSET Sock, idle : BOOLEAN]]
  /\ \A d \in Daemon :
       /\ ds[d].st = daemon[d].st /\ ds[d].idle = daemon[d].idle
       /\ ds[d].socks # {} => daemon[d].socks # {}
       /\ \A s \in ds[d].socks : s.own \/ s.gone \/ (s \in daemon[d].socks /\ s.p # p)
       /\ \A s \in daemon[d].socks : s.p # p => s \in ds[d].socks
       /\ RegisteredAt(d) # {} => \E s \in ds[d].socks : s.st = "registered"

LEMMA NotRunningKeeps ==
  ASSUME SpawnInv, NEW p \in Proc, Ensuring(p), NEW ds, Quieter(p, ds), NEW why \in BOOLEAN, NotRunning(p, ds, why),
         why \/ path = Nothing \/ daemon[path].st = "dead",
         path' = path, faults' \in 0..MaxFaults, unlinks' \in {unlinks, unlinks \cup {path}}
  PROVE  SpawnInv'
<1> USE SpawnAssumption
<1> DEFINE new == CHOOSE d \in Daemon : ds[d].st = "unused"
<1>1. SpawnTypeOK /\ Seated /\ (~excused => Unmet)
  BY DEF SpawnInv
<1>2. \/ /\ ~proc[p].spawned /\ new \in Daemon /\ ds[new].st = "unused" /\ Excuse(why)
         /\ daemon' = [ds EXCEPT ![new].st = "starting"]
         /\ proc' = [proc EXCEPT ![p] = [at |-> "look", spawned |-> TRUE, d |-> Nothing]]
      \/ /\ daemon' = ds /\ proc[p].spawned /\ Excuse(why)
         /\ proc' = [proc EXCEPT ![p] = [at |-> "look", spawned |-> TRUE, d |-> Nothing]]
      \/ /\ daemon' = ds /\ excused'
         /\ proc' = [proc EXCEPT ![p] = [at |-> "done", spawned |-> FALSE, d |-> Nothing]]
  BY DEF NotRunning, Probing, Done
<1> HIDE DEF new
<1>3. /\ proc' \in [Proc -> [at : {"new", "look", "connect", "ack", "up", "client", "done"}, spawned : BOOLEAN, d : Daemon \cup {Nothing}]]
      /\ proc'[p].at \in {"look", "done"} /\ \A q \in Proc \ {p} : proc'[q] = proc[q]
      /\ ~excused' => proc'[p].at = "look" /\ proc'[p].spawned
  <2>1. ASSUME NEW a \in {"look", "done"}, NEW b \in BOOLEAN, proc' = [proc EXCEPT ![p] = [at |-> a, spawned |-> b, d |-> Nothing]]
        PROVE  /\ proc' \in [Proc -> [at : {"new", "look", "connect", "ack", "up", "client", "done"}, spawned : BOOLEAN, d : Daemon \cup {Nothing}]]
               /\ proc'[p].at = a /\ proc'[p].spawned = b /\ \A q \in Proc \ {p} : proc'[q] = proc[q]
    BY <1>1, <2>1 DEF SpawnTypeOK
  <2> QED BY <1>2, <2>1
<1>4. /\ daemon' \in [Daemon -> [st : {"unused", "starting", "binding", "listening", "serving", "stopping", "closed", "dead"},
                                 socks : SUBSET Sock, idle : BOOLEAN]]
      /\ \A d \in Daemon : /\ daemon'[d].socks = ds[d].socks /\ daemon'[d].idle = daemon[d].idle
                           /\ \/ daemon'[d].st = daemon[d].st
                              \/ daemon[d].st = "unused" /\ daemon'[d].st = "starting" /\ d = new /\ ~proc[p].spawned
  BY <1>2 DEF Quieter
<1>5. SpawnTypeOK'
  BY <1>1, <1>3, <1>4 DEF SpawnTypeOK
<1>6. \A d \in Daemon : (Accepts(d)' <=> Accepts(d)) /\ (Accepts(d) => daemon'[d].st = daemon[d].st)
  BY <1>4 DEF Accepts
<1>7. Seated'
  <2>1. \A q \in Proc : proc'[q].at \in {"ack", "up", "client"} => q # p /\ proc'[q] = proc[q]
    BY <1>3
  <2>2. ASSUME NEW q \in Proc, proc'[q].at = "ack"
        PROVE  SockOf(q)' # {} \/ daemon'[proc'[q].d].st \in {"closed", "dead"}
    <3>1. q # p /\ proc'[q] = proc[q] /\ proc[q].d \in Daemon /\ (SockOf(q) # {} \/ daemon[proc[q].d].st \in {"closed", "dead"})
      BY <1>1, <2>1, <2>2 DEF Seated
    <3>2. SockOf(q) \subseteq SockOf(q)'
      BY <1>4, <3>1 DEF SockOf, Quieter
    <3> QED BY <1>4, <3>1, <3>2
  <2>3. ASSUME NEW d \in Daemon, NEW s \in daemon'[d].socks
        PROVE  Accepts(d)' /\ (Pending(s) => s \in daemon[d].socks /\ proc'[s.p].at = "ack" /\ proc'[s.p].d = d)
    <3>1. s \in ds[d].socks /\ daemon[d].socks # {}
      BY <1>4, <2>3 DEF Quieter
    <3>2. Accepts(d)
      BY <1>1, <3>1 DEF Seated
    <3>3. ASSUME Pending(s)
          PROVE  s \in daemon[d].socks /\ s.p # p /\ s.p \in Proc
      BY <1>1, <3>1, <3>3 DEF Quieter, Pending, SpawnTypeOK, Sock
    <3> QED BY <1>1, <1>3, <1>6, <3>2, <3>3 DEF Seated
  <2>4. \A d \in Daemon : \A s, r \in daemon'[d].socks : s.p = r.p /\ Pending(s) /\ Pending(r) => s = r
    BY <1>1, <2>3 DEF Seated
  <2>5. ASSUME NEW d \in Daemon, daemon'[d].st = "serving", RegisteredAt(d)' = {}
        PROVE  daemon'[d].idle
    <3>1. daemon[d].st = "serving" /\ RegisteredAt(d) = {}
      BY <1>4, <2>5 DEF RegisteredAt, Quieter
    <3> QED BY <1>1, <1>4, <3>1 DEF Seated
  <2>6. path' # Nothing => daemon'[path'].st \in {"listening", "serving", "stopping", "dead"}
    BY <1>1, <1>4 DEF Seated, SpawnTypeOK
  <2> QED BY <1>1, <2>1, <2>2, <2>3, <2>4, <2>5, <2>6 DEF Seated
<1>8. ASSUME ~excused'
      PROVE  Unmet'
  <2>1. Unmet /\ ~why /\ ~Meeting' /\ proc'[p].at = "look" /\ proc'[p].spawned
    BY <1>2, <1>3, <1>8, StillUnmet
  <2>2. path = Nothing \/ daemon[path].st = "dead"
    BY <2>1
  <2>3. /\ \A d \in Daemon : ~Accepts(d) /\ daemon[d].st \notin {"stopping", "closed"}
        /\ \A d \in Daemon : Alive(d) => proc[p].spawned
    BY <2>1, <2>2, NoneAlive
  <2>4. Ensuring(p)' /\ \A q \in Proc : Ensuring(q)' => q = p
    BY <2>1 DEF Ensuring, Meeting
  <2>5. \A d, e \in Daemon : Alive(d)' /\ Alive(e)' => d = e
    BY <1>4, <2>1, <2>3 DEF Alive, Unmet
  <2>6. \A u \in unlinks' : u # Nothing => daemon'[u].st = "dead"
    BY <1>1, <1>4, <2>1, <2>2 DEF Unmet, SpawnTypeOK
  <2>7. \A q \in Proc : proc'[q].at = "up" => daemon'[proc'[q].d].st \in {"listening", "serving", "dead"}
    BY <1>1, <1>3, <1>4, <2>1 DEF Unmet, Seated
  <2>8. \A q \in Proc : proc'[q].at # "ack"
    BY <2>1, <2>4 DEF Ensuring
  <2> QED BY <1>6, <2>1, <2>3, <2>4, <2>5, <2>6, <2>7, <2>8 DEF Unmet
<1> QED BY <1>5, <1>7, <1>8 DEF SpawnInv


LEMMA ProbesNothing ==
  ASSUME SpawnInv, NEW p \in Proc, proc[p].at \in {"look", "connect"}, NEW s, s \in UNION {daemon[d].socks : d \in Daemon}, Pending(s)
  PROVE  s.p # p
BY DEF SpawnInv, Seated

LEMMA ExistsKeeps == ASSUME SpawnInv, NEW p \in Proc, Exists(p), path = Nothing PROVE SpawnInv'
<1>1. /\ proc[p].at = "look" /\ path' = path /\ unlinks' = unlinks /\ faults' = faults
      /\ NotRunning(p, daemon, FALSE)
  BY DEF Exists
<1>2. Quieter(p, daemon)
  <2>1. \A d \in Daemon : \A s \in daemon[d].socks : s.own \/ s.gone \/ s.p # p
    BY <1>1, ProbesNothing DEF Pending
  <2> QED BY <2>1 DEF Quieter, SpawnInv, SpawnTypeOK, RegisteredAt
<1> QED BY <1>1, <1>2, NotRunningKeeps DEF SpawnInv, Seated, Ensuring

LEMMA ProbeFails ==
  ASSUME SpawnInv, NEW p \in Proc, Probe(p),
         ~Accepts(path) \/ Cardinality(RegisteredAt(path)) >= Crowd
  PROVE  SpawnInv'
<1>1. /\ proc[p].at = "connect" /\ path' = path /\ faults' = faults
  BY DEF Probe
<1>2. /\ unlinks' \in {unlinks, unlinks \cup {path}}
      /\ \/ NotRunning(p, daemon, TRUE)
         \/ NotRunning(p, daemon, FALSE) /\ ~Accepts(path)
  BY DEF Probe, CleanupStaleSocket
<1>3. ~Accepts(path) => path = Nothing \/ daemon[path].st = "dead"
  BY DEF SpawnInv, Seated, Accepts
<1>4. Quieter(p, daemon)
  <2>1. \A d \in Daemon : \A s \in daemon[d].socks : s.own \/ s.gone \/ s.p # p
    BY <1>1, ProbesNothing DEF Pending
  <2> QED BY <2>1 DEF Quieter, SpawnInv, SpawnTypeOK, RegisteredAt
<1>5. Ensuring(p) /\ faults' \in 0..MaxFaults
  BY <1>1 DEF Ensuring, SpawnInv, Seated
<1> QED BY <1>1, <1>2, <1>3, <1>4, <1>5, NotRunningKeeps

(* The connection of a probe that waits.                                   *)
LEMMA SocksOf ==
  ASSUME SpawnInv, NEW p \in Proc, proc[p].at = "ack"
  PROVE  /\ proc[p].d \in Daemon
         /\ \A s \in SockOf(p) : s \in Sock /\ s.p = p /\ Pending(s) /\ s \in daemon[proc[p].d].socks /\ \A r \in SockOf(p) : r = s
         /\ \A d \in Daemon : \A s \in daemon[d].socks : s \in Sock /\ (Pending(s) /\ s.p = p => s \in SockOf(p) /\ d = proc[p].d)
BY DEF SpawnInv, Seated, SpawnTypeOK, SockOf, Pending

LEMMA RejectedKeeps == ASSUME SpawnInv, NEW p \in Proc, Rejected(p) PROVE SpawnInv'
<1>1. /\ proc[p].at = "ack" /\ path' = path /\ faults' = faults /\ unlinks' = unlinks
      /\ NotRunning(p, Without(p), TRUE)
  BY DEF Rejected, Closed, Closing
<1>2. PICK s \in SockOf(p) : s.st = "rejected"
  BY DEF Rejected, Closing
<1> DEFINE a == proc[p].d
           ds == [daemon EXCEPT ![a].socks = @ \ SockOf(p)]
<1>3. a \in Daemon /\ SockOf(p) = {s} /\ s \in daemon[a].socks
  BY <1>1, <1>2, SocksOf
<1>4. daemon \in [Daemon -> [st : {"unused", "starting", "binding", "listening", "serving", "stopping", "closed", "dead"},
                             socks : SUBSET Sock, idle : BOOLEAN]]
  BY DEF SpawnInv, SpawnTypeOK
<1>5. /\ ds \in [Daemon -> [st : {"unused", "starting", "binding", "listening", "serving", "stopping", "closed", "dead"},
                            socks : SUBSET Sock, idle : BOOLEAN]]
      /\ \A d \in Daemon : /\ ds[d].st = daemon[d].st /\ ds[d].idle = daemon[d].idle
                           /\ ds[d].socks = IF d = a THEN daemon[d].socks \ {s} ELSE daemon[d].socks
  BY <1>3, <1>4
<1>6. \A d \in Daemon : \A r \in daemon[d].socks : Pending(r) /\ r.p = p => r = s /\ d = a
  BY <1>1, <1>3, SocksOf
<1>7. s.p = p
  BY <1>1, <1>2, SocksOf
<1>8. Quieter(p, ds)
  <2> HIDE DEF ds, a
  <2>1. ASSUME NEW d \in Daemon
        PROVE  /\ ds[d].socks # {} => daemon[d].socks # {}
               /\ \A r \in ds[d].socks : r.own \/ r.gone \/ (r \in daemon[d].socks /\ r.p # p)
               /\ \A r \in daemon[d].socks : r.p # p => r \in ds[d].socks
    BY <1>3, <1>5, <1>6, <1>7 DEF Pending
  <2>2. ASSUME NEW d \in Daemon, NEW r \in daemon[d].socks, r.st = "registered"
        PROVE  \E q \in ds[d].socks : q.st = "registered"
    BY <1>2, <1>3, <1>5, <2>2
  <2> QED BY <1>5, <2>1, <2>2 DEF Quieter, RegisteredAt
<1>9. Ensuring(p) /\ faults' \in 0..MaxFaults
  BY <1>1 DEF Ensuring, SpawnInv, Seated
<1>10. NotRunning(p, ds, TRUE)
  BY <1>1 DEF Without
<1> HIDE DEF ds
<1> QED BY <1>1, <1>8, <1>9, <1>10, NotRunningKeeps

LEMMA LeftFields ==
  ASSUME SpawnInv, NEW p \in Proc, proc[p].at = "ack"
  PROVE  /\ Left(p) \in [Daemon -> [st : {"unused", "starting", "binding", "listening", "serving", "stopping", "closed", "dead"},
                                    socks : SUBSET Sock, idle : BOOLEAN]]
         /\ \A d \in Daemon : /\ Left(p)[d].st = daemon[d].st /\ Left(p)[d].idle = daemon[d].idle
                              /\ d # proc[p].d => Left(p)[d].socks = daemon[d].socks
                              /\ d = proc[p].d => Left(p)[d].socks = (daemon[d].socks \ SockOf(p)) \cup {[s EXCEPT !.gone = TRUE] : s \in SockOf(p)}
         /\ \A s \in SockOf(p) : LET r == [s EXCEPT !.gone = TRUE] IN r \in Sock /\ r.gone /\ r.p = s.p /\ r.st = s.st /\ r.own = s.own
<1>1. \A s \in SockOf(p) : LET r == [s EXCEPT !.gone = TRUE] IN r \in Sock /\ r.gone /\ r.p = s.p /\ r.st = s.st /\ r.own = s.own
  <2>1. \A s \in Sock : LET r == [s EXCEPT !.gone = TRUE] IN r \in Sock /\ r.gone /\ r.p = s.p /\ r.st = s.st /\ r.own = s.own
    BY DEF Sock
  <2> QED BY <2>1, SocksOf
<1>2. {[s EXCEPT !.gone = TRUE] : s \in SockOf(p)} \subseteq Sock
  BY <1>1
<1>3. proc[p].d \in Daemon /\ daemon \in [Daemon -> [st : {"unused", "starting", "binding", "listening", "serving", "stopping", "closed", "dead"},
                             socks : SUBSET Sock, idle : BOOLEAN]]
  BY SocksOf DEF SpawnInv, SpawnTypeOK
<1> DEFINE n == (daemon[proc[p].d].socks \ SockOf(p)) \cup {[s EXCEPT !.gone = TRUE] : s \in SockOf(p)}
<1>4. n \in SUBSET Sock
  BY <1>2, <1>3
<1>5. Left(p) = [daemon EXCEPT ![proc[p].d].socks = n]
  BY DEF Left
<1> HIDE DEF n
<1>6. /\ Left(p) \in [Daemon -> [st : {"unused", "starting", "binding", "listening", "serving", "stopping", "closed", "dead"},
                                    socks : SUBSET Sock, idle : BOOLEAN]]
      /\ \A d \in Daemon : /\ Left(p)[d].st = daemon[d].st /\ Left(p)[d].idle = daemon[d].idle
                           /\ Left(p)[d].socks = IF d = proc[p].d THEN n ELSE daemon[d].socks
  BY <1>3, <1>4, <1>5
<1> QED BY <1>1, <1>6 DEF n

LEMMA LeftIsQuieter == ASSUME SpawnInv, NEW p \in Proc, proc[p].at = "ack" PROVE Quieter(p, Left(p))
<1>1. ASSUME NEW d \in Daemon
      PROVE  /\ Left(p)[d].socks # {} => daemon[d].socks # {}
             /\ \A s \in Left(p)[d].socks : s.own \/ s.gone \/ (s \in daemon[d].socks /\ s.p # p)
             /\ \A s \in daemon[d].socks : s.p # p => s \in Left(p)[d].socks
             /\ RegisteredAt(d) # {} => \E s \in Left(p)[d].socks : s.st = "registered"
  <2>1. CASE d # proc[p].d
    BY <2>1, LeftFields, SocksOf DEF Pending, RegisteredAt
  <2>2. CASE d = proc[p].d
    <3>1. Left(p)[d].socks = (daemon[d].socks \ SockOf(p)) \cup {[s EXCEPT !.gone = TRUE] : s \in SockOf(p)}
      BY <2>2, LeftFields
    <3>2. \A s \in SockOf(p) : s \in daemon[d].socks /\ s.p = p
      BY <2>2, SocksOf
    <3>3. \A s \in daemon[d].socks : Pending(s) /\ s.p = p => s \in SockOf(p)
      BY SocksOf
    <3>4. \A s \in SockOf(p) : [s EXCEPT !.gone = TRUE].gone /\ [s EXCEPT !.gone = TRUE].st = s.st
      BY LeftFields
    <3>5. ASSUME NEW s \in Left(p)[d].socks
          PROVE  s.own \/ s.gone \/ (s \in daemon[d].socks /\ s.p # p)
      BY <3>1, <3>2, <3>3, <3>4 DEF Pending
    <3>6. ASSUME NEW s \in daemon[d].socks, s.st = "registered"
          PROVE  \E r \in Left(p)[d].socks : r.st = "registered"
      BY <3>1, <3>4, <3>6
    <3> QED BY <3>1, <3>2, <3>5, <3>6 DEF RegisteredAt
  <2> QED BY <2>1, <2>2
<1> QED BY <1>1, LeftFields DEF Quieter

LEMMA TimeoutKeeps == ASSUME SpawnInv, NEW p \in Proc, ProbeTimeout(p) PROVE SpawnInv'
<1>1. /\ proc[p].at = "ack" /\ path' = path /\ faults < MaxFaults /\ faults' = faults + 1 /\ unlinks' = unlinks \cup {path}
      /\ NotRunning(p, Left(p), TRUE)
  BY DEF ProbeTimeout, CleanupStaleSocket
<1>2. Ensuring(p) /\ faults' \in 0..MaxFaults
  BY <1>1, SpawnAssumption DEF Ensuring, SpawnInv, Seated
<1> QED BY <1>1, <1>2, LeftIsQuieter, NotRunningKeeps

LEMMA OrphanedKeeps == ASSUME SpawnInv, NEW p \in Proc, Orphaned(p) PROVE SpawnInv'
<1>1. /\ proc[p].at = "ack" /\ SockOf(p) = {} /\ path' = path /\ faults' = faults /\ unlinks' \in {unlinks, unlinks \cup {path}}
      /\ NotRunning(p, daemon, FALSE)
  BY DEF Orphaned, CleanupStaleSocket
<1>2. Ensuring(p) /\ faults' \in 0..MaxFaults
  BY <1>1, SpawnAssumption DEF Ensuring, SpawnInv, Seated
<1>3. Quieter(p, daemon)
  <2>1. \A d \in Daemon : \A s \in daemon[d].socks : s.own \/ s.gone \/ s.p # p
    BY <1>1, SocksOf DEF Pending
  <2> QED BY <2>1 DEF Quieter, SpawnInv, SpawnTypeOK, RegisteredAt
<1>4. excused \/ path = Nothing \/ daemon[path].st = "dead"
  <2> SUFFICES ASSUME ~excused, path # Nothing PROVE daemon[path].st = "dead"
    OBVIOUS
  <2>1. Unmet /\ path \in Daemon /\ daemon[path].st \in {"listening", "serving", "stopping", "dead"}
    BY DEF SpawnInv, Seated, SpawnTypeOK
  <2>2. daemon[proc[p].d].st \in {"closed", "dead"} /\ proc[p].d \in Daemon
    BY <1>1 DEF SpawnInv, Seated
  <2>3. ~Alive(proc[p].d)
    BY <1>2, <2>1, <2>2 DEF Unmet, Meeting, Ensuring, Alive
  <2>4. ~Alive(path)
    BY <1>1, <2>1, <2>3 DEF Unmet
  <2> QED BY <2>1, <2>4 DEF Alive
<1>5. CASE excused
  <2>1. NotRunning(p, daemon, TRUE)
    BY <1>1, <1>5 DEF NotRunning, Excuse
  <2> QED BY <1>1, <1>2, <1>3, <2>1, NotRunningKeeps
<1>6. CASE ~excused
  BY <1>1, <1>2, <1>3, <1>4, <1>6, NotRunningKeeps
<1> QED BY <1>5, <1>6


(* Steps that leave the daemons as they stand.                             *)
LEMMA SameDaemons ==
  ASSUME SpawnInv, SpawnTypeOK', Seated', Excuse(FALSE), path' = path, unlinks' = unlinks,
         \A d \in Daemon : daemon'[d].st = daemon[d].st,
         \A q \in Proc : (Ensuring(q) /\ proc[q].spawned) =>
            \/ Ensuring(q)' /\ proc'[q].spawned
            \/ proc[q].d \in Daemon /\ Accepts(proc[q].d),
         \A q \in Proc : proc'[q].at = "ack" => \/ proc[q].at = "ack" /\ proc'[q].d = proc[q].d
                                                \/ proc'[q].d = path /\ Accepts(path),
         \A q \in Proc : proc'[q].at = "up" => \/ proc[q].at = "up" /\ proc'[q].d = proc[q].d
                                               \/ proc'[q].d = proc[q].d /\ proc[q].d \in Daemon /\ Accepts(proc[q].d)
  PROVE  SpawnInv'
<1> SUFFICES ASSUME ~excused' PROVE Unmet'
  BY DEF SpawnInv
<1>1. Unmet /\ ~Meeting'
  BY StillUnmet
<1>2. \A d \in Daemon : (Accepts(d)' <=> Accepts(d)) /\ (Alive(d)' <=> Alive(d))
  BY DEF Accepts, Alive
<1>3. path \in Daemon \cup {Nothing} /\ unlinks \subseteq Daemon \cup {Nothing}
  BY DEF SpawnInv, SpawnTypeOK
<1>4. ASSUME NEW d \in Daemon, daemon'[d].st \in {"starting", "binding"}
      PROVE  \E q \in Proc : Ensuring(q)' /\ proc'[q].spawned
  <2>1. PICK q \in Proc : Ensuring(q) /\ proc[q].spawned
    BY <1>1, <1>4 DEF Unmet
  <2>2. CASE proc[q].d \in Daemon /\ Accepts(proc[q].d)
    <3>1. Alive(d) /\ Alive(proc[q].d) /\ ~Accepts(d)
      BY <1>4, <2>2 DEF Alive, Accepts
    <3> QED BY <1>1, <2>2, <3>1 DEF Unmet
  <2> QED BY <2>1, <2>2
<1>5. ASSUME NEW q \in Proc, proc'[q].at = "ack", NEW d \in Daemon, Alive(d)
      PROVE  d = proc'[q].d
  <2>1. CASE proc[q].at = "ack" /\ proc'[q].d = proc[q].d
    BY <1>1, <1>5, <2>1 DEF Unmet
  <2>2. CASE proc'[q].d = path /\ Accepts(path)
    <3>1. path \in Daemon /\ Alive(path)
      BY <1>3, <2>2 DEF Accepts, Alive
    <3> QED BY <1>1, <1>5, <2>2, <3>1 DEF Unmet
  <2> QED BY <1>5, <2>1, <2>2
<1>6. ASSUME NEW q \in Proc, proc'[q].at = "up"
      PROVE  daemon'[proc'[q].d].st \in {"listening", "serving", "dead"}
  <2>1. CASE proc[q].at = "up" /\ proc'[q].d = proc[q].d
    <3>1. proc[q].d \in Daemon
      BY <2>1 DEF SpawnInv, Seated
    <3> QED BY <1>1, <2>1, <3>1 DEF Unmet
  <2>2. CASE proc'[q].d = proc[q].d /\ proc[q].d \in Daemon /\ Accepts(proc[q].d)
    <3>1. daemon'[proc'[q].d].st # "stopping"
      BY <1>1, <1>6, <2>2 DEF Meeting
    <3> QED BY <2>2, <3>1 DEF Accepts
  <2> QED BY <1>6, <2>1, <2>2
<1> QED BY <1>1, <1>2, <1>3, <1>4, <1>5, <1>6 DEF Unmet

(* A step of one process that touches no daemon.                           *)
LEMMA ProcessWalks ==
  ASSUME SpawnInv, NEW p \in Proc, NEW a \in {"look", "connect"}, proc[p].at \in {"new", "look"},
         proc' = [proc EXCEPT ![p].at = a], UNCHANGED <<daemon, path, unlinks, faults>>, Excuse(FALSE)
  PROVE  SpawnInv'
<1>1. /\ proc' \in [Proc -> [at : {"new", "look", "connect", "ack", "up", "client", "done"}, spawned : BOOLEAN, d : Daemon \cup {Nothing}]]
      /\ proc'[p].at = a /\ proc'[p].spawned = proc[p].spawned /\ proc'[p].d = proc[p].d /\ \A q \in Proc \ {p} : proc'[q] = proc[q]
  BY DEF SpawnInv, SpawnTypeOK
<1>2. SpawnTypeOK'
  BY <1>1 DEF SpawnInv, SpawnTypeOK
<1>3. Seated'
  <2>1. \A q \in Proc : proc'[q].at \in {"ack", "up", "client"} => q # p /\ proc'[q] = proc[q]
    BY <1>1
  <2>2. \A q \in Proc : q # p => SockOf(q)' = SockOf(q)
    BY <1>1 DEF SockOf
  <2>3. \A d \in Daemon : (Accepts(d)' <=> Accepts(d)) /\ RegisteredAt(d)' = RegisteredAt(d) /\ \A s \in daemon[d].socks : Pending(s) => s.p # p /\ s.p \in Proc
    BY ProbesNothing DEF Accepts, RegisteredAt, SpawnInv, Seated, SpawnTypeOK, Sock
  <2> QED BY <1>1, <2>1, <2>2, <2>3 DEF SpawnInv, Seated
<1> QED BY <1>1, <1>2, <1>3, SameDaemons DEF Ensuring

(* A daemon's connections change, and the process they belong to with them. *)
LEMMA AckedKeeps == ASSUME SpawnInv, NEW p \in Proc, Acked(p) PROVE SpawnInv'
<1>1. /\ proc[p].at = "ack" /\ daemon' = Left(p) /\ proc' = [proc EXCEPT ![p].at = "up"]
      /\ UNCHANGED <<path, unlinks, faults>> /\ Excuse(FALSE)
  BY DEF Acked, Closing, Closed
<1>2. PICK s \in SockOf(p) : s.st = "registered"
  BY DEF Acked, Closing
<1>3. proc[p].d \in Daemon /\ Accepts(proc[p].d) /\ s \in daemon[proc[p].d].socks
  BY <1>1, <1>2, SocksOf DEF SpawnInv, Seated
<1>4. /\ proc' \in [Proc -> [at : {"new", "look", "connect", "ack", "up", "client", "done"}, spawned : BOOLEAN, d : Daemon \cup {Nothing}]]
      /\ proc'[p].at = "up" /\ proc'[p].d = proc[p].d /\ \A q \in Proc \ {p} : proc'[q] = proc[q]
  BY <1>1 DEF SpawnInv, SpawnTypeOK
<1>5. Quieter(p, daemon')
  BY <1>1, LeftIsQuieter
<1>6. SpawnTypeOK'
  BY <1>1, <1>4, <1>5 DEF SpawnInv, SpawnTypeOK, Quieter
<1>7. Seated'
  <2>1. \A q \in Proc : proc'[q].at \in {"ack", "client"} => q # p /\ proc'[q] = proc[q]
    BY <1>4
  <2>2. ASSUME NEW q \in Proc, proc'[q].at = "ack"
        PROVE  SockOf(q)' # {} \/ daemon'[proc'[q].d].st \in {"closed", "dead"}
    <3>1. q # p /\ proc'[q] = proc[q] /\ proc[q].d \in Daemon /\ (SockOf(q) # {} \/ daemon[proc[q].d].st \in {"closed", "dead"})
      BY <2>1, <2>2 DEF SpawnInv, Seated
    <3>2. SockOf(q) \subseteq SockOf(q)'
      BY <1>5, <3>1 DEF SockOf, Quieter
    <3> QED BY <1>5, <3>1, <3>2 DEF Quieter
  <2>3. ASSUME NEW d \in Daemon, NEW r \in daemon'[d].socks
        PROVE  Accepts(d)' /\ (Pending(r) => r \in daemon[d].socks /\ proc'[r.p].at = "ack" /\ proc'[r.p].d = d)
    <3>1. Accepts(d) /\ (Accepts(d)' <=> Accepts(d))
      BY <1>5, <2>3 DEF SpawnInv, Seated, Accepts, Quieter
    <3>2. ASSUME Pending(r)
          PROVE  r \in daemon[d].socks /\ r.p # p /\ r.p \in Proc
      BY <1>5, <2>3, <3>2 DEF Pending, SpawnInv, SpawnTypeOK, Quieter, Sock
    <3> QED BY <1>4, <3>1, <3>2 DEF SpawnInv, Seated
  <2>4. \A d \in Daemon : \A r, q \in daemon'[d].socks : r.p = q.p /\ Pending(r) /\ Pending(q) => r = q
    BY <2>3 DEF SpawnInv, Seated
  <2>5. \A d \in Daemon : daemon'[d].st = "serving" /\ RegisteredAt(d)' = {} => daemon'[d].idle
    BY <1>5 DEF SpawnInv, Seated, Quieter, RegisteredAt
  <2>6. /\ faults' \in 0..MaxFaults /\ (path' # Nothing => daemon'[path'].st \in {"listening", "serving", "stopping", "dead"})
        /\ \A q \in Proc : proc'[q].at \in {"ack", "up", "client"} => proc'[q].d \in Daemon
    BY <1>1, <1>3, <1>4, <1>5, <2>1 DEF SpawnInv, Seated, SpawnTypeOK, Quieter
  <2> QED BY <2>2, <2>3, <2>4, <2>5, <2>6 DEF Seated
<1> QED BY <1>1, <1>3, <1>4, <1>5, <1>6, <1>7, SameDaemons DEF Ensuring, Quieter

LEMMA ProbeConnects ==
  ASSUME SpawnInv, NEW p \in Proc, Probe(p), Accepts(path), ~(Cardinality(RegisteredAt(path)) >= Crowd)
  PROVE  SpawnInv'
<1> DEFINE n == [p |-> p, n |-> faults, st |-> "sent", own |-> FALSE, gone |-> FALSE]
<1>1. /\ proc[p].at = "connect" /\ daemon' = [daemon EXCEPT ![path].socks = @ \cup {n}]
      /\ proc' = [proc EXCEPT ![p].at = "ack", ![p].d = path]
      /\ UNCHANGED <<path, unlinks, faults>> /\ Excuse(FALSE)
  BY DEF Probe
<1>2. path \in Daemon /\ faults \in 0..MaxFaults
  BY DEF Accepts, SpawnInv, SpawnTypeOK, Seated
<1>3. n \in Sock /\ n.p = p /\ Pending(n) /\ n.st = "sent"
  BY <1>2 DEF Sock, Pending
<1> HIDE DEF n
<1>4. /\ proc' \in [Proc -> [at : {"new", "look", "connect", "ack", "up", "client", "done"}, spawned : BOOLEAN, d : Daemon \cup {Nothing}]]
      /\ proc'[p].at = "ack" /\ proc'[p].d = path /\ proc'[p].spawned = proc[p].spawned /\ \A q \in Proc \ {p} : proc'[q] = proc[q]
  BY <1>1, <1>2 DEF SpawnInv, SpawnTypeOK
<1>5. /\ daemon' \in [Daemon -> [st : {"unused", "starting", "binding", "listening", "serving", "stopping", "closed", "dead"},
                                 socks : SUBSET Sock, idle : BOOLEAN]]
      /\ \A d \in Daemon : /\ daemon'[d].st = daemon[d].st /\ daemon'[d].idle = daemon[d].idle
                           /\ daemon'[d].socks = IF d = path THEN daemon[d].socks \cup {n} ELSE daemon[d].socks
  <2>1. daemon \in [Daemon -> [st : {"unused", "starting", "binding", "listening", "serving", "stopping", "closed", "dead"},
                               socks : SUBSET Sock, idle : BOOLEAN]]
    BY DEF SpawnInv, SpawnTypeOK
  <2> QED BY <1>1, <1>2, <1>3, <2>1
<1>6. SpawnTypeOK'
  BY <1>1, <1>4, <1>5 DEF SpawnInv, SpawnTypeOK
<1>7. Seated'
  <2>1. \A d \in Daemon : \A s \in daemon[d].socks : Pending(s) => s.p # p /\ s.p \in Proc
    BY <1>1, ProbesNothing DEF SpawnInv, SpawnTypeOK, Sock
  <2>2. ASSUME NEW q \in Proc, proc'[q].at = "ack"
        PROVE  SockOf(q)' # {} \/ daemon'[proc'[q].d].st \in {"closed", "dead"}
    <3>1. CASE q = p
      BY <1>2, <1>3, <1>4, <1>5, <3>1 DEF SockOf, Pending
    <3>2. CASE q # p
      <4>1. proc'[q] = proc[q] /\ proc[q].d \in Daemon /\ (SockOf(q) # {} \/ daemon[proc[q].d].st \in {"closed", "dead"})
        BY <1>4, <2>2, <3>2 DEF SpawnInv, Seated
      <4>2. SockOf(q) \subseteq SockOf(q)'
        BY <1>5, <4>1 DEF SockOf
      <4> QED BY <1>5, <4>1, <4>2
    <3> QED BY <3>1, <3>2
  <2>3. ASSUME NEW d \in Daemon, NEW r \in daemon'[d].socks
        PROVE  /\ Accepts(d)' /\ ((r = n /\ d = path) \/ r \in daemon[d].socks)
               /\ Pending(r) => proc'[r.p].at = "ack" /\ proc'[r.p].d = d
    <3>1. (r = n /\ d = path) \/ r \in daemon[d].socks
      BY <1>5, <2>3
    <3>2. Accepts(d)
      BY <3>1 DEF SpawnInv, Seated
    <3>3. Accepts(d)'
      BY <1>5, <3>2 DEF Accepts
    <3>4. ASSUME Pending(r)
          PROVE  proc'[r.p].at = "ack" /\ proc'[r.p].d = d
      <4>1. CASE r = n /\ d = path
        BY <1>3, <1>4, <4>1
      <4>2. CASE r \in daemon[d].socks
        BY <1>4, <2>1, <3>4, <4>2 DEF SpawnInv, Seated
      <4> QED BY <3>1, <4>1, <4>2
    <3> QED BY <3>1, <3>3, <3>4
  <2>4. \A d \in Daemon : \A r, q \in daemon'[d].socks : r.p = q.p /\ Pending(r) /\ Pending(q) => r = q
    BY <1>3, <2>1, <2>3 DEF SpawnInv, Seated
  <2>5. ASSUME NEW d \in Daemon, daemon'[d].st = "serving", RegisteredAt(d)' = {}
        PROVE  daemon'[d].idle
    <3>1. daemon[d].st = "serving" /\ RegisteredAt(d) = {}
      BY <1>5, <2>5 DEF RegisteredAt
    <3> QED BY <1>5, <3>1 DEF SpawnInv, Seated
  <2>6. /\ faults' \in 0..MaxFaults /\ (path' # Nothing => daemon'[path'].st \in {"listening", "serving", "stopping", "dead"})
        /\ \A q \in Proc : proc'[q].at \in {"ack", "up", "client"} => proc'[q].d \in Daemon
    BY <1>1, <1>2, <1>4, <1>5 DEF SpawnInv, Seated
  <2> QED BY <2>2, <2>3, <2>4, <2>5, <2>6 DEF Seated
<1> QED BY <1>1, <1>4, <1>5, <1>6, <1>7, SameDaemons DEF Ensuring


(* Steps of those who do not wait for an ack.                              *)
LEMMA SeatedStep ==
  ASSUME SpawnInv, SpawnTypeOK', faults' \in 0..MaxFaults,
         \A q \in Proc : /\ proc'[q].at \in {"up", "client"} => proc'[q].d \in Daemon
                         /\ proc'[q].at = "ack" <=> proc[q].at = "ack"
                         /\ proc'[q].at = "ack" => proc'[q].d = proc[q].d,
         \A d \in Daemon : \A s \in daemon'[d].socks :
            Accepts(d)' /\ (Pending(s) => \E r \in daemon[d].socks : Pending(r) /\ r.p = s.p),
         \A d \in Daemon : \/ daemon'[d].st \in {"closed", "dead"}
                           \/ /\ daemon[d].st \notin {"closed", "dead"}
                              /\ \A s \in daemon[d].socks : Pending(s) => \E r \in daemon'[d].socks : Pending(r) /\ r.p = s.p,
         \A d \in Daemon : \A s, r \in daemon'[d].socks : s.p = r.p /\ Pending(s) /\ Pending(r) => s = r,
         \A d \in Daemon : daemon'[d].st = "serving" /\ RegisteredAt(d)' = {} => daemon'[d].idle,
         path' # Nothing => daemon'[path'].st \in {"listening", "serving", "stopping", "dead"}
  PROVE  Seated'
<1>1. ASSUME NEW q \in Proc, proc'[q].at = "ack"
      PROVE  proc'[q].d \in Daemon /\ (SockOf(q)' # {} \/ daemon'[proc'[q].d].st \in {"closed", "dead"})
  <2>1. proc[q].at = "ack" /\ proc'[q].d = proc[q].d /\ proc[q].d \in Daemon /\ (SockOf(q) # {} \/ daemon[proc[q].d].st \in {"closed", "dead"})
    BY <1>1 DEF SpawnInv, Seated
  <2>2. CASE SockOf(q) # {} /\ daemon'[proc[q].d].st \notin {"closed", "dead"}
    <3>1. PICK s \in daemon[proc[q].d].socks : Pending(s) /\ s.p = q
      BY <2>2 DEF SockOf, Pending
    <3>2. PICK r \in daemon'[proc[q].d].socks : Pending(r) /\ r.p = q
      BY <2>1, <2>2, <3>1
    <3> QED BY <2>1, <3>2 DEF SockOf, Pending
  <2> QED BY <2>1, <2>2
<1>2. ASSUME NEW d \in Daemon, NEW s \in daemon'[d].socks, Pending(s)
      PROVE  proc'[s.p].at = "ack" /\ proc'[s.p].d = d
  <2>1. PICK r \in daemon[d].socks : Pending(r) /\ r.p = s.p
    BY <1>2
  <2>2. proc[r.p].at = "ack" /\ proc[r.p].d = d /\ r.p \in Proc
    BY <2>1 DEF SpawnInv, Seated, SpawnTypeOK, Sock
  <2> QED BY <2>1, <2>2
<1> QED BY <1>1, <1>2 DEF Seated

LEMMA DaemonsRest ==
  ASSUME SpawnInv, SpawnTypeOK', UNCHANGED <<daemon, path, faults>>,
         \A q \in Proc : \/ proc'[q] = proc[q]
                         \/ proc[q].at \in {"up", "client"} /\ proc'[q].at = "done"
  PROVE  Seated'
<1>1. \A q \in Proc : /\ proc'[q].at \in {"up", "client"} => proc'[q].d \in Daemon
                      /\ proc'[q].at = "ack" <=> proc[q].at = "ack"
                      /\ proc'[q].at = "ack" => proc'[q].d = proc[q].d
  BY DEF SpawnInv, Seated
<1>2. \A d \in Daemon : \A s \in daemon'[d].socks : Accepts(d)' /\ (Pending(s) => \E r \in daemon[d].socks : Pending(r) /\ r.p = s.p)
  BY DEF SpawnInv, Seated, Accepts
<1>3. \A d \in Daemon : daemon[d].st \in {"closed", "dead"} \/ \A s \in daemon[d].socks : Pending(s) => \E r \in daemon'[d].socks : Pending(r) /\ r.p = s.p
  OBVIOUS
<1>4. /\ \A d \in Daemon : \A s, r \in daemon'[d].socks : s.p = r.p /\ Pending(s) /\ Pending(r) => s = r
      /\ \A d \in Daemon : daemon'[d].st = "serving" /\ RegisteredAt(d)' = {} => daemon'[d].idle
      /\ (path' # Nothing => daemon'[path'].st \in {"listening", "serving", "stopping", "dead"}) /\ faults' \in 0..MaxFaults
  BY DEF SpawnInv, Seated, RegisteredAt
<1> QED BY <1>1, <1>2, <1>3, <1>4, SeatedStep

(* A connection of one daemon changes, is made or goes.                    *)
LEMMA OneSock ==
  ASSUME SpawnInv, NEW d \in Daemon, NEW n \in SUBSET Sock, NEW i \in BOOLEAN,
         daemon' = [daemon EXCEPT ![d].socks = n, ![d].idle = i]
  PROVE  /\ daemon' \in [Daemon -> [st : {"unused", "starting", "binding", "listening", "serving", "stopping", "closed", "dead"},
                                    socks : SUBSET Sock, idle : BOOLEAN]]
         /\ daemon'[d].st = daemon[d].st /\ daemon'[d].socks = n /\ daemon'[d].idle = i
         /\ \A e \in Daemon \ {d} : daemon'[e] = daemon[e]
<1>1. daemon \in [Daemon -> [st : {"unused", "starting", "binding", "listening", "serving", "stopping", "closed", "dead"},
                             socks : SUBSET Sock, idle : BOOLEAN]]
  BY DEF SpawnInv, SpawnTypeOK
<1> QED BY <1>1

SockChange(d, n, i) ==
  /\ n \in SUBSET Sock /\ i \in BOOLEAN /\ daemon' = [daemon EXCEPT ![d].socks = n, ![d].idle = i]
  /\ \A s \in n : Pending(s) => \E r \in daemon[d].socks : Pending(r) /\ r.p = s.p
  /\ \A s \in daemon[d].socks : Pending(s) => \E r \in n : Pending(r) /\ r.p = s.p
  /\ \A s, r \in n : s.p = r.p /\ Pending(s) /\ Pending(r) => s = r
  /\ (\A s \in n : s.st # "registered") => i \/ daemon[d].st # "serving"

LEMMA SockStep ==
  ASSUME SpawnInv, NEW d \in Daemon, Accepts(d), NEW n, NEW i, SockChange(d, n, i),
         proc' \in [Proc -> [at : {"new", "look", "connect", "ack", "up", "client", "done"}, spawned : BOOLEAN, d : Daemon \cup {Nothing}]],
         \A q \in Proc : \/ proc'[q] = proc[q]
                         \/ /\ proc[q].at \in {"up", "client"} /\ proc'[q].at \in {"client", "done"}
                            /\ proc'[q].at = "client" => proc'[q].d \in Daemon,
         UNCHANGED <<path, unlinks, faults>>, Excuse(FALSE)
  PROVE  SpawnInv'
<1> USE DEF SockChange
<1>1. /\ daemon' \in [Daemon -> [st : {"unused", "starting", "binding", "listening", "serving", "stopping", "closed", "dead"},
                                 socks : SUBSET Sock, idle : BOOLEAN]]
      /\ daemon'[d].st = daemon[d].st /\ daemon'[d].socks = n /\ daemon'[d].idle = i /\ \A e \in Daemon \ {d} : daemon'[e] = daemon[e]
  BY OneSock
<1>2. SpawnTypeOK'
  BY <1>1 DEF SpawnInv, SpawnTypeOK
<1>3. \A e \in Daemon : daemon'[e].st = daemon[e].st /\ (Accepts(e)' <=> Accepts(e))
  BY <1>1 DEF Accepts
<1>4. Seated'
  <2>1. \A q \in Proc : /\ proc'[q].at \in {"up", "client"} => proc'[q].d \in Daemon
                        /\ proc'[q].at = "ack" <=> proc[q].at = "ack"
                        /\ proc'[q].at = "ack" => proc'[q].d = proc[q].d
    BY DEF SpawnInv, Seated
  <2>2. ASSUME NEW e \in Daemon, NEW s \in daemon'[e].socks
        PROVE  Accepts(e)' /\ (Pending(s) => \E r \in daemon[e].socks : Pending(r) /\ r.p = s.p)
    <3>1. CASE e = d
      BY <1>1, <1>3, <2>2, <3>1
    <3>2. CASE e # d
      BY <1>1, <1>3, <2>2, <3>2 DEF SpawnInv, Seated
    <3> QED BY <3>1, <3>2
  <2>3. ASSUME NEW e \in Daemon, NEW s \in daemon[e].socks, Pending(s)
        PROVE  \E r \in daemon'[e].socks : Pending(r) /\ r.p = s.p
    BY <1>1, <2>3
  <2>4. \A e \in Daemon : \A s, r \in daemon'[e].socks : s.p = r.p /\ Pending(s) /\ Pending(r) => s = r
    BY <1>1 DEF SpawnInv, Seated
  <2>5. ASSUME NEW e \in Daemon, daemon'[e].st = "serving", RegisteredAt(e)' = {}
        PROVE  daemon'[e].idle
    <3>1. CASE e = d
      BY <1>1, <2>5, <3>1 DEF RegisteredAt
    <3>2. CASE e # d
      BY <1>1, <2>5, <3>2 DEF RegisteredAt, SpawnInv, Seated
    <3> QED BY <3>1, <3>2
  <2>6. /\ faults' \in 0..MaxFaults /\ (path' # Nothing => daemon'[path'].st \in {"listening", "serving", "stopping", "dead"})
    BY <1>3 DEF SpawnInv, Seated, SpawnTypeOK
  <2> QED BY <1>2, <1>3, <2>1, <2>2, <2>3, <2>4, <2>5, <2>6, SeatedStep
<1>5. \A q \in Proc : Ensuring(q) /\ proc[q].spawned => Ensuring(q)' /\ proc'[q].spawned
  BY DEF Ensuring
<1> QED BY <1>2, <1>3, <1>4, <1>5, SameDaemons


LEMMA JoinKeeps == ASSUME SpawnInv, NEW p \in Proc, Join(p) PROVE SpawnInv'
<1>1. proc[p].at = "up" /\ UNCHANGED <<path, unlinks, faults>> /\ Excuse(FALSE)
  BY DEF Join
<1>2. CASE Accepts(path) /\ Cardinality(RegisteredAt(path)) < Crowd
  <2> DEFINE s == [p |-> p, n |-> 0, st |-> "registered", own |-> TRUE, gone |-> FALSE]
             n == daemon[path].socks \cup {s}
  <2>1. path \in Daemon
    BY <1>2 DEF Accepts, SpawnInv, SpawnTypeOK
  <2>2. s \in Sock /\ ~Pending(s) /\ s.st = "registered"
    BY SpawnAssumption DEF Sock, Pending
  <2>3. proc' = [proc EXCEPT ![p] = [at |-> "client", spawned |-> FALSE, d |-> path]]
    BY <1>2 DEF Join
  <2>4. daemon' = [daemon EXCEPT ![path].socks = n, ![path].idle = FALSE]
    BY <1>2 DEF Join
  <2> HIDE DEF s
  <2>5. n \in SUBSET Sock
    BY <2>1, <2>2 DEF SpawnInv, SpawnTypeOK
  <2>6. /\ proc' \in [Proc -> [at : {"new", "look", "connect", "ack", "up", "client", "done"}, spawned : BOOLEAN, d : Daemon \cup {Nothing}]]
        /\ proc'[p].at = "client" /\ proc'[p].d = path /\ \A q \in Proc \ {p} : proc'[q] = proc[q]
    BY <2>1, <2>3 DEF SpawnInv, SpawnTypeOK
  <2>7. \A r \in n : (Pending(r) => r \in daemon[path].socks) /\ (r.st # "registered" => r # s)
    BY <2>2
  <2>8. s \in n /\ \A r \in daemon[path].socks : r \in n
    OBVIOUS
  <2> HIDE DEF n
  <2>9. \A r, q \in n : r.p = q.p /\ Pending(r) /\ Pending(q) => r = q
    BY <2>1, <2>7 DEF SpawnInv, Seated
  <2>10. \A q \in Proc : \/ proc'[q] = proc[q]
                         \/ /\ proc[q].at \in {"up", "client"} /\ proc'[q].at \in {"client", "done"}
                            /\ proc'[q].at = "client" => proc'[q].d \in Daemon
    BY <1>1, <2>1, <2>6
  <2>11. /\ \A q \in n : Pending(q) => \E o \in daemon[path].socks : Pending(o) /\ o.p = q.p
         /\ \A q \in daemon[path].socks : Pending(q) => \E o \in n : Pending(o) /\ o.p = q.p
         /\ (\A q \in n : q.st # "registered") => FALSE \/ daemon[path].st # "serving"
    BY <2>2, <2>7, <2>8
  <2>12. SockChange(path, n, FALSE)
    BY <2>4, <2>5, <2>9, <2>11 DEF SockChange
  <2> QED BY <1>1, <1>2, <2>1, <2>6, <2>10, <2>12, SockStep
<1>3. CASE ~(Accepts(path) /\ Cardinality(RegisteredAt(path)) < Crowd)
  <2>1. proc' = [proc EXCEPT ![p] = [at |-> "done", spawned |-> FALSE, d |-> Nothing]] /\ UNCHANGED daemon
    BY <1>3 DEF Join, Done
  <2>2. /\ proc' \in [Proc -> [at : {"new", "look", "connect", "ack", "up", "client", "done"}, spawned : BOOLEAN, d : Daemon \cup {Nothing}]]
        /\ proc'[p].at = "done" /\ \A q \in Proc \ {p} : proc'[q] = proc[q]
    BY <2>1 DEF SpawnInv, SpawnTypeOK
  <2>3. SpawnTypeOK'
    BY <1>1, <2>1, <2>2 DEF SpawnInv, SpawnTypeOK
  <2>4. \A q \in Proc : proc'[q].at # "done" => proc'[q] = proc[q]
    BY <2>2
  <2>5. Seated'
    BY <1>1, <2>1, <2>2, <2>3, DaemonsRest
  <2> QED BY <1>1, <2>1, <2>2, <2>3, <2>5, SameDaemons DEF Ensuring
<1> QED BY <1>2, <1>3

LEMMA QuitKeeps == ASSUME SpawnInv, NEW p \in Proc, Quit(p) PROVE SpawnInv'
<1> DEFINE a == proc[p].d
           F(s) == IF s.p = p /\ s.own THEN [s EXCEPT !.gone = TRUE] ELSE s
           n == {F(s) : s \in daemon[a].socks}
<1>1. /\ proc[p].at = "client" /\ UNCHANGED <<path, unlinks, faults>> /\ Excuse(FALSE)
      /\ proc' = [proc EXCEPT ![p] = [at |-> "done", spawned |-> FALSE, d |-> Nothing]]
      /\ daemon' = [daemon EXCEPT ![a].socks = n]
  BY DEF Quit, Done
<1>2. a \in Daemon /\ daemon \in [Daemon -> [st : {"unused", "starting", "binding", "listening", "serving", "stopping", "closed", "dead"},
                                             socks : SUBSET Sock, idle : BOOLEAN]]
  BY <1>1 DEF SpawnInv, Seated, SpawnTypeOK
<1>3. /\ proc' \in [Proc -> [at : {"new", "look", "connect", "ack", "up", "client", "done"}, spawned : BOOLEAN, d : Daemon \cup {Nothing}]]
      /\ proc'[p].at = "done" /\ \A q \in Proc \ {p} : proc'[q] = proc[q]
  BY <1>1 DEF SpawnInv, SpawnTypeOK
<1>4. ASSUME NEW s \in Sock
      PROVE  F(s) \in Sock /\ F(s).p = s.p /\ F(s).st = s.st /\ F(s).own = s.own /\ (Pending(F(s)) <=> Pending(s)) /\ (Pending(s) => F(s) = s)
  BY DEF Sock, Pending
<1> HIDE DEF F
<1>5. n \in SUBSET Sock
  BY <1>2, <1>4
<1>6. \A s \in daemon[a].socks : s \in Sock /\ F(s) \in n
  BY <1>2
<1>7. \A r \in n : \E s \in daemon[a].socks : r = F(s)
  OBVIOUS
<1> HIDE DEF n, a
<1>8. daemon' = [daemon EXCEPT ![a].socks = n, ![a].idle = daemon[a].idle] /\ daemon[a].idle \in BOOLEAN
  BY <1>1, <1>2
<1>9. CASE daemon[a].socks # {}
  <2>1. Accepts(a)
    BY <1>2, <1>9 DEF SpawnInv, Seated
  <2>2. \A r \in n : Pending(r) => r \in daemon[a].socks
    BY <1>4, <1>6, <1>7
  <2>3. \A s \in daemon[a].socks : Pending(s) => s \in n
    BY <1>4, <1>6
  <2>4. \A r, q \in n : r.p = q.p /\ Pending(r) /\ Pending(q) => r = q
    BY <1>2, <2>2 DEF SpawnInv, Seated
  <2>5. (\A s \in n : s.st # "registered") => daemon[a].idle \/ daemon[a].st # "serving"
    BY <1>2, <1>4, <1>6 DEF SpawnInv, Seated, RegisteredAt
  <2>6. \A q \in Proc : \/ proc'[q] = proc[q]
                        \/ /\ proc[q].at \in {"up", "client"} /\ proc'[q].at \in {"client", "done"}
                           /\ proc'[q].at = "client" => proc'[q].d \in Daemon
    BY <1>1, <1>3
  <2>7. /\ \A q \in n : Pending(q) => \E o \in daemon[a].socks : Pending(o) /\ o.p = q.p
        /\ \A q \in daemon[a].socks : Pending(q) => \E o \in n : Pending(o) /\ o.p = q.p
    BY <2>2, <2>3
  <2>8. SockChange(a, n, daemon[a].idle)
    BY <1>5, <1>8, <2>4, <2>5, <2>7 DEF SockChange
  <2> QED BY <1>1, <1>2, <1>3, <2>1, <2>6, <2>8, SockStep
<1>10. CASE daemon[a].socks = {}
  <2>1. daemon' = daemon
    BY <1>2, <1>7, <1>8, <1>10
  <2>2. SpawnTypeOK'
    BY <1>1, <1>3, <2>1 DEF SpawnInv, SpawnTypeOK
  <2>3. \A q \in Proc : proc'[q].at # "done" => proc'[q] = proc[q]
    BY <1>3
  <2>4. Seated'
    BY <1>1, <1>3, <2>1, <2>2, DaemonsRest
  <2> QED BY <1>1, <1>3, <2>1, <2>2, <2>4, SameDaemons DEF Ensuring
<1> QED BY <1>9, <1>10

LEMMA ReadLineKeeps == ASSUME SpawnInv, NEW d \in Daemon, ReadLine(d) PROVE SpawnInv'
<1>1. PICK s \in daemon[d].socks :
        /\ s.st = "sent"
        /\ LET taken == \E o \in RegisteredAt(d) : ~o.own
           IN  daemon' = [daemon EXCEPT ![d].socks = (@ \ {s}) \cup {[s EXCEPT !.st = IF taken THEN "rejected" ELSE "registered"]},
                                        ![d].idle = taken /\ @]
  BY DEF ReadLine
<1> DEFINE taken == \E o \in RegisteredAt(d) : ~o.own
           r == [s EXCEPT !.st = IF taken THEN "rejected" ELSE "registered"]
           n == (daemon[d].socks \ {s}) \cup {r}
           i == taken /\ daemon[d].idle
<1>2. Accepts(d) /\ UNCHANGED <<proc, path, unlinks, faults>> /\ Excuse(FALSE)
  BY DEF ReadLine
<1>3. /\ daemon \in [Daemon -> [st : {"unused", "starting", "binding", "listening", "serving", "stopping", "closed", "dead"},
                               socks : SUBSET Sock, idle : BOOLEAN]]
      /\ proc \in [Proc -> [at : {"new", "look", "connect", "ack", "up", "client", "done"}, spawned : BOOLEAN, d : Daemon \cup {Nothing}]]
  BY DEF SpawnInv, SpawnTypeOK
<1>4. s \in Sock
  BY <1>3
<1>5. r \in Sock /\ r.p = s.p /\ r.own = s.own /\ r.gone = s.gone /\ (~taken => r.st = "registered")
  BY <1>4 DEF Sock
<1>6. daemon' = [daemon EXCEPT ![d].socks = n, ![d].idle = i] /\ i \in BOOLEAN /\ n \in SUBSET Sock
  BY <1>1, <1>3, <1>5
<1> HIDE DEF r
<1>7. \A q \in n : q = r \/ q \in daemon[d].socks \ {s}
  OBVIOUS
<1>8. r \in n /\ \A q \in daemon[d].socks : q = s \/ q \in n
  OBVIOUS
<1>9. ASSUME \A q \in n : q.st # "registered"
      PROVE  i \/ daemon[d].st # "serving"
  <2>1. taken
    BY <1>5, <1>8, <1>9
  <2>2. PICK o \in daemon[d].socks : o.st = "registered"
    BY <2>1 DEF RegisteredAt
  <2>3. o \in n
    BY <1>1, <1>8, <2>2
  <2> QED BY <1>9, <2>2, <2>3
<1> HIDE DEF n, i, taken
<1>10. (Pending(r) <=> Pending(s)) /\ r.p = s.p
  BY <1>5 DEF Pending
<1>11. /\ \A q \in n : Pending(q) => \E o \in daemon[d].socks : Pending(o) /\ o.p = q.p
       /\ \A q \in daemon[d].socks : Pending(q) => \E o \in n : Pending(o) /\ o.p = q.p
  BY <1>7, <1>8, <1>10
<1>12. \A q, o \in n : q.p = o.p /\ Pending(q) /\ Pending(o) => q = o
  BY <1>7, <1>10 DEF SpawnInv, Seated
<1>13. SockChange(d, n, i)
  BY <1>6, <1>9, <1>11, <1>12 DEF SockChange
<1> QED BY <1>2, <1>3, <1>13, SockStep

LEMMA SockClosesKeeps == ASSUME SpawnInv, NEW d \in Daemon, SockCloses(d) PROVE SpawnInv'
<1>1. PICK s \in daemon[d].socks : /\ s.gone /\ s.st # "sent"
                                   /\ daemon' = [daemon EXCEPT ![d].socks = @ \ {s}, ![d].idle = Armed(d, s)]
  BY DEF SockCloses
<1> DEFINE n == daemon[d].socks \ {s}
           i == Armed(d, s)
<1>2. Accepts(d) /\ UNCHANGED <<proc, path, unlinks, faults>> /\ Excuse(FALSE)
  BY DEF SockCloses
<1>3. /\ daemon \in [Daemon -> [st : {"unused", "starting", "binding", "listening", "serving", "stopping", "closed", "dead"},
                               socks : SUBSET Sock, idle : BOOLEAN]]
      /\ proc \in [Proc -> [at : {"new", "look", "connect", "ack", "up", "client", "done"}, spawned : BOOLEAN, d : Daemon \cup {Nothing}]]
  BY DEF SpawnInv, SpawnTypeOK
<1>4. daemon' = [daemon EXCEPT ![d].socks = n, ![d].idle = i] /\ i \in BOOLEAN /\ n \in SUBSET Sock
  BY <1>1, <1>3 DEF Armed
<1>5. ASSUME \A q \in n : q.st # "registered"
      PROVE  i \/ daemon[d].st # "serving"
  <2>1. CASE s.st = "registered"
    BY <1>5, <2>1 DEF Armed, RegisteredAt
  <2>2. CASE s.st # "registered"
    BY <1>5, <2>2 DEF Armed, RegisteredAt, SpawnInv, Seated
  <2> QED BY <2>1, <2>2
<1>6. \A q \in daemon[d].socks : Pending(q) => q \in n
  BY <1>1 DEF Pending
<1>7. \A q, o \in n : q.p = o.p /\ Pending(q) /\ Pending(o) => q = o
  BY DEF SpawnInv, Seated
<1>8. \A q \in n : q \in daemon[d].socks
  OBVIOUS
<1> HIDE DEF n, i
<1>9. SockChange(d, n, i)
  BY <1>4, <1>5, <1>6, <1>7, <1>8 DEF SockChange
<1> QED BY <1>2, <1>3, <1>9, SockStep


LEMMA UnlinkKeeps == ASSUME SpawnInv, Unlink PROVE SpawnInv'
<1>1. /\ path' = Nothing /\ UNCHANGED <<proc, daemon, faults>>
      /\ \E u \in unlinks : unlinks' = unlinks \ {u} /\ Excuse(path \notin {Nothing, u})
  BY DEF Unlink
<1>2. SpawnTypeOK'
  BY <1>1 DEF SpawnInv, SpawnTypeOK
<1>3. Seated'
  <2>1. \A q \in Proc : SockOf(q)' = SockOf(q)
    BY <1>1 DEF SockOf
  <2>2. \A d \in Daemon : (Accepts(d)' <=> Accepts(d)) /\ RegisteredAt(d)' = RegisteredAt(d)
    BY <1>1 DEF Accepts, RegisteredAt
  <2> QED BY <1>1, <2>1, <2>2 DEF SpawnInv, Seated
<1>4. ASSUME ~excused'
      PROVE  Unmet'
  <2>1. PICK u \in unlinks : unlinks' = unlinks \ {u} /\ Excuse(path \notin {Nothing, u})
    BY <1>1
  <2>2. Unmet /\ path \in {Nothing, u} /\ ~Meeting'
    BY <1>4, <2>1 DEF Excuse, SpawnInv
  <2>3. \A d \in Daemon : ~Accepts(d)
    BY <2>2, SpawnAssumption DEF Unmet, Accepts
  <2>4. \A d \in Daemon : ~Accepts(d)'
    BY <1>1, <2>3 DEF Accepts
  <2> QED BY <1>1, <2>1, <2>2, <2>4 DEF Unmet, Ensuring, Alive
<1> QED BY <1>2, <1>3, <1>4 DEF SpawnInv

(* One daemon moves on, or goes with its connections.                      *)
DaemonMoves(d, st, i) ==
  /\ daemon' \in [Daemon -> [st : {"unused", "starting", "binding", "listening", "serving", "stopping", "closed", "dead"},
                             socks : SUBSET Sock, idle : BOOLEAN]]
  /\ daemon'[d].st = st /\ daemon'[d].socks = daemon[d].socks /\ daemon'[d].idle = i /\ \A e \in Daemon \ {d} : daemon'[e] = daemon[e]

LEMMA Moved ==
  ASSUME SpawnInv, NEW d \in Daemon, NEW st \in {"binding", "listening", "serving", "stopping", "dead"}, NEW i \in BOOLEAN,
         daemon' = [daemon EXCEPT ![d].st = st, ![d].idle = i] \/ (daemon' = [daemon EXCEPT ![d].st = st] /\ i = daemon[d].idle)
  PROVE  DaemonMoves(d, st, i)
<1>1. daemon \in [Daemon -> [st : {"unused", "starting", "binding", "listening", "serving", "stopping", "closed", "dead"},
                             socks : SUBSET Sock, idle : BOOLEAN]]
  BY DEF SpawnInv, SpawnTypeOK
<1>2. CASE daemon' = [daemon EXCEPT ![d].st = st, ![d].idle = i]
  <2> DEFINE x == [[daemon[d] EXCEPT !.st = st] EXCEPT !.idle = i]
  <2>1. /\ x \in [st : {"unused", "starting", "binding", "listening", "serving", "stopping", "closed", "dead"}, socks : SUBSET Sock, idle : BOOLEAN]
        /\ x.st = st /\ x.socks = daemon[d].socks /\ x.idle = i
    BY <1>1
  <2>2. daemon' = [daemon EXCEPT ![d] = x]
    BY <1>1, <1>2
  <2> HIDE DEF x
  <2> QED BY <1>1, <2>1, <2>2 DEF DaemonMoves
<1>3. CASE daemon' = [daemon EXCEPT ![d].st = st] /\ i = daemon[d].idle
  BY <1>1, <1>3 DEF DaemonMoves
<1> QED BY <1>2, <1>3

LEMMA MovedIsSeated ==
  ASSUME SpawnInv, NEW d \in Daemon, NEW st \in {"binding", "listening", "serving", "stopping", "dead"}, NEW i \in BOOLEAN,
         DaemonMoves(d, st, i), proc' = proc, faults' \in 0..MaxFaults, path' \in {Nothing, path, d}, unlinks' = unlinks,
         daemon[d].socks # {} => st \in {"listening", "serving", "stopping"},
         st = "serving" => RegisteredAt(d) # {} \/ i,
         daemon[d].st # "dead",
         st = "dead" \/ daemon[d].st # "closed",
         path' = d => st \in {"listening", "serving", "stopping", "dead"}
  PROVE  SpawnTypeOK' /\ Seated'
<1>1. SpawnTypeOK'
  BY DEF SpawnInv, SpawnTypeOK, DaemonMoves
<1>2. \A q \in Proc : /\ proc'[q].at \in {"up", "client"} => proc'[q].d \in Daemon
                      /\ proc'[q].at = "ack" <=> proc[q].at = "ack"
                      /\ proc'[q].at = "ack" => proc'[q].d = proc[q].d
  BY DEF SpawnInv, Seated
<1>3. \A e \in Daemon : daemon'[e].socks = daemon[e].socks
  BY DEF DaemonMoves
<1>4. ASSUME NEW e \in Daemon, NEW s \in daemon'[e].socks
      PROVE  Accepts(e)' /\ (Pending(s) => \E r \in daemon[e].socks : Pending(r) /\ r.p = s.p)
  <2>1. Accepts(e)
    BY <1>3, <1>4 DEF SpawnInv, Seated
  <2>2. Accepts(e)'
    BY <1>3, <1>4, <2>1 DEF DaemonMoves, Accepts
  <2> QED BY <1>3, <1>4, <2>2
<1>5. \A e \in Daemon : \/ daemon'[e].st \in {"closed", "dead"}
                        \/ /\ daemon[e].st \notin {"closed", "dead"}
                           /\ \A s \in daemon[e].socks : Pending(s) => \E r \in daemon'[e].socks : Pending(r) /\ r.p = s.p
  BY <1>3 DEF DaemonMoves
<1>6. /\ \A e \in Daemon : \A s, r \in daemon'[e].socks : s.p = r.p /\ Pending(s) /\ Pending(r) => s = r
      /\ \A e \in Daemon : daemon'[e].st = "serving" /\ RegisteredAt(e)' = {} => daemon'[e].idle
  BY <1>3 DEF SpawnInv, Seated, RegisteredAt, DaemonMoves
<1>7. path' # Nothing => daemon'[path'].st \in {"listening", "serving", "stopping", "dead"}
  BY DEF SpawnInv, Seated, DaemonMoves, SpawnTypeOK
<1> QED BY <1>1, <1>2, <1>4, <1>5, <1>6, <1>7, SeatedStep

LEMMA ClearKeeps == ASSUME SpawnInv, NEW d \in Daemon, Clear(d) PROVE SpawnInv'
<1>1. /\ daemon[d].st = "starting" /\ daemon' = [daemon EXCEPT ![d].st = "binding"]
      /\ path' = Nothing /\ UNCHANGED <<proc, unlinks, faults>> /\ Excuse(Accepts(path))
  BY DEF Clear
<1>2. DaemonMoves(d, "binding", daemon[d].idle) /\ daemon[d].idle \in BOOLEAN /\ faults' \in 0..MaxFaults
  BY <1>1, Moved DEF SpawnInv, SpawnTypeOK, Seated
<1>3. daemon[d].socks = {}
  BY <1>1 DEF SpawnInv, Seated, Accepts
<1>4. SpawnTypeOK' /\ Seated'
  BY <1>1, <1>2, <1>3, MovedIsSeated, SpawnAssumption
<1>5. ASSUME ~excused'
      PROVE  Unmet'
  <2>1. Unmet /\ ~Accepts(path) /\ ~Meeting'
    BY <1>1, <1>5 DEF Excuse, SpawnInv
  <2>2. \A e \in Daemon : ~Accepts(e)
    BY <2>1 DEF Unmet
  <2>3. \A e \in Daemon : ~Accepts(e)' /\ (Alive(e)' <=> Alive(e)) /\ (daemon'[e].st \in {"starting", "binding"} <=> daemon[e].st \in {"starting", "binding"})
    BY <1>1, <1>2, <2>2 DEF Accepts, Alive, DaemonMoves
  <2>4. \A e \in Daemon : e # d => daemon'[e] = daemon[e]
    BY <1>2 DEF DaemonMoves
  <2>5. \A u \in unlinks : u # Nothing => u # d /\ u \in Daemon
    BY <1>1, <2>1 DEF Unmet, SpawnInv, SpawnTypeOK
  <2>6. \A q \in Proc : proc[q].at = "up" => proc[q].d # d /\ proc[q].d \in Daemon
    BY <1>1, <2>1 DEF Unmet, SpawnInv, Seated
  <2> QED BY <1>1, <2>1, <2>3, <2>4, <2>5, <2>6 DEF Unmet, Ensuring
<1> QED BY <1>4, <1>5 DEF SpawnInv

LEMMA BindKeeps == ASSUME SpawnInv, NEW d \in Daemon, Bind(d) PROVE SpawnInv'
<1>1. /\ daemon[d].st = "binding" /\ UNCHANGED <<proc, unlinks, faults>> /\ Excuse(FALSE)
      /\ \/ path = Nothing /\ path' = d /\ daemon' = [daemon EXCEPT ![d].st = "listening"]
         \/ path # Nothing /\ path' = path /\ daemon' = [daemon EXCEPT ![d].st = "dead"]
  BY DEF Bind
<1>2. daemon[d].socks = {} /\ daemon[d].idle \in BOOLEAN /\ faults' \in 0..MaxFaults
  BY <1>1 DEF SpawnInv, Seated, Accepts, SpawnTypeOK
<1>3. PICK st \in {"listening", "dead"} :
        /\ DaemonMoves(d, st, daemon[d].idle)
        /\ st = "listening" => path = Nothing /\ path' = d
        /\ st = "dead" => path # Nothing /\ path' = path
  BY <1>1, <1>2, Moved
<1>4. path # d
  BY <1>1, SpawnAssumption DEF SpawnInv, Seated
<1>5. SpawnTypeOK' /\ Seated'
  BY <1>1, <1>2, <1>3, <1>4, MovedIsSeated
<1>6. ASSUME ~excused'
      PROVE  Unmet'
  <2>1. Unmet /\ ~Meeting'
    BY <1>1, <1>6 DEF Excuse, SpawnInv
  <2>2. \A e \in Daemon : (e # d => daemon'[e] = daemon[e]) /\ daemon'[d].st = st
    BY <1>3 DEF DaemonMoves
  <2>3. \A e \in Daemon : Alive(e) => e = d
    BY <1>1, <2>1 DEF Unmet, Alive
  <2>4. \A e \in Daemon : (Alive(e)' => e = d) /\ (Accepts(e)' => e = d /\ st = "listening") /\ daemon'[e].st \notin {"starting", "binding"}
    BY <2>2, <2>3 DEF Alive, Accepts
  <2>5. \A u \in unlinks : u # Nothing => u # d /\ u \in Daemon
    BY <1>1, <2>1 DEF Unmet, SpawnInv, SpawnTypeOK
  <2>6. \A q \in Proc : /\ proc[q].at = "up" => proc[q].d # d /\ proc[q].d \in Daemon
                        /\ proc[q].at = "ack" => proc[q].d = d
    BY <1>1, <2>1 DEF Unmet, SpawnInv, Seated, Alive
  <2> QED BY <1>1, <1>3, <2>1, <2>2, <2>4, <2>5, <2>6 DEF Unmet
<1> QED BY <1>5, <1>6 DEF SpawnInv

(* What a daemon that listens does on its way to its stop.                 *)
LEMMA ServesOn ==
  ASSUME SpawnInv, NEW d \in Daemon, NEW st \in {"serving", "stopping"}, daemon[d].st \in {"listening", "serving"},
         NEW i \in BOOLEAN, DaemonMoves(d, st, i), UNCHANGED <<proc, path, unlinks>>, faults' \in 0..MaxFaults, Excuse(FALSE),
         st = "serving" => RegisteredAt(d) # {} \/ i
  PROVE  SpawnInv'
<1>1. SpawnTypeOK' /\ Seated'
  BY MovedIsSeated
<1>2. ASSUME ~excused'
      PROVE  Unmet'
  <2>1. Unmet /\ ~Meeting'
    BY <1>2 DEF Excuse, SpawnInv
  <2>2. \A e \in Daemon : /\ (Accepts(e)' <=> Accepts(e)) /\ (Alive(e)' <=> Alive(e))
                          /\ (daemon'[e].st \in {"starting", "binding", "dead"} \/ daemon[e].st \in {"starting", "binding", "dead"}
                                => daemon'[e].st = daemon[e].st)
    BY DEF Accepts, Alive, DaemonMoves
  <2>3. ASSUME NEW q \in Proc, proc[q].at = "up"
        PROVE  daemon'[proc[q].d].st \in {"listening", "serving", "dead"}
    <3>1. proc[q].d \in Daemon /\ daemon[proc[q].d].st \in {"listening", "serving", "dead"}
      BY <2>1, <2>3 DEF Unmet, SpawnInv, Seated
    <3>2. daemon'[proc[q].d].st # "stopping"
      BY <2>1, <2>3, <3>1 DEF Meeting
    <3> QED BY <3>1, <3>2 DEF DaemonMoves
  <2>4. \A u \in unlinks : u # Nothing => u \in Daemon
    BY DEF SpawnInv, SpawnTypeOK
  <2> QED BY <2>1, <2>2, <2>3, <2>4 DEF Unmet, Ensuring
<1> QED BY <1>1, <1>2 DEF SpawnInv

LEMMA ServeKeeps == ASSUME SpawnInv, NEW d \in Daemon, Serve(d) PROVE SpawnInv'
<1> DEFINE i == RegisteredAt(d) = {}
<1>1. /\ daemon[d].st = "listening" /\ daemon' = [daemon EXCEPT ![d].st = "serving", ![d].idle = i]
      /\ UNCHANGED <<proc, path, unlinks, faults>> /\ Excuse(FALSE) /\ i \in BOOLEAN /\ (RegisteredAt(d) # {} \/ i)
  BY DEF Serve
<1> HIDE DEF i
<1>2. DaemonMoves(d, "serving", i) /\ faults' \in 0..MaxFaults
  BY <1>1, Moved DEF SpawnInv, Seated
<1> QED BY <1>1, <1>2, ServesOn

LEMMA ShutsKeeps == ASSUME SpawnInv, NEW d \in Daemon, Shuts(d) PROVE SpawnInv'
<1>1. /\ daemon[d].st = "serving" /\ daemon' = [daemon EXCEPT ![d].st = "stopping"]
      /\ UNCHANGED <<proc, path, unlinks>> /\ Excuse(FALSE)
      /\ faults' = faults \/ (faults < MaxFaults /\ faults' = faults + 1)
  BY DEF Shuts
<1>2. daemon[d].idle \in BOOLEAN /\ faults' \in 0..MaxFaults
  BY <1>1, SpawnAssumption DEF SpawnInv, Seated, SpawnTypeOK
<1>3. DaemonMoves(d, "stopping", daemon[d].idle)
  BY <1>1, <1>2, Moved
<1> QED BY <1>1, <1>2, <1>3, ServesOn


DaemonGone(d, st) ==
  /\ daemon' \in [Daemon -> [st : {"unused", "starting", "binding", "listening", "serving", "stopping", "closed", "dead"},
                             socks : SUBSET Sock, idle : BOOLEAN]]
  /\ daemon'[d].st = st /\ daemon'[d].socks = {} /\ \A e \in Daemon \ {d} : daemon'[e] = daemon[e]

(* A daemon that ends takes its connections and clients with it.           *)
LEMMA Ends ==
  ASSUME SpawnInv, NEW d \in Daemon, NEW st \in {"closed", "dead"}, daemon[d].st \notin {"unused", "dead"},
         DaemonGone(d, st),
         proc' = Cut(d), faults' \in 0..MaxFaults, unlinks' = unlinks, Excuse(FALSE),
         path' = Nothing \/ (path' = path /\ st = "dead"),
         path' = Nothing => excused' \/ \A e \in Daemon : Accepts(e) => e = d
  PROVE  SpawnInv'
<1>1. /\ daemon' \in [Daemon -> [st : {"unused", "starting", "binding", "listening", "serving", "stopping", "closed", "dead"},
                                 socks : SUBSET Sock, idle : BOOLEAN]]
      /\ daemon'[d].st = st /\ daemon'[d].socks = {} /\ \A e \in Daemon \ {d} : daemon'[e] = daemon[e]
  BY DEF DaemonGone
<1>2. /\ proc' \in [Proc -> [at : {"new", "look", "connect", "ack", "up", "client", "done"}, spawned : BOOLEAN, d : Daemon \cup {Nothing}]]
      /\ \A q \in Proc : \/ proc'[q] = proc[q]
                         \/ proc[q].at = "client" /\ proc'[q].at = "done" /\ proc'[q].d = proc[q].d
  <2>1. proc \in [Proc -> [at : {"new", "look", "connect", "ack", "up", "client", "done"}, spawned : BOOLEAN, d : Daemon \cup {Nothing}]]
    BY DEF SpawnInv, SpawnTypeOK
  <2>2. \A q \in Proc : LET x == [proc[q] EXCEPT !.at = "done"]
                        IN  /\ x \in [at : {"new", "look", "connect", "ack", "up", "client", "done"}, spawned : BOOLEAN, d : Daemon \cup {Nothing}]
                            /\ x.at = "done" /\ x.d = proc[q].d
    BY <2>1
  <2> QED BY <2>1, <2>2 DEF Cut
<1>3. SpawnTypeOK'
  BY <1>1, <1>2 DEF SpawnInv, SpawnTypeOK
<1>4. Seated'
  <2>1. \A q \in Proc : /\ proc'[q].at \in {"up", "client"} => proc'[q].d \in Daemon
                        /\ proc'[q].at = "ack" <=> proc[q].at = "ack"
                        /\ proc'[q].at = "ack" => proc'[q].d = proc[q].d
    BY <1>2 DEF SpawnInv, Seated
  <2>2. ASSUME NEW e \in Daemon, NEW s \in daemon'[e].socks
        PROVE  Accepts(e)' /\ (Pending(s) => \E r \in daemon[e].socks : Pending(r) /\ r.p = s.p)
    BY <1>1, <2>2 DEF SpawnInv, Seated, Accepts
  <2>3. \A e \in Daemon : \/ daemon'[e].st \in {"closed", "dead"}
                          \/ /\ daemon[e].st \notin {"closed", "dead"}
                             /\ \A s \in daemon[e].socks : Pending(s) => \E r \in daemon'[e].socks : Pending(r) /\ r.p = s.p
    BY <1>1
  <2>4. /\ \A e \in Daemon : \A s, r \in daemon'[e].socks : s.p = r.p /\ Pending(s) /\ Pending(r) => s = r
        /\ \A e \in Daemon : daemon'[e].st = "serving" /\ RegisteredAt(e)' = {} => daemon'[e].idle
        /\ path' # Nothing => daemon'[path'].st \in {"listening", "serving", "stopping", "dead"}
    BY <1>1 DEF SpawnInv, Seated, RegisteredAt, SpawnTypeOK
  <2> QED BY <1>3, <2>1, <2>2, <2>3, <2>4, SeatedStep
<1>5. ASSUME ~excused'
      PROVE  Unmet'
  <2>1. Unmet /\ ~Meeting'
    BY <1>5 DEF Excuse, SpawnInv
  <2>2. \A e \in Daemon : /\ Accepts(e)' => e # d /\ Accepts(e)
                          /\ Alive(e)' => (e # d /\ Alive(e)) \/ (e = d /\ st = "closed")
                          /\ daemon'[e].st \in {"starting", "binding"} => daemon[e].st \in {"starting", "binding"}
                          /\ daemon[e].st = "dead" => daemon'[e].st = "dead"
    BY <1>1 DEF Accepts, Alive
  <2>3. \A q \in Proc : /\ Ensuring(q)' <=> Ensuring(q)
                        /\ Ensuring(q) \/ proc'[q].at \in {"ack", "up"} => proc'[q] = proc[q]
    BY <1>2 DEF Ensuring
  <2>4. \A e \in Daemon : Accepts(e)' => path' = e
    BY <1>5, <2>1, <2>2 DEF Unmet
  <2>5. ASSUME NEW q \in Proc, proc'[q].at = "up"
        PROVE  daemon'[proc'[q].d].st \in {"listening", "serving", "dead"}
    <3>1. proc'[q] = proc[q] /\ proc[q].d \in Daemon /\ daemon[proc[q].d].st \in {"listening", "serving", "dead"}
      BY <2>1, <2>3, <2>5 DEF Unmet, SpawnInv, Seated
    <3>2. daemon'[proc[q].d].st # "closed"
      BY <2>1, <2>5, <3>1 DEF Meeting
    <3> QED BY <1>1, <3>1, <3>2
  <2>6. \A u \in unlinks : u # Nothing => u \in Daemon
    BY DEF SpawnInv, SpawnTypeOK
  <2>7. Alive(d)
    BY <1>1 DEF Alive, SpawnInv, SpawnTypeOK
  <2>8. \A q \in Proc : proc'[q].at = "ack" => \A e \in Daemon : Alive(e)' => e = proc'[q].d
    BY <2>1, <2>2, <2>3, <2>7 DEF Unmet
  <2>9. \A e, f \in Daemon : Alive(e)' /\ Alive(f)' => e = f
    BY <2>1, <2>2, <2>7 DEF Unmet
  <2>10. \A e \in Daemon : daemon'[e].st \in {"starting", "binding"} => \E q \in Proc : Ensuring(q)' /\ proc'[q].spawned
    <3>1. \A e \in Daemon : daemon[e].st \in {"starting", "binding"} => \E q \in Proc : Ensuring(q) /\ proc[q].spawned
      BY <2>1 DEF Unmet
    <3>2. \A q \in Proc : Ensuring(q) => Ensuring(q)' /\ proc'[q] = proc[q]
      BY <2>3
    <3> QED BY <2>2, <3>1, <3>2
  <2> QED BY <2>1, <2>2, <2>4, <2>5, <2>6, <2>8, <2>9, <2>10 DEF Unmet
<1> QED BY <1>3, <1>4, <1>5 DEF SpawnInv

LEMMA DaemonEnds == ASSUME SpawnInv, NEW d \in Daemon, StopServer(d) \/ Exit(d) \/ Crash(d) PROVE SpawnInv'
<1>1. /\ daemon \in [Daemon -> [st : {"unused", "starting", "binding", "listening", "serving", "stopping", "closed", "dead"},
                                socks : SUBSET Sock, idle : BOOLEAN]]
      /\ proc \in [Proc -> [at : {"new", "look", "connect", "ack", "up", "client", "done"}, spawned : BOOLEAN, d : Daemon \cup {Nothing}]]
      /\ faults \in 0..MaxFaults
  BY DEF SpawnInv, SpawnTypeOK, Seated
<1>2. ASSUME daemon[d].st \in {"stopping", "closed"}
      PROVE  excused \/ \A e \in Daemon : Accepts(e) => e = d
  BY <1>2 DEF SpawnInv, Unmet, Alive, Accepts
<1>3. excused => (Excuse(FALSE) => excused')
  BY DEF Excuse
<1>4. CASE StopServer(d)
  <2>1. /\ daemon[d].st = "stopping" /\ proc' = Cut(d) /\ path' = Nothing /\ UNCHANGED <<unlinks, faults>> /\ Excuse(FALSE)
        /\ daemon' = [daemon EXCEPT ![d] = [@ EXCEPT !.st = "closed", !.socks = {}, !.idle = FALSE]]
    BY <1>4 DEF StopServer
  <2> DEFINE x == [daemon[d] EXCEPT !.st = "closed", !.socks = {}, !.idle = FALSE]
  <2>2. /\ x \in [st : {"unused", "starting", "binding", "listening", "serving", "stopping", "closed", "dead"}, socks : SUBSET Sock, idle : BOOLEAN]
        /\ x.st = "closed" /\ x.socks = {}
    BY <1>1
  <2>3. DaemonGone(d, "closed")
    <3>1. daemon' = [daemon EXCEPT ![d] = x]
      BY <2>1
    <3> HIDE DEF x
    <3> QED BY <1>1, <2>2, <3>1 DEF DaemonGone
  <2> QED BY <1>1, <1>2, <1>3, <2>1, <2>3, Ends
<1>5. CASE Exit(d)
  <2>1. /\ daemon[d].st = "closed" /\ UNCHANGED <<proc, unlinks, faults>> /\ path' = Nothing /\ Excuse(FALSE)
        /\ daemon' = [daemon EXCEPT ![d].st = "dead"]
    BY <1>5 DEF Exit
  <2>2. daemon[d].socks = {} /\ daemon[d].idle \in BOOLEAN
    BY <1>1, <2>1 DEF SpawnInv, Seated, Accepts
  <2>3. DaemonMoves(d, "dead", daemon[d].idle)
    BY <2>1, <2>2, Moved
  <2>4. SpawnTypeOK' /\ Seated'
    BY <1>1, <2>1, <2>2, <2>3, MovedIsSeated, SpawnAssumption
  <2>5. ASSUME ~excused'
        PROVE  Unmet'
    <3>1. Unmet /\ ~Meeting'
      BY <2>1, <2>5 DEF Excuse, SpawnInv
    <3>2. \A e \in Daemon : Alive(e) => e = d
      BY <2>1, <3>1 DEF Unmet, Alive
    <3>3. \A e \in Daemon : ~Alive(e)' /\ ~Accepts(e)' /\ (daemon[e].st = "dead" => daemon'[e].st = "dead")
                            /\ (e # d => daemon'[e] = daemon[e])
      BY <3>2, <2>3 DEF Alive, Accepts, DaemonMoves
    <3>4. \A e \in Daemon : daemon'[e].st \notin {"starting", "binding"}
      BY <3>3 DEF Alive
    <3>5. ASSUME NEW q \in Proc, proc[q].at = "up"
          PROVE  daemon'[proc[q].d].st \in {"listening", "serving", "dead"}
      BY <2>1, <3>1, <3>3, <3>5 DEF Unmet, SpawnInv, Seated
    <3>6. \A u \in unlinks : u # Nothing => u \in Daemon
      BY DEF SpawnInv, SpawnTypeOK
    <3> QED BY <2>1, <3>1, <3>3, <3>4, <3>5, <3>6 DEF Unmet
  <2> QED BY <2>4, <2>5 DEF SpawnInv
<1>6. CASE Crash(d)
  <2>1. /\ daemon[d].st \notin {"unused", "dead"} /\ faults < MaxFaults /\ faults' = faults + 1
        /\ daemon' = [daemon EXCEPT ![d] = [st |-> "dead", socks |-> {}, idle |-> FALSE]]
        /\ proc' = Cut(d) /\ UNCHANGED <<path, unlinks>> /\ Excuse(FALSE)
    BY <1>6 DEF Crash
  <2>2. faults' \in 0..MaxFaults
    BY <1>1, <2>1, SpawnAssumption
  <2>3. path' = Nothing => excused' \/ \A e \in Daemon : ~Accepts(e)
    BY <2>1, SpawnAssumption DEF Excuse, SpawnInv, Unmet
  <2>4. DaemonGone(d, "dead")
    BY <1>1, <2>1 DEF DaemonGone
  <2> QED BY <2>1, <2>2, <2>3, <2>4, Ends
<1> QED BY <1>4, <1>5, <1>6

LEMMA SpawnStepKeeps == ASSUME SpawnInv, SpawnStep PROVE SpawnInv'
<1>1. ASSUME NEW p \in Proc, Ensure(p)
      PROVE  SpawnInv'
  BY <1>1, ProcessWalks DEF Ensure
<1>2. ASSUME NEW p \in Proc, Exists(p)
      PROVE  SpawnInv'
  <2>1. CASE path = Nothing
    BY <1>2, <2>1, ExistsKeeps
  <2>2. CASE path # Nothing
    BY <1>2, <2>2, ProcessWalks DEF Exists
  <2> QED BY <2>1, <2>2
<1>3. ASSUME NEW p \in Proc, Probe(p)
      PROVE  SpawnInv'
  BY <1>3, ProbeFails, ProbeConnects
<1> QED BY <1>1, <1>2, <1>3, AckedKeeps, RejectedKeeps, TimeoutKeeps, JoinKeeps, QuitKeeps, OrphanedKeeps, ClearKeeps, BindKeeps, ServeKeeps,
           ReadLineKeeps, SockClosesKeeps, ShutsKeeps, DaemonEnds, UnlinkKeeps DEF SpawnStep

LEMMA SpawnStutters == ASSUME SpawnInv, UNCHANGED spawning PROVE SpawnInv'
<1>1. /\ \A d \in Daemon : (Accepts(d)' <=> Accepts(d)) /\ (Alive(d)' <=> Alive(d)) /\ RegisteredAt(d)' = RegisteredAt(d)
      /\ \A p \in Proc : SockOf(p)' = SockOf(p) /\ (Ensuring(p)' <=> Ensuring(p))
      /\ (Meeting' <=> Meeting)
  BY DEF spawning, Accepts, Alive, RegisteredAt, SockOf, Ensuring, Meeting
<1>2. SpawnTypeOK' /\ Seated' /\ (~excused' => Unmet')
  BY <1>1 DEF spawning, SpawnInv, SpawnTypeOK, Seated, Unmet
<1> QED BY <1>2 DEF SpawnInv

(* The inductive invariant of the processes that find or start a daemon,   *)
(* whatever the tools do meanwhile.                                        *)
THEOREM SpawnInvariant == Spec => []SpawnInv
<1>1. Init => SpawnInv
  BY SpawnInitKeeps DEF Init
<1>2. SpawnInv /\ [Next]_vars => SpawnInv'
  BY SpawnStepKeeps, SpawnStutters DEF Next, vars
<1> QED BY <1>1, <1>2, PTL DEF Spec

(* Without a meeting, a timeout or a full daemon in between, the path      *)
(* leads to every daemon that accepts, and who was told that one runs      *)
(* finds it: for any number of processes, daemons, crashes and signals     *)
(* (spawn.ts:111, server.ts).                                              *)
THEOREM DaemonsAreReachable == Spec => []DaemonIsReachable
<1>1. ASSUME SpawnInv
      PROVE  DaemonIsReachable
  <2>1. ASSUME ~excused, NEW p \in Proc, proc[p].at = "up"
        PROVE  Accepts(path) \/ daemon[proc[p].d].st = "dead"
    <3>1. Unmet /\ proc[p].d \in Daemon /\ daemon[proc[p].d].st \in {"listening", "serving", "dead"}
      BY <1>1, <2>1 DEF SpawnInv, Seated, Unmet
    <3>2. daemon[proc[p].d].st # "dead" => Accepts(proc[p].d)
      BY <3>1, SpawnAssumption DEF Accepts
    <3> QED BY <3>1, <3>2 DEF Unmet
  <2> QED BY <1>1, <2>1 DEF DaemonIsReachable, SpawnInv, Unmet
<1> QED BY <1>1, SpawnInvariant, PTL
=============================================================================
