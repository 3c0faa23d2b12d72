------------------------------ MODULE DaemonSpawn ------------------------------
(***************************************************************************)
(* How processes find the browser daemon or start one (daemon/spawn.ts,    *)
(* start and stop of server.ts, index.ts).  The daemons meet on one path   *)
(* of the file system, which every one of them, and every probe that       *)
(* fails, may remove.  A process ensures that a daemon runs, then becomes  *)
(* its client and leaves.  "mutant": faulty form of the next definition.   *)
(***************************************************************************)
EXTENDS Naturals, FiniteSets

CONSTANTS
  Proc,
  Daemon,       \* daemons that may be started, each once
  Nothing,
  Crowd,        \* DAEMON_MAX_CLIENTS
  MaxFaults     \* bound on timeouts, crashes and signals

ASSUME SpawnAssumption == Nothing \notin Daemon /\ MaxFaults \in Nat

VARIABLES
  proc,
  daemon,       \* st; socks: connections; idle: its timer is armed
  path,         \* the daemon whose socket the path names, perhaps a dead one's
  unlinks,      \* unlinks under way, with the daemon they were meant for
  faults,
  excused       \* history: something happened after which a daemon may be out of reach

spawning == <<proc, daemon, path, unlinks, faults, excused>>

SpawnInit ==
  /\ proc = [p \in Proc |-> [at |-> "new", spawned |-> FALSE, d |-> Nothing]]
  /\ daemon = [d \in Daemon |-> [st |-> "unused", socks |-> {}, idle |-> FALSE]]
  /\ path = Nothing /\ unlinks = {} /\ faults = 0 /\ excused = FALSE

Sock == [p : Proc, n : 0..MaxFaults, st : {"sent", "registered", "rejected"}, own : BOOLEAN, gone : BOOLEAN]
SpawnTypeOK ==
  /\ proc \in [Proc -> [at : {"new", "look", "connect", "ack", "up", "client", "done"}, spawned : BOOLEAN, d : Daemon \cup {Nothing}]]
  /\ daemon \in [Daemon -> [st : {"unused", "starting", "binding", "listening", "serving", "stopping", "closed", "dead"},
                            socks : SUBSET Sock, idle : BOOLEAN]]
  /\ path \in Daemon \cup {Nothing} /\ unlinks \subseteq Daemon \cup {Nothing}

Accepts(d) == d # Nothing /\ daemon[d].st \in {"listening", "serving", "stopping"}
RegisteredAt(d) == {s \in daemon[d].socks : s.st = "registered"}
Ensuring(p) == proc[p].at \in {"look", "connect", "ack"}

(* Two processes probe at once, or one does while a daemon stops.          *)
Meeting ==
  \E p \in Proc :
    \/ Ensuring(p) /\ \E q \in Proc \ {p} : Ensuring(q) \/ \E d \in Daemon : \E s \in daemon[d].socks : s.p = q /\ ~s.own
    \/ proc[p].at \notin {"new", "done"} /\ \E d \in Daemon : daemon[d].st \in {"stopping", "closed"}
Excuse(why) == excused' = (excused \/ why \/ Meeting')

-----------------------------------------------------------------------------
(* ensureDaemon.                                                           *)
Ensure(p) ==
  /\ proc[p].at = "new" /\ proc' = [proc EXCEPT ![p].at = "look"]
  /\ UNCHANGED <<daemon, path, unlinks, faults>> /\ Excuse(FALSE)

(* A probe answered false: the first spawns a daemon, the later ones are   *)
(* made again until the deadline, which may be at any of them.             *)
Probing(p, spawned) == proc' = [proc EXCEPT ![p] = [at |-> "look", spawned |-> spawned, d |-> Nothing]]
Done(p) == proc' = [proc EXCEPT ![p] = [at |-> "done", spawned |-> FALSE, d |-> Nothing]]
NotRunning(p, ds, why) ==
  IF ~proc[p].spawned /\ \E d \in Daemon : ds[d].st = "unused"
  THEN LET d == CHOOSE x \in Daemon : ds[x].st = "unused"
       IN  /\ daemon' = [ds EXCEPT ![d].st = "starting"]
           /\ Probing(p, TRUE) /\ Excuse(why)
  ELSE /\ daemon' = ds
       /\ \/ proc[p].spawned /\ Probing(p, TRUE) /\ Excuse(why)
          \/ Done(p) /\ excused' = TRUE

(* daemonSocketMayExist.                                                   *)
Exists(p) ==
  /\ proc[p].at = "look" /\ UNCHANGED <<path, unlinks, faults>>
  /\ IF path = Nothing THEN NotRunning(p, daemon, FALSE)
     ELSE proc' = [proc EXCEPT ![p].at = "connect"] /\ UNCHANGED daemon /\ Excuse(FALSE)

(* cleanupStaleSocket: not awaited.                                        *)
CleanupStaleSocket == unlinks' = unlinks \cup {path}

(* A full daemon destroys the connection; the probe may see that as an     *)
(* error, since it has written.                                            *)
Probe(p) ==
  /\ proc[p].at = "connect" /\ UNCHANGED <<path, faults>>
  /\ IF ~Accepts(path) THEN CleanupStaleSocket /\ NotRunning(p, daemon, FALSE)
     ELSE IF Cardinality(RegisteredAt(path)) >= Crowd THEN (CleanupStaleSocket \/ UNCHANGED unlinks) /\ NotRunning(p, daemon, TRUE)
     ELSE /\ daemon' = [daemon EXCEPT ![path].socks = @ \cup {[p |-> p, n |-> faults, st |-> "sent", own |-> FALSE, gone |-> FALSE]}]
          /\ proc' = [proc EXCEPT ![p].at = "ack", ![p].d = path]
          /\ UNCHANGED unlinks /\ Excuse(FALSE)

SockOf(p) == {s \in daemon[proc[p].d].socks : s.p = p /\ ~s.own /\ ~s.gone}
Without(p) == [daemon EXCEPT ![proc[p].d].socks = @ \ SockOf(p)]
Left(p) == [daemon EXCEPT ![proc[p].d].socks = (@ \ SockOf(p)) \cup {[s EXCEPT !.gone = TRUE] : s \in SockOf(p)}]
Closing(p, st) == proc[p].at = "ack" /\ \E s \in SockOf(p) : s.st = st

(* After the ack the probe closes its socket, and the close event of that  *)
(* changes nothing; a close without an ack leaves the path alone too.      *)
ClosedCleans == unlinks' = unlinks \cup {path}                                            \* mutant
Closed == UNCHANGED unlinks
Acked(p) ==
  /\ Closing(p, "registered") /\ Closed
  /\ proc' = [proc EXCEPT ![p].at = "up"] /\ daemon' = Left(p)
  /\ UNCHANGED <<path, faults>> /\ Excuse(FALSE)
Rejected(p) == Closing(p, "rejected") /\ Closed /\ NotRunning(p, Without(p), TRUE) /\ UNCHANGED <<path, faults>>
ProbeTimeout(p) ==
  /\ proc[p].at = "ack" /\ faults < MaxFaults /\ faults' = faults + 1
  /\ CleanupStaleSocket /\ NotRunning(p, Left(p), TRUE) /\ UNCHANGED path

Unlink ==
  /\ path' = Nothing /\ UNCHANGED <<proc, daemon, faults>>
  /\ \E u \in unlinks : unlinks' = unlinks \ {u} /\ Excuse(path \notin {Nothing, u})

(* The process uses the daemon, through a transport of its own.            *)
Join(p) ==
  /\ proc[p].at = "up" /\ UNCHANGED <<path, unlinks, faults>>
  /\ IF Accepts(path) /\ Cardinality(RegisteredAt(path)) < Crowd
     THEN /\ proc' = [proc EXCEPT ![p] = [at |-> "client", spawned |-> FALSE, d |-> path]]
          /\ daemon' = [daemon EXCEPT ![path].socks = @ \cup {[p |-> p, n |-> 0, st |-> "registered", own |-> TRUE, gone |-> FALSE]},
                                      ![path].idle = FALSE]
     ELSE Done(p) /\ UNCHANGED daemon
  /\ Excuse(FALSE)
Quit(p) ==
  /\ proc[p].at = "client" /\ Done(p)
  /\ daemon' = [daemon EXCEPT ![proc[p].d].socks = {IF s.p = p /\ s.own THEN [s EXCEPT !.gone = TRUE] ELSE s : s \in @}]
  /\ UNCHANGED <<path, unlinks, faults>> /\ Excuse(FALSE)

-----------------------------------------------------------------------------
(* The daemon.                                                             *)
(* start: what is at the path goes, whoever listens there.                 *)
Clear(d) ==
  /\ daemon[d].st = "starting" /\ daemon' = [daemon EXCEPT ![d].st = "binding"]
  /\ path' = Nothing /\ UNCHANGED <<proc, unlinks, faults>> /\ Excuse(Accepts(path))
Bind(d) ==
  /\ daemon[d].st = "binding"
  /\ IF path = Nothing THEN path' = d /\ daemon' = [daemon EXCEPT ![d].st = "listening"]
     ELSE UNCHANGED path /\ daemon' = [daemon EXCEPT ![d].st = "dead"]
  /\ UNCHANGED <<proc, unlinks, faults>> /\ Excuse(FALSE)
(* The bridge has started: the timer is set.                               *)
Serve(d) ==
  /\ daemon[d].st = "listening" /\ daemon' = [daemon EXCEPT ![d].st = "serving", ![d].idle = RegisteredAt(d) = {}]
  /\ UNCHANGED <<proc, path, unlinks, faults>> /\ Excuse(FALSE)

(* One probe is registered at a time: they share an id.                    *)
ReadLine(d) ==
  /\ Accepts(d) /\ UNCHANGED <<proc, path, unlinks, faults>>
  /\ \E s \in daemon[d].socks :
       /\ s.st = "sent"
       /\ LET taken == \E o \in RegisteredAt(d) : ~o.own
          IN  daemon' = [daemon EXCEPT ![d].socks = (@ \ {s}) \cup {[s EXCEPT !.st = IF taken THEN "rejected" ELSE "registered"]},
                                       ![d].idle = taken /\ @]
  /\ Excuse(FALSE)
Disarmed(d, s) == daemon[d].idle                                                         \* mutant
Armed(d, s) == IF s.st = "registered" /\ RegisteredAt(d) = {s} THEN TRUE ELSE daemon[d].idle
SockCloses(d) ==
  /\ Accepts(d) /\ UNCHANGED <<proc, path, unlinks, faults>>
  /\ \E s \in daemon[d].socks : /\ s.gone /\ s.st # "sent"
                                /\ daemon' = [daemon EXCEPT ![d].socks = @ \ {s}, ![d].idle = Armed(d, s)]
  /\ Excuse(FALSE)

(* The timer or a signal; a signal to a daemon that starts kills it.       *)
Shuts(d) ==
  /\ daemon[d].st = "serving" /\ UNCHANGED <<proc, path, unlinks>>
  /\ \/ daemon[d].idle /\ UNCHANGED faults
     \/ faults < MaxFaults /\ faults' = faults + 1
  /\ daemon' = [daemon EXCEPT ![d].st = "stopping"]
  /\ Excuse(FALSE)
Cut(d) == [p \in Proc |-> IF proc[p].at = "client" /\ proc[p].d = d THEN [proc[p] EXCEPT !.at = "done"] ELSE proc[p]]
(* stop, once the bridge has stopped: the connections are destroyed, and   *)
(* closing the server removes the path, whosever it is.                    *)
StopServer(d) ==
  /\ daemon[d].st = "stopping"
  /\ daemon' = [daemon EXCEPT ![d] = [@ EXCEPT !.st = "closed", !.socks = {}, !.idle = FALSE]]
  /\ proc' = Cut(d) /\ path' = Nothing /\ UNCHANGED <<unlinks, faults>> /\ Excuse(FALSE)
Exit(d) ==
  /\ daemon[d].st = "closed" /\ daemon' = [daemon EXCEPT ![d].st = "dead"]
  /\ path' = Nothing /\ UNCHANGED <<proc, unlinks, faults>> /\ Excuse(FALSE)
Crash(d) ==
  /\ daemon[d].st \notin {"unused", "dead"} /\ faults < MaxFaults /\ faults' = faults + 1
  /\ daemon' = [daemon EXCEPT ![d] = [st |-> "dead", socks |-> {}, idle |-> FALSE]]
  /\ proc' = Cut(d) /\ UNCHANGED <<path, unlinks>> /\ Excuse(FALSE)
(* A probe whose daemon is gone: a close, or an error.                     *)
Orphaned(p) ==
  /\ proc[p].at = "ack" /\ SockOf(p) = {} /\ UNCHANGED <<path, faults>>
  /\ (CleanupStaleSocket \/ UNCHANGED unlinks) /\ NotRunning(p, daemon, FALSE)

SpawnStep ==
  \/ \E p \in Proc : \/ Ensure(p) \/ Exists(p) \/ Probe(p) \/ Acked(p) \/ Rejected(p) \/ ProbeTimeout(p) \/ Join(p) \/ Quit(p)
                     \/ Orphaned(p)
  \/ \E d \in Daemon : \/ Clear(d) \/ Bind(d) \/ Serve(d) \/ ReadLine(d) \/ SockCloses(d) \/ Shuts(d) \/ StopServer(d) \/ Exit(d)
                       \/ Crash(d)
  \/ Unlink
=============================================================================
