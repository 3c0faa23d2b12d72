---------------------------- MODULE PulseScheduler ----------------------------
(***************************************************************************)
(* The Pulse scheduler: tick daemons that share the database pulse.db,     *)
(* the workers they run, and the clients (tool, API server, command line)  *)
(* that edit, recover and finalize Pulses meanwhile (extensions/pulse).    *)
(* Every statement or transaction of PulseStore that another process may   *)
(* come between is an action of its own.  Time is counted in minutes, the  *)
(* unit of the schedules; a lease is valid or expired, and expires at any  *)
(* moment at which nobody has just renewed it.  A definition commented     *)
(* "mutant" is the faulty form of the next one.                            *)
(***************************************************************************)
EXTENDS Integers

CONSTANTS
  Pulse,        \* ids of Pulses
  NoPulse,      \* the Pulse of a run that was never started
  Run,          \* ids of runs: randomUUID() in claimDue
  NoRun,        \* SQL NULL in active_run_id
  Owner,        \* tick daemons, named by the owner id each draws at its start
  NoOwner,      \* SQL NULL in claim_owner
  Schedule,     \* schedules, each the set of minutes it names
  Clients,      \* which of "edit", "enable", "delete", "open", "recover",
                \* "finalize" the processes beside the daemons do
  MaxTime       \* bound on the minutes of a run

ASSUME PulseAssumption ==
  /\ NoPulse \notin Pulse /\ NoRun \notin Run
  /\ NoOwner \notin Owner /\ "legacy" \notin Owner /\ NoOwner # "legacy"
  /\ Schedule \subseteq SUBSET Nat
  /\ Clients \subseteq {"edit", "enable", "delete", "open", "recover", "finalize"}
  /\ MaxTime \in Nat

VARIABLES
  row,         \* pulses and pulse_control
  run,         \* pulse_runs
  tick,        \* pulse_tick_lease
  daemon,      \* where each tick daemon is in tick()
  stopped,     \* the daemons whose local flag stopped is set
  job,         \* executePulse of each run, with the row it was claimed with
  opening,     \* running runs a new PulseStore has read and will adopt
  recovering,  \* expired claims recoverExpiredClaims has read
  editing,     \* the second statement of update() still to come
  now,         \* minutes
  released,    \* history: the runs that recovery or an operator ended
  raced        \* history: Pulses whose next run was computed from an old row

vars == <<row, run, tick, daemon, stopped, job, opening, recovering, editing, now,
          released, raced>>

NoTime == -1                                  \* SQL NULL in next_run_at
Legacy == "legacy"
Lease == {"none", "valid", "expired"}
NoClaim == [active |-> NoRun, owner |-> NoOwner, lease |-> "none"]
EndStatus == {"success", "error"}
RunStatus == {"unused", "running", "deleted"} \cup EndStatus
NoJob == [state |-> "none", owner |-> NoOwner, schedule |-> {}]
NoEdit == [pulse |-> NoPulse, schedule |-> {}, enabled |-> FALSE]

(* claim holds active_run_id, claim_owner and lease_expires_at; born is the*)
(* minute the id was made from, kept when the Pulse is deleted.            *)
Claim == [active : Run \cup {NoRun}, owner : Owner \cup {NoOwner, Legacy}, lease : Lease]
Row == [exists : BOOLEAN, born : Nat \cup {NoTime}, schedule : Schedule \cup {{}},
        enabled : BOOLEAN, next : Nat \cup {NoTime}, claim : Claim]
NoRow == [exists |-> FALSE, born |-> NoTime, schedule |-> {}, enabled |-> FALSE,
          next |-> NoTime, claim |-> NoClaim]
Recovery == [pulse : Pulse, run : Run, schedule : Schedule]

TypeOK ==
  /\ row \in [Pulse -> Row]
  /\ run \in [Run -> [status : RunStatus, pulse : Pulse \cup {NoPulse}]]
  /\ tick \in [owner : Owner \cup {NoOwner}, lease : Lease]
  /\ daemon \in [Owner -> {"off", "loop", "heartbeat", "draining", "gone"}]
  /\ stopped \in SUBSET Owner
  /\ job \in [Run -> [state : {"none", "working", "orphan", "done"},
                      owner : Owner \cup {NoOwner}, schedule : Schedule \cup {{}}]]
  /\ opening \in SUBSET Run
  /\ recovering \in SUBSET Recovery
  /\ editing \in [pulse : Pulse \cup {NoPulse}, schedule : Schedule \cup {{}},
                  enabled : BOOLEAN]
  /\ now \in Nat
  /\ released \in SUBSET Run
  /\ raced \in SUBSET Pulse

Init ==
  /\ row = [p \in Pulse |-> NoRow]
  /\ run = [r \in Run |-> [status |-> "unused", pulse |-> NoPulse]]
  /\ tick = [owner |-> NoOwner, lease |-> "none"]
  /\ daemon = [d \in Owner |-> "off"]
  /\ stopped = {}
  /\ job = [r \in Run |-> NoJob]
  /\ opening = {} /\ recovering = {} /\ editing = NoEdit
  /\ now = 0
  /\ released = {} /\ raced = {}

-----------------------------------------------------------------------------
(* nextRun(schedule, after): the first minute named after that one.        *)
NextRun(schedule, after) ==
  LET later == {t \in schedule : t > after}
  IN  IF later = {} THEN NoTime ELSE CHOOSE t \in later : \A u \in later : t <= u

Exists(p) == row[p].exists
Active(p) == row[p].claim.active
OwnsPulse(d, p, r) == Exists(p) /\ row[p].claim.owner = d           \* mutant
Owns(d, p, r) == Exists(p) /\ Active(p) = r /\ row[p].claim.owner = d

(* The claim of p is released and its next run set.                        *)
ReleaseOnly(p, next) == [row[p] EXCEPT !.claim = NoClaim]           \* mutant
Release(p, next) == [row[p] EXCEPT !.claim = NoClaim, !.next = next]
SetRow(p, new) == row' = [row EXCEPT ![p] = new]
SetLease(p, lease) == [row[p] EXCEPT !.claim = [row[p].claim EXCEPT !.lease = lease]]

(* Running runs of the set R get a status.                                 *)
EndRunsDone(R, status) ==                                          \* mutant
  run' = [r \in Run |-> IF r \in R /\ run[r].status = "running"
                        THEN [status |-> "done", pulse |-> run[r].pulse] ELSE run[r]]
EndRunsAny(R, status) ==                                           \* mutant
  run' = [r \in Run |-> IF r \in R THEN [status |-> status, pulse |-> run[r].pulse] ELSE run[r]]
EndRuns(R, status) ==
  run' = [r \in Run |-> IF r \in R /\ run[r].status = "running"
                        THEN [status |-> status, pulse |-> run[r].pulse] ELSE run[r]]

-----------------------------------------------------------------------------
(* Clients: create, setEnabled and delete are one statement that matters;  *)
(* update() writes pulses and pulse_control in two.  An id names its       *)
(* minute, so only a Pulse deleted in that minute can be created again     *)
(* under the same id.                                                      *)
Create(p, schedule) ==
  /\ ~Exists(p) /\ row[p].born \in {NoTime, now}
  /\ SetRow(p, [exists |-> TRUE, born |-> now, schedule |-> schedule, enabled |-> TRUE,
                next |-> NextRun(schedule, now), claim |-> NoClaim])
  /\ raced' = raced \ {p}
  /\ UNCHANGED <<run, tick, daemon, stopped, job, opening, recovering, editing, now, released>>

SetEnabled(p, enabled) ==
  /\ Exists(p)
  /\ SetRow(p, [row[p] EXCEPT !.enabled = enabled,
                              !.next = IF enabled THEN NextRun(row[p].schedule, now) ELSE NoTime])
  /\ raced' = IF enabled THEN raced \ {p} ELSE raced
  /\ UNCHANGED <<run, tick, daemon, stopped, job, opening, recovering, editing, now, released>>

UpdatePulse(p, schedule) ==
  /\ Exists(p) /\ editing = NoEdit
  /\ SetRow(p, [row[p] EXCEPT !.schedule = schedule])
  /\ editing' = [pulse |-> p, schedule |-> schedule, enabled |-> row[p].enabled]
  /\ UNCHANGED <<run, tick, daemon, stopped, job, opening, recovering, now, released, raced>>

UpdateControl ==
  /\ editing # NoEdit
  /\ LET p == editing.pulse
     IN  \/ /\ Exists(p)
            /\ SetRow(p, [row[p] EXCEPT !.next = IF editing.enabled
                                                 THEN NextRun(editing.schedule, now) ELSE NoTime])
            /\ raced' = IF editing.enabled = row[p].enabled /\ editing.schedule = row[p].schedule
                        THEN raced \ {p} ELSE raced \cup {p}
         \/ ~Exists(p) /\ UNCHANGED <<row, raced>>
  /\ editing' = NoEdit
  /\ UNCHANGED <<run, tick, daemon, stopped, job, opening, recovering, now, released>>

Delete(p) ==
  /\ Exists(p)
  /\ SetRow(p, [NoRow EXCEPT !.born = row[p].born])
  /\ run' = [r \in Run |-> IF run[r].pulse = p
                           THEN [status |-> "deleted", pulse |-> p] ELSE run[r]]
  /\ UNCHANGED <<tick, daemon, stopped, job, opening, recovering, editing, now, released, raced>>

(* The process of a client stops between two of its steps.                 *)
ClientStops ==
  /\ \/ opening # {} /\ opening' = {} /\ UNCHANGED <<recovering, editing, raced>>
     \/ recovering # {} /\ recovering' = {} /\ UNCHANGED <<opening, editing, raced>>
     \/ /\ editing # NoEdit /\ editing' = NoEdit /\ raced' = raced \cup {editing.pulse}
        /\ UNCHANGED <<opening, recovering>>
  /\ UNCHANGED <<row, run, tick, daemon, stopped, job, now, released>>

-----------------------------------------------------------------------------
(* new PulseStore: every process that opens the database reads the running *)
(* runs and adopts each for a control row that names none; whatever row it *)
(* finds, its next run is cleared.                                         *)
OpenRead ==
  /\ opening = {}
  /\ opening' = {r \in Run : run[r].status = "running"}
  /\ UNCHANGED <<row, run, tick, daemon, stopped, job, recovering, editing, now, released, raced>>

AdoptedAlways(claim, r) ==                                         \* mutant
  [active |-> r, owner |-> Legacy, lease |-> "valid"]
AdoptedUnleased(claim, r) ==                                       \* mutant
  IF claim.active = NoRun THEN [active |-> r, owner |-> Legacy, lease |-> "none"] ELSE claim
Adopted(claim, r) == IF claim.active = NoRun
                     THEN [active |-> r, owner |-> Legacy, lease |-> "valid"] ELSE claim
OpenAdopt ==
  /\ \E r \in opening :
       LET p == run[r].pulse
       IN  /\ \/ /\ p \in Pulse /\ Exists(p)
                 /\ SetRow(p, [row[p] EXCEPT !.claim = Adopted(row[p].claim, r), !.next = NoTime])
              \/ ~(p \in Pulse /\ Exists(p)) /\ UNCHANGED row
           /\ opening' = opening \ {r}
  /\ UNCHANGED <<run, tick, daemon, stopped, job, recovering, editing, now, released, raced>>

(* recoverExpiredClaims: the claims are read before BEGIN IMMEDIATE.       *)
RecoverRead ==
  /\ recovering = {}
  /\ recovering' = {[pulse |-> p, run |-> Active(p), schedule |-> row[p].schedule] :
                      p \in {q \in Pulse : Exists(q) /\ row[q].claim.lease = "expired"}}
  /\ UNCHANGED <<row, run, tick, daemon, stopped, job, opening, editing, now, released, raced>>

Recovers(p, c) == c.pulse = p /\ Exists(p) /\ Active(p) = c.run
RecoverApply ==
  /\ recovering # {}
  /\ EndRuns({c.run : c \in recovering}, "error")
  /\ row' = [p \in Pulse |->
               IF \E c \in recovering : Recovers(p, c)
               THEN Release(p, NextRun((CHOOSE c \in recovering : Recovers(p, c)).schedule, now + 1))
               ELSE row[p]]
  /\ released' = released \cup {r \in {c.run : c \in recovering} : run[r].status = "running"}
  /\ raced' = (raced \ {p \in Pulse : \E c \in recovering :
                          Recovers(p, c) /\ c.schedule = row[p].schedule})
              \cup {p \in Pulse : \E c \in recovering :
                          Recovers(p, c) /\ c.schedule # row[p].schedule}
  /\ recovering' = {}
  /\ UNCHANGED <<tick, daemon, stopped, job, opening, editing, now>>

(* finalizeRunning: an operator ends the active run of a Pulse by hand.    *)
Finalize(p, outcome) ==
  /\ Exists(p) /\ Active(p) # NoRun /\ run[Active(p)].status = "running"
  /\ EndRuns({Active(p)}, outcome)
  /\ SetRow(p, Release(p, NextRun(row[p].schedule, IF outcome = "error" THEN now + 1 ELSE now)))
  /\ released' = released \cup {Active(p)}
  /\ raced' = raced \ {p}
  /\ UNCHANGED <<tick, daemon, stopped, job, opening, recovering, editing, now>>

-----------------------------------------------------------------------------
(* claimTickLease succeeds for the holder and when the lease is free.      *)
TickFree(d) == tick.owner \in {NoOwner, d} \/ tick.lease = "expired"
TakeTick(d) == tick' = [owner |-> d, lease |-> "valid"]

StartDaemon(d) ==
  /\ daemon[d] = "off" /\ TickFree(d) /\ TakeTick(d)
  /\ daemon' = [daemon EXCEPT ![d] = "loop"]
  /\ UNCHANGED <<row, run, stopped, job, opening, recovering, editing, now, released, raced>>

(* SIGTERM, SIGINT or an unhandled error: close() sets stopped.            *)
Stop(d) ==
  /\ daemon[d] \in {"loop", "heartbeat"} /\ d \notin stopped
  /\ stopped' = stopped \cup {d}
  /\ UNCHANGED <<row, run, tick, daemon, job, opening, recovering, editing, now, released, raced>>

(* The head of the loop, up to the await of heartbeat().                   *)
Poll(d) ==
  /\ daemon[d] = "loop"
  /\ IF d \notin stopped /\ TickFree(d)
     THEN TakeTick(d) /\ daemon' = [daemon EXCEPT ![d] = "heartbeat"]
     ELSE daemon' = [daemon EXCEPT ![d] = "draining"] /\ UNCHANGED tick
  /\ UNCHANGED <<row, run, stopped, job, opening, recovering, editing, now, released, raced>>

(* due(), and the WHERE clause of the UPDATE that claims one of its rows.  *)
Due(p) == /\ Exists(p) /\ row[p].enabled /\ Active(p) = NoRun
          /\ row[p].next # NoTime /\ row[p].next <= now
ClaimableTwice(p) == /\ Exists(p) /\ row[p].enabled                \* mutant
                     /\ row[p].next # NoTime /\ row[p].next <= now
ClaimableLate(p) == Due(p) /\ row[p].next < now                    \* mutant
Claimable(p) == Due(p)

(* The runs of R are started, each for the due Pulse of names, and launched*)
(* unless stopped is set by then.                                          *)
StartRuns(d, R, of) ==
  /\ \A r \in R : run[r].status = "unused"
  /\ \A p \in Pulse : Claimable(p) => \E r \in R : of[r] = p
  /\ \A q, r \in R : of[q] = of[r] => q = r
  /\ run' = [r \in Run |->
               IF r \in R THEN [status |-> "running", pulse |-> of[r]] ELSE run[r]]
  /\ row' = [p \in Pulse |->
               IF \E r \in R : of[r] = p
               THEN [row[p] EXCEPT !.next = NoTime,
                       !.claim = [active |-> CHOOSE r \in R : of[r] = p,
                                  owner |-> d, lease |-> "valid"]]
               ELSE row[p]]
  /\ job' = [r \in Run |->
               IF r \in R /\ d \notin stopped
               THEN [state |-> "working", owner |-> d, schedule |-> row[of[r]].schedule]
               ELSE job[r]]

(* claimDue takes every due Pulse in one transaction.                      *)
ClaimDue(d) ==
  /\ daemon[d] = "heartbeat"
  /\ \E R \in SUBSET Run : \E of \in [R -> {p \in Pulse : Claimable(p)}] : StartRuns(d, R, of)
  /\ daemon' = [daemon EXCEPT ![d] = IF d \in stopped THEN "draining" ELSE "loop"]
  /\ UNCHANGED <<tick, stopped, opening, recovering, editing, now, released, raced>>

Working(r) == job[r].state = "working"
SetJob(r, state) == job' = [job EXCEPT ![r] = [job[r] EXCEPT !.state = state]]

(* The renewal timer of executePulse: the claim, then the tick lease.      *)
Renew(r) ==
  /\ Working(r)
  /\ LET p == run[r].pulse
         d == job[r].owner
     IN  /\ IF Owns(d, p, r) THEN SetRow(p, SetLease(p, "valid")) ELSE UNCHANGED row
         /\ IF TickFree(d) THEN TakeTick(d) ELSE UNCHANGED tick
  /\ UNCHANGED <<run, daemon, stopped, job, opening, recovering, editing, now, released, raced>>

(* complete() or fail(), with the row read when the run was claimed.       *)
Finish(r, outcome) ==
  /\ Working(r)
  /\ SetJob(r, "done")
  /\ LET p == run[r].pulse
         after == IF outcome = "error" THEN now + 1 ELSE now
     IN  IF Owns(job[r].owner, p, r)
         THEN /\ EndRuns({r}, outcome)
              /\ SetRow(p, Release(p, NextRun(job[r].schedule, after)))
              /\ raced' = IF job[r].schedule = row[p].schedule THEN raced \ {p}
                          ELSE raced \cup {p}
         ELSE UNCHANGED <<row, run, raced>>
  /\ UNCHANGED <<tick, daemon, stopped, opening, recovering, editing, now, released>>

(* Both complete() and fail() found the database locked.                   *)
FinishLocked(r) ==
  /\ Working(r) /\ SetJob(r, "done")
  /\ UNCHANGED <<row, run, tick, daemon, stopped, opening, recovering, editing, now, released,
                 raced>>

(* The child process of a crashed daemon comes to its end.                 *)
OrphanEnds(r) ==
  /\ job[r].state = "orphan" /\ SetJob(r, "done")
  /\ UNCHANGED <<row, run, tick, daemon, stopped, opening, recovering, editing, now, released,
                 raced>>

(* All workers have settled: release() and exit.                           *)
Drain(d) ==
  /\ daemon[d] = "draining"
  /\ \A r \in Run : ~(Working(r) /\ job[r].owner = d)
  /\ daemon' = [daemon EXCEPT ![d] = "gone"]
  /\ tick' = IF tick.owner = d THEN [owner |-> NoOwner, lease |-> "none"] ELSE tick
  /\ UNCHANGED <<row, run, stopped, job, opening, recovering, editing, now, released, raced>>

(* The daemon's process dies; its child processes may go on.               *)
Crash(d) ==
  /\ daemon[d] \in {"loop", "heartbeat", "draining"}
  /\ daemon' = [daemon EXCEPT ![d] = "gone"]
  /\ job' = [r \in Run |-> IF Working(r) /\ job[r].owner = d
                           THEN [job[r] EXCEPT !.state = "orphan"] ELSE job[r]]
  /\ UNCHANGED <<row, run, tick, stopped, opening, recovering, editing, now, released, raced>>

-----------------------------------------------------------------------------
(* Time passes: a lease runs out, a minute begins.                         *)
ExpireClaim(p) ==
  /\ row[p].claim.lease = "valid" /\ SetRow(p, SetLease(p, "expired"))
  /\ UNCHANGED <<run, tick, daemon, stopped, job, opening, recovering, editing, now, released,
                 raced>>
ExpireTick ==
  /\ tick.lease = "valid" /\ tick' = [tick EXCEPT !.lease = "expired"]
  /\ UNCHANGED <<row, run, daemon, stopped, job, opening, recovering, editing, now, released,
                 raced>>
Minute ==
  /\ now < MaxTime /\ now' = now + 1
  /\ UNCHANGED <<row, run, tick, daemon, stopped, job, opening, recovering, editing, released,
                 raced>>

Client ==
  \/ \E p \in Pulse, s \in Schedule : Create(p, s)
  \/ /\ "edit" \in Clients
     /\ \/ \E p \in Pulse, s \in Schedule : UpdatePulse(p, s)
        \/ UpdateControl
  \/ "enable" \in Clients /\ \E p \in Pulse, b \in BOOLEAN : SetEnabled(p, b)
  \/ "delete" \in Clients /\ \E p \in Pulse : Delete(p)
  \/ "open" \in Clients /\ (OpenRead \/ OpenAdopt)
  \/ "recover" \in Clients /\ (RecoverRead \/ RecoverApply)
  \/ "finalize" \in Clients /\ \E p \in Pulse, outcome \in EndStatus : Finalize(p, outcome)
  \/ ClientStops
Worker ==
  \E r \in Run : \/ Renew(r) \/ FinishLocked(r) \/ OrphanEnds(r)
                 \/ \E outcome \in EndStatus : Finish(r, outcome)
Daemon == \E d \in Owner : \/ StartDaemon(d) \/ Stop(d) \/ Poll(d) \/ ClaimDue(d)
                           \/ Drain(d) \/ Crash(d)
Time == ExpireTick \/ Minute \/ \E p \in Pulse : ExpireClaim(p)

Next == Client \/ Worker \/ Daemon \/ Time
Spec == Init /\ [][Next]_vars
=============================================================================
