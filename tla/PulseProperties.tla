--------------------------- MODULE PulseProperties ---------------------------
(* What the Pulse scheduler promises, and what its processes owe it.       *)
EXTENDS PulseScheduler, FiniteSets

Runs == INSTANCE PulseRuns WITH Pulse <- Pulse, NoPulse <- NoPulse, Run <- Run, run <- run

(* The control row names every running run, whoever claims, recovers,      *)
(* finalizes, deletes or adopts meanwhile; so no second run of a Pulse can *)
(* be claimed beside it and no running run is beyond recovery.             *)
RunningIsClaimed ==
  \A r \in Run : run[r].status = "running" =>
     run[r].pulse \in Pulse /\ Exists(run[r].pulse) /\ Active(run[r].pulse) = r

(* pulse_runs follows its life cycle: at most one active run per Pulse,    *)
(* and a run that ended is never started or ended again.                   *)
RunLifeCycle == Runs!Spec

(* Two child processes work for one Pulse at a time only after recovery, a *)
(* finalization or a deletion took the Pulse from the first: a crash, an   *)
(* expired lease or a second daemon never repeat work ("automatic recovery *)
(* could run the same work twice", store.ts:153).                          *)
Live(r) == job[r].state \in {"working", "orphan"}
NoDuplicateWork ==
  \A q, r \in Run :
     (q # r /\ Live(q) /\ Live(r) /\ run[q].pulse = run[r].pulse) =>
        \E x \in {q, r} : x \in released \/ run[x].status = "deleted"

(* An enabled Pulse that nobody runs has a next run as long as its schedule*)
(* names a later minute, unless an edit and another writer crossed.        *)
IdleHasNextRun ==
  \A p \in Pulse :
     (/\ Exists(p) /\ row[p].enabled /\ Active(p) = NoRun /\ row[p].next = NoTime
      /\ p \notin raced /\ editing.pulse # p)
        => \A t \in row[p].schedule : t <= now + 1

(* A worker whose run was recovered or finalized changes nothing when it   *)
(* ends: not the run's outcome, nor the claim of its successor.            *)
LateWorkerIsIgnored ==
  [][\A r \in released : /\ run[r].status # "deleted" => run'[r].status \in {run[r].status, "deleted"}
                         /\ (Working(r) /\ job'[r].state = "done") => row' = row]_vars

-----------------------------------------------------------------------------
(* Workers end, time passes, an operator repeats recovery until it is      *)
(* done, and a tick daemon that is not stopped goes on polling.            *)
Fairness ==
  /\ \A r \in Run : WF_vars(\E outcome \in EndStatus : Finish(r, outcome))
  /\ \A p \in Pulse : WF_vars(ExpireClaim(p))
  /\ WF_vars(RecoverRead) /\ SF_vars(RecoverApply)
  /\ \A d \in Owner : WF_vars(Poll(d)) /\ WF_vars(ClaimDue(d))
FairSpec == Spec /\ Fairness

(* No claim lasts for ever: not that of a worker, of a crashed daemon, of  *)
(* one that stopped before it launched its worker, nor one adopted by      *)
(* mistake.                                                                *)
ClaimsEnd == \A p \in Pulse, r \in Run : Active(p) = r ~> Active(p) # r

(* While some daemon serves, a due Pulse does not wait for ever (unless    *)
(* the bound on runs is reached).                                          *)
Serving(d) == daemon[d] \in {"loop", "heartbeat"} /\ d \notin stopped
Exhausted == Cardinality({r \in Run : run[r].status = "unused"})
               < Cardinality({p \in Pulse : Due(p)})
DueIsClaimed ==
  <>[](\E d \in Owner : Serving(d)) => \A p \in Pulse : Due(p) ~> (~Due(p) \/ Exhausted)

=============================================================================
