------------------------------- MODULE PulseRuns -------------------------------
(***************************************************************************)
(* What the Pulse scheduler promises about the table pulse_runs: a run     *)
(* starts only while no other run of its Pulse is active, ends once, and   *)
(* is never started again.  Who starts and ends runs is left open.         *)
(***************************************************************************)
CONSTANTS
  Pulse,     \* ids of Pulses
  NoPulse,   \* the Pulse of a run that was never started
  Run        \* ids of runs

VARIABLE run   \* pulse_runs: the status and the Pulse of each run

EndStatus == {"success", "error"}
RunStatus == {"unused", "running", "deleted"} \cup EndStatus
Unused == [status |-> "unused", pulse |-> NoPulse]
Running(r) == run[r].status = "running"

Init == run = [r \in Run |-> Unused]

(* The runs of the set R start, each for the Pulse of names.               *)
Start(R, of) ==
  /\ \A r \in R : /\ run[r].status = "unused"
                  /\ \A q \in Run : ~(Running(q) /\ run[q].pulse = of[r])
  /\ \A q, r \in R : of[q] = of[r] => q = r
  /\ run' = [r \in Run |->
               IF r \in R THEN [status |-> "running", pulse |-> of[r]] ELSE run[r]]

End(R, outcome) ==
  /\ \A r \in R : Running(r)
  /\ run' = [r \in Run |->
               IF r \in R THEN [status |-> outcome, pulse |-> run[r].pulse] ELSE run[r]]

(* The runs of a deleted Pulse disappear with it.                          *)
Drop(p) ==
  run' = [r \in Run |->
            IF run[r].pulse = p THEN [status |-> "deleted", pulse |-> p] ELSE run[r]]

Next ==
  \/ \E R \in SUBSET Run : \E of \in [R -> Pulse] : Start(R, of)
  \/ \E R \in SUBSET Run, outcome \in EndStatus : End(R, outcome)
  \/ \E p \in Pulse : Drop(p)

Spec == Init /\ [][Next]_run

(* At most one run of a Pulse is active: what the scheduler calls "the     *)
(* single active Pulse run invariant".                                     *)
SingleActiveRun ==
  \A q, r \in Run : (Running(q) /\ Running(r) /\ run[q].pulse = run[r].pulse) => q = r
=============================================================================
