------------------------------- MODULE MCPulse -------------------------------
(* Values for the constants of PulseScheduler. *)
EXTENDS PulseProperties, TLC

(* Schedules that name one minute and several.                             *)
Recurring == { {1, 3} }
Schedules == { {1}, {1, 3} }

Symmetry == Permutations(Pulse) \cup Permutations(Run) \cup Permutations(Owner)
=============================================================================
