---------------------------- MODULE MCApiSessions ----------------------------
(* Values for the constants of ApiSessions. *)
EXTENDS ApiSessions, TLC

CONSTANTS p1, p2, s1, s2, r1, r2, r3, X, H
Owners == (s1 :> p1) @@ (s2 :> p2)
EnvFiles == (p1 :> {X}) @@ (p2 :> {})
Mixed == (r1 :> {"handoff"}) @@ (r2 :> {"delete", "discover", "oneshot"})
         @@ (r3 :> {"prompt", "create", "discover", "deleteProfile"})
=============================================================================
