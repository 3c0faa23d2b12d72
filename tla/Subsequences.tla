----------------------------- MODULE Subsequences -----------------------------
(***************************************************************************)
(* The filter of the code's lists (stack(), the registry of owned tabs, a  *)
(* buffer) as a closed form: a theorem needs the place of each element in  *)
(* the result, which SelectSeq only gives by induction.                    *)
(***************************************************************************)
EXTENDS Naturals, FiniteSets

(* The members of s that are in S, in their order.                         *)
Kept(s, S) ==
  LET at == {k \in DOMAIN s : s[k] \in S}
  IN  [i \in 1..Cardinality(at) |-> s[CHOOSE k \in at : Cardinality({j \in at : j <= k}) = i]]
=============================================================================
