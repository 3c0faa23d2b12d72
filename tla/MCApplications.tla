---------------------------- MODULE MCApplications ----------------------------
(* Values for the constants of Applications. *)
EXTENDS Applications, TLC

CONSTANTS i1, i2, i3, c1, c2, c3, p1, p2, x, f
ToRoutes == (i1 :> [profile |-> p1, prefix |-> x]) @@ (i2 :> [profile |-> p2, prefix |-> x]) @@ (i3 :> Ignored)
Mixed ==
  (c1 :> {<<"message", i1>>})
  @@ (c2 :> {<<"message", i1>>, <<"rollover", i1>>, <<"message", i2>>})
  @@ (c3 :> {<<"direct", i1>>, <<"named", i1>>, <<"stateless", i1>>, <<"message", i3>>})
(* A client may bring the second id that the store would make up, and one  *)
(* of another form.                                                        *)
Brought == {[prefix |-> x, day |-> 1, seq |-> 2], f}
=============================================================================
