------------------------- MODULE MCBrowserConnection -------------------------
(* Values for the constants of BrowserConnection. *)
EXTENDS BrowserConnection, TLC

CONSTANTS c1, c2, c3, u1
Mixed ==
  (c1 :> {<<"read", None>>, <<"list", None>>, <<"act", None>>, <<"navigate", None>>, <<"new", None>>})
  @@ (c2 :> {<<"new", None>>, <<"authorize", u1>>, <<"close", 1>>, <<"switch", 1>>})
  @@ (c3 :> {<<"setup", Cdp>>, <<"setup", None>>, <<"release", None>>})
=============================================================================
