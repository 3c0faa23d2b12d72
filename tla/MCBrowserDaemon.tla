--------------------------- MODULE MCBrowserDaemon ---------------------------
(* Values for the constants of BrowserDaemon. *)
EXTENDS BrowserDaemon, TLC

Symmetry == Permutations(Client) \cup Permutations(Conn) \cup Permutations(Session)
=============================================================================
