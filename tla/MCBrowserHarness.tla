--------------------------- MODULE MCBrowserHarness ---------------------------
(* Values for the constants of BrowserHarness. *)
EXTENDS BrowserHarness, TLC

CONSTANTS c1, c2, c3, t1, t2, p1, p2
Three(a, b, c, may) == [op |-> (c1 :> a) @@ (c2 :> b) @@ (c3 :> c), may |-> may, most |-> IF "say" \in may THEN 3 ELSE 2]
Groups == {
  Three("snapshot", "click", "switch", {"render", "nav"}),
  Three("snapshot", "fill", "snapshot", {"drop"}),
  Three("form", "snapshot", "upload", {"nav", "drop"}),
  Three("select", "check", "focus", {"nav"}),
  Three("switch", "check", "key", {"alert"}),
  Three("console", "console", "console", {"say", "drop"}),
  Three("console", "switch", "console", {"say"}),
  Three("info", "info", "reload", {"nav", "alert"}),
  Three("info", "switch", "navigate", {"nav", "drop"}),
  Three("url", "click", "search", {"drop"}),
  Three("network", "bodies", "info", {"net"}),
  Three("dialog", "press", "type", {"alert"}) }
(* Every tool, with a snapshot and whatever may happen.                    *)
Sweep == {[Three("snapshot", op, "none", {"nav", "alert", "drop"}) EXCEPT !.most = 1] : op \in DOMAIN Script}
Mixed == Groups \cup Sweep \cup {Three("none", "none", "none", {})}

Symmetry == Permutations(Proc)
=============================================================================
