----------------------------- MODULE BrowserHarness -----------------------------
(***************************************************************************)
(* The tools of the browser harness on their pages (BrowserPages) and the  *)
(* processes that look for a daemon (DaemonSpawn).  The two share nothing  *)
(* but the browser, and interleaving them would add nothing: processes     *)
(* move where the plan has no calls.                                       *)
(***************************************************************************)
EXTENDS BrowserPages, DaemonSpawn

vars == <<pages, spawning>>
Init == PagesInit /\ SpawnInit
Uncalled == \A c \in Call : Op(c) = "none"
Next ==
  \/ ~Uncalled /\ PagesStep /\ UNCHANGED spawning
  \/ Uncalled /\ SpawnStep /\ UNCHANGED pages
Spec == Init /\ [][Next]_vars

-----------------------------------------------------------------------------
(* A reference leads to the element the agent was shown under it, whatever *)
(* was rendered, switched or reconnected since, and within a diff or a     *)
(* form; a click goes to where that element was.  Not so where the code    *)
(* cannot: a click on a page that has changed since its box was read hits  *)
(* what came there (click.ts:38), a navigation may go to a renderer that   *)
(* gives the number to another element, and references that a snapshot     *)
(* published for a session that had moved are another tab's                *)
(* (snapshot.ts:161).                                                      *)
RefsReachWhatWasShown ==
  \A c \in Call : (Op(c) \in ByRef /\ call[c].ref \notin mixed) =>
    LET Shown(e) == \E s \in shown : s[1] = call[c].ref /\ s[2] = e[1] /\ (s[4] = e[3] => s[3] = e[2])
    IN  /\ call[c].hit # <<>> => Shown(call[c].hit) \/ call[c].slid
        /\ call[c].box # <<>> => Shown(call[c].box[1])

(* Every console message of a session is read by the agent that passes its *)
(* cursor on, or the agent is told that it is not, or it is still to be read. *)
NoMessageMissed ==
  \A t \in Tab :
    sess[t].sid # 0 /\ ~reader[t].stale =>
      \A seq \in 1..(sess[t].next - 1) :
        \/ seq \in reader[t].seen \cup reader[t].told
        \/ seq > reader[t].cursor /\ seq \in Elements(sess[t].log)
        \/ sess[t].over

(* No answer from the cache gives the page before a navigation that the    *)
(* session was told of, as long as the note of it waits to be taken, and   *)
(* once a read that came after it has ended well, through switches,        *)
(* reconnections and parallel reads.  (A read that takes the note and      *)
(* fails, or is under way, leaves the old answer for the rest of its       *)
(* second: client.ts:235.)                                                 *)
PageInfoIsCurrent == \A c \in Call : ~call[c].stale

(* A call that no error of the browser cut short closes its own tab and    *)
(* releases its element; and the button is up when no call is under way.   *)
NothingIsLeft ==
  /\ \A c \in Call : call[c].st = "done" /\ ~call[c].cut =>
       /\ call[c].own # "open"
       /\ (\E k \in DOMAIN Script[Op(c)] : Script[Op(c)][k][1] = "free") => call[c].handle = Idle.handle
  /\ \A t \in Tab : page[t].down => \E c \in Call : call[c].st = "busy" \/ call[c].cut

(* While no probe met another process and none timed out, crashed or was   *)
(* turned away, the path leads to every daemon that accepts: none is left  *)
(* listening where no client can find it, and who was told that a daemon   *)
(* runs finds one (spawn.ts:111).                                          *)
DaemonIsReachable ==
  excused \/
    /\ \A d \in Daemon : Accepts(d) => path = d
    /\ \A p \in Proc : proc[p].at = "up" => Accepts(path) \/ daemon[proc[p].d].st = "dead"

(* Whatever happens, a daemon that nobody is connected to counts down to   *)
(* its exit: probes and clients that come and go at once never disarm the  *)
(* timer for good (index.ts:42).                                           *)
NoDaemonLingers == \A d \in Daemon : daemon[d].st = "serving" /\ daemon[d].socks = {} => daemon[d].idle

Ascending(s) == \A i, j \in DOMAIN s : i < j => s[i] < s[j]
(* The types hold; records keep their order and are one for each request;  *)
(* page information is current, calls leave nothing behind, and no daemon   *)
(* stays for ever.                                                         *)
Inv ==
  /\ PagesTypeOK /\ SpawnTypeOK
  /\ \A t \in Tab : /\ Ascending(sess[t].log)
                    /\ \A i, j \in DOMAIN sess[t].net : i # j => sess[t].net[i].id # sess[t].net[j].id
  /\ PageInfoIsCurrent /\ NothingIsLeft /\ NoDaemonLingers
=============================================================================
