--------------------------- MODULE BrowserConnection ---------------------------
(***************************************************************************)
(* The browser connection of one Pi session: the gate of leases and        *)
(* exclusive sections (connection.ts), a tool call (util/tool.ts), the     *)
(* client's start, health check and tabs (client.ts), the CDP session and  *)
(* the registry of owned tabs (cdp/), the WebSocket transport and Steel's  *)
(* sessions (steel.ts).  A step of a call runs from one answer to the next *)
(* request.  No lease spans two resources, so one link and registry stand  *)
(* for those of the present resource.  Requests that repeat without effect *)
(* and profile pins, which nothing sets, are left out; all tabs of a Steel *)
(* browser are in one window.  "mutant": faulty form of the next one.      *)
(***************************************************************************)
EXTENDS Subsequences, Naturals, FiniteSets, SequencesExt

CONSTANTS
  Call,         \* tool calls and commands
  Kinds,        \* what each may be: an operation and its argument
  UserTab,      \* tabs the user opened in the external browser
  HarnessTab,   \* tabs opened through the harness or by its pages: a bound
  Steel, Cdp,   \* the providers
  None,
  MaxFaults     \* bound on drops, closed tabs, popups, refusals and aborts

Tab == UserTab \cup HarnessTab
Provider == {Steel, Cdp}
Exclusive == {"setup", "release"}
Parallel == {"read", "list"}
Op == {"act", "navigate", "new", "switch", "authorize", "close"} \cup Parallel \cup Exclusive

ASSUME ConnectionAssumption ==
  /\ Kinds \in [Call -> SUBSET (Op \X (Tab \cup Provider \cup {None}))]
  /\ \A c \in Call : \A k \in Kinds[c] : k[1] = "setup" => k[2] \in Provider \cup {None}
  /\ HarnessTab \subseteq Nat /\ HarnessTab \cap UserTab = {} /\ IsFiniteSet(Tab)
  /\ None \notin Tab \cup Call \cup Provider /\ Steel # Cdp /\ MaxFaults \in Nat

VARIABLES
  call,
  gate,         \* who waits for or holds the connection's mutex, in order
  lane,         \* the same of the client's mutation mutex
  selected, resource,
  link,         \* the transport: its state and how many sockets were open
  events,       \* events of the socket not consumed yet
  starting,     \* the call that runs startOnce, if any
  inFlight,     \* the call that runs ensureHarnessWindow, if any
  cur,          \* the session's tab and the socket of its session id
  owned, window, authorized,
  dropped,      \* history: tabs that a listing without chrome:// pages took from the registry
  home,         \* browser of each tab that was opened
  live,         \* tabs that are open
  steel,        \* Steel's live session, and the endpoint the runtime keeps
  faults

vars == <<call, gate, lane, selected, resource, link, events, starting, inFlight, cur, owned, window,
          authorized, dropped, home, live, steel, faults>>
registry == <<owned, window, authorized, dropped>>
browser == <<home, live, steel>>
client == <<selected, resource>>

(* Where a call awaits: an answer from the browser, or something else.     *)
Requesting == {"probe", "targets", "attach", "wintargets", "create", "tabs", "open", "switch", "listing", "act", "exists",
               "closing", "dispose"}
At == Requesting \cup {"new", "gate", "alive", "starting", "endpoint", "dial", "enable", "winwait", "fresh", "given",
                       "refused", "check", "lane", "switched", "done"}
NoTab == [tab |-> None, gen |-> 0]

TypeOK ==
  /\ call \in [Call -> [op : Op, arg : Tab \cup Provider \cup {None}, at : At, client : Nat, cut : BOOLEAN,
                        pick : Tab \cup {None}, gen : Nat, then : {"lane", "handler", "start", "reattach"}]]
  /\ gate \in Seq(Call) /\ lane \in Seq(Call) /\ selected \in Provider /\ resource \in Nat
  /\ link \in [status : {"closed", "connecting", "open"}, gen : Nat]
  /\ events \in Seq({"gone", "popup"} \X Tab \X (Tab \cup {None}))
  /\ starting \in Call \cup {None} /\ inFlight \in Call \cup {None}
  /\ cur \in [tab : Tab \cup {None}, gen : Nat]
  /\ owned \in Seq(Tab) /\ Cardinality(Range(owned)) = Len(owned) /\ window \in Tab \cup {None} /\ authorized \in SUBSET Tab
  /\ dropped \in SUBSET Tab
  /\ home \in [Tab -> Provider \cup {None}] /\ live \in SUBSET Tab
  /\ steel \in [live : BOOLEAN, known : BOOLEAN] /\ faults \in 0..MaxFaults

Init ==
  /\ call = [c \in Call |-> [op |-> "read", arg |-> None, at |-> "new", client |-> 0, cut |-> FALSE, pick |-> None, gen |-> 0, then |-> "lane"]]
  /\ gate = <<>> /\ lane = <<>> /\ selected = Steel /\ resource = 1
  /\ link = [status |-> "closed", gen |-> 0] /\ events = <<>>
  /\ starting = None /\ inFlight = None /\ cur = NoTab
  /\ owned = <<>> /\ window = None /\ authorized = {} /\ dropped = {}
  /\ home = [t \in Tab |-> IF t \in UserTab THEN Cdp ELSE None] /\ live = UserTab
  /\ steel = [live |-> FALSE, known |-> FALSE] /\ faults = 0

-----------------------------------------------------------------------------
(* The registry and the browser.                                           *)
Open == link.status = "open"
Owns(t) == t \in Range(owned)
CanControl(t) == Owns(t) \/ t \in authorized
With(ids, t) == IF t \in Range(ids) THEN ids ELSE Append(ids, t)
Without(ids, t) == Kept(ids, Range(ids) \ {t})
Pages == {t \in live : home[t] = selected}
LiveOnly(ids) == Kept(ids, Pages)
WindowIfLive == IF window \in Pages THEN window ELSE None
First(ids) == IF ids = <<>> THEN None ELSE Head(ids)
(* attachFirstPage claims what shares the window of an owned tab, but not  *)
(* in a browser the user brought.                                          *)
AdoptedAlways(ids) == IF ids = <<>> THEN ids ELSE ids \o SetToSeq(Pages \ Range(ids))   \* mutant
Adopted(ids) == IF ids = <<>> \/ selected = Cdp THEN ids ELSE ids \o SetToSeq(Pages \ Range(ids))
Registered(ids, w, auth) ==
  owned' = ids /\ window' = w /\ authorized' = auth /\ dropped' = dropped \ (Range(ids) \cup auth)
(* listTabs: what it does not list is forgotten, be it open or not.        *)
ListTabs(listed) ==
  /\ owned' = Kept(owned, listed) /\ window' = IF window \in listed THEN window ELSE None
  /\ authorized' = authorized \cap listed
  /\ dropped' = dropped \cup ((Range(owned) \cup authorized) \cap (Pages \ listed))

Fault == faults < MaxFaults /\ faults' = faults + 1
Unused == {t \in HarnessTab : home[t] = None}
NewTab == CHOOSE t \in Unused : \A u \in Unused : t <= u
Created == home' = [home EXCEPT ![NewTab] = selected] /\ live' = live \cup {NewTab} /\ UNCHANGED steel

-----------------------------------------------------------------------------
(* Progress of a call.  A request sent on a closed socket, or open when it *)
(* closes, is answered with an error.                                      *)
Going(c, at) == [call EXCEPT ![c].at = at, ![c].cut = at \in Requesting /\ ~Open]
Go(c, at) == call' = Going(c, at)
GoPick(c, at, t) == call' = [Going(c, at) EXCEPT ![c].pick = t]
(* A handler's requests go to the current tab, by the id of its session.   *)
Acting(now, x) == [x EXCEPT !.at = "act", !.pick = now.tab, !.gen = now.gen, !.cut = ~Open]
Reading(now, x) == IF x.op = "list" THEN [x EXCEPT !.at = "listing", !.cut = ~Open] ELSE Acting(now, x)
GoThen(c, at, then) == call' = [Going(c, at) EXCEPT ![c].then = then]
Cut(calls) == [c \in Call |-> IF calls[c].at \in Requesting \cup {"dial"} THEN [calls[c] EXCEPT !.cut = TRUE] ELSE calls[c]]
(* finally: the lease, the lane and the gate are given back.               *)
Ended(calls, c) ==
  [calls EXCEPT ![c].at = "done", ![c].client = 0, ![c].cut = FALSE, ![c].gen = 0,
                ![c].pick = IF calls[c].op = "new" /\ calls[c].at = "switched" THEN @ ELSE None]
Freed(c) == /\ lane' = Without(lane, c)
            /\ gate' = IF call[c].op \in Exclusive THEN Without(gate, c) ELSE gate
End(c) == call' = Ended(call, c) /\ Freed(c)
Leased == {c \in Call : call[c].client # 0 /\ call[c].op \notin Exclusive}

(* transport.close and the session's onClose, and connect, which begins so.*)
CloseTo(status, calls) ==
  /\ call' = Cut(calls)
  /\ link' = [link EXCEPT !.status = status] /\ events' = <<>>
  /\ cur' = IF link.status = "closed" THEN cur ELSE NoTab
Close(calls) == CloseTo("closed", calls)

(* startOnce settled: whoever joined it shares its result.                 *)
Started(calls, ok) ==
  [c \in Call |-> IF c = starting \/ calls[c].at = "starting"
                  THEN IF ok THEN [calls[c] EXCEPT !.at = "check", !.cut = FALSE] ELSE Ended(calls, c)[c]
                  ELSE calls[c]]
StartFailedForGood == UNCHANGED starting /\ Freed(starting)                               \* mutant
StartFailed == starting' = None /\ Freed(starting)

-----------------------------------------------------------------------------
(* The gate: withClient, exclusive.                                        *)
Begin(c, op, arg) ==
  /\ call[c].at = "new" /\ <<op, arg>> \in Kinds[c]
  /\ call' = [call EXCEPT ![c].op = op, ![c].arg = arg, ![c].at = "gate"]
  /\ gate' = Append(gate, c)
  /\ UNCHANGED <<lane, client, link, events, starting, inFlight, cur, registry, browser, faults>>

Lease(c) ==
  /\ call[c].at = "gate" /\ call[c].op \notin Exclusive /\ Head(gate) = c
  /\ call' = [call EXCEPT ![c].at = "alive", ![c].client = resource]
  /\ gate' = Tail(gate)
  /\ UNCHANGED <<lane, client, link, events, starting, inFlight, cur, registry, browser, faults>>

(* A tool that was aborted ends when it has its lease, or its turn.        *)
Abort(c) ==
  /\ call[c].at = "alive" \/ (call[c].at = "lane" /\ Head(lane) = c)
  /\ Fault /\ End(c)
  /\ UNCHANGED <<client, link, events, starting, inFlight, cur, registry, browser>>

NotDrained(S) == TRUE                                                                  \* mutant
Drained(S) == S = {}
Keeps(c) == call[c].op = "setup" /\ call[c].arg \in {None, selected}
(* exclusive: setup with the same selection connects at once; else, and    *)
(* for release, disconnect first closes the owned tabs if it is connected. *)
(* With no start under way an open link has a current tab.                 *)
Enter(c) ==
  /\ call[c].at = "gate" /\ call[c].op \in Exclusive /\ Head(gate) = c /\ Drained(Leased)
  /\ \/ /\ Keeps(c) /\ Open /\ cur # NoTab
        /\ call' = [call EXCEPT ![c].client = resource, ![c].at = "check"]
        /\ UNCHANGED <<link, events, cur, starting>>
     \/ /\ Keeps(c) /\ ~(Open /\ cur # NoTab) /\ starting' = c
        /\ CloseTo("connecting", [call EXCEPT ![c].client = resource, ![c].at = "endpoint", ![c].then = "start"])
     \/ /\ ~Keeps(c)
        /\ call' = [Going(c, "dispose") EXCEPT ![c].client = resource]
        /\ UNCHANGED <<link, events, cur, starting>>
  /\ UNCHANGED <<gate, lane, client, inFlight, registry, browser, faults>>

(* closeOwnedTabs, one tab: an error leaves it open and no longer owned.   *)
Dispose(c) ==
  /\ call[c].at = "dispose" /\ Open /\ cur # NoTab /\ owned # <<>>
  /\ live' = IF call[c].cut THEN live ELSE live \ {Head(owned)}
  /\ Registered(Tail(owned), IF window = Head(owned) THEN None ELSE window, authorized)
  /\ Go(c, "dispose")
  /\ UNCHANGED <<gate, lane, client, link, events, starting, inFlight, cur, home, steel, faults>>

(* stop, then Steel's release: it forgets the endpoint before it asks, and *)
(* a refusal is ignored.  A new resource owns nothing.                     *)
Released == IF steel.known THEN [live |-> FALSE, known |-> FALSE] ELSE steel
Disconnect(c) ==
  /\ call[c].at = "dispose" /\ (~Open \/ cur = NoTab \/ owned = <<>>)
  /\ \/ steel' = Released /\ UNCHANGED faults
     \/ steel.known /\ Fault /\ steel' = [steel EXCEPT !.known = FALSE]
  /\ live' = IF steel'.live THEN live ELSE {t \in live : home[t] # Steel}
  /\ resource' = resource + 1
  /\ link' = [link EXCEPT !.status = IF call[c].op = "setup" THEN "connecting" ELSE "closed"]
  /\ events' = <<>> /\ cur' = NoTab
  /\ owned' = <<>> /\ window' = None /\ authorized' = {} /\ dropped' = {}
  /\ IF call[c].op = "release"
     THEN End(c) /\ UNCHANGED <<selected, starting>>
     ELSE /\ selected' = call[c].arg
          /\ call' = [call EXCEPT ![c].at = "endpoint", ![c].client = resource + 1, ![c].then = "start"]
          /\ starting' = c /\ UNCHANGED <<gate, lane>>
  /\ UNCHANGED <<inFlight, home>>

(* The context of the Steel session could not be saved: release is left    *)
(* with the error, and the resource stays, stopped.                        *)
SaveFails(c) ==
  /\ call[c].at = "dispose" /\ (~Open \/ cur = NoTab \/ owned = <<>>) /\ steel.known /\ Fault
  /\ link' = [link EXCEPT !.status = "closed"] /\ events' = <<>> /\ cur' = NoTab
  /\ Registered(owned, IF Open /\ cur # NoTab THEN None ELSE window, authorized)
  /\ End(c)
  /\ UNCHANGED <<client, starting, inFlight, browser>>

-----------------------------------------------------------------------------
(* ensureAlive, start and the transport's connect.                         *)
(* stop, then start: the second to come joins the first, whose connection  *)
(* it has just stopped.                                                    *)
Joined(calls, c) == IF starting = None THEN [calls EXCEPT ![c].at = "endpoint", ![c].then = "start"]
                                       ELSE [calls EXCEPT ![c].at = "starting", ![c].cut = FALSE]
Revive(c) ==
  /\ CloseTo(IF starting = None THEN "connecting" ELSE "closed", Joined(call, c))
  /\ starting' = IF starting = None THEN c ELSE starting
  /\ UNCHANGED <<gate, lane, client, inFlight, registry, browser, faults>>

(* The answer to the last probe serves for HEALTH_TTL_MS.                  *)
Alive(c) ==
  /\ call[c].at = "alive"
  /\ IF ~Open \/ cur = NoTab THEN Revive(c)
     ELSE /\ Go(c, "check") \/ Go(c, "probe")
          /\ UNCHANGED <<gate, lane, client, link, events, starting, inFlight, cur, registry, browser, faults>>

(* The tab's session may be unknown to the browser: attach again, outside  *)
(* startOnce.  The second probe's other errors count as health.            *)
Lost == cur.tab \notin Pages \/ cur.gen # link.gen
Probe(c) ==
  /\ call[c].at = "probe"
  /\ \/ call[c].cut /\ Revive(c)
     \/ /\ IF ~call[c].cut /\ Lost THEN GoThen(c, "targets", "reattach") ELSE Go(c, "check")
        /\ UNCHANGED <<gate, lane, client, link, events, starting, inFlight, cur, registry, browser, faults>>

(* The endpoint is Steel's session, made once and only if none is live; a  *)
(* request of the API may fail, and the session it made be lost with its   *)
(* answer.  The transport may be closed meanwhile: connect goes on to dial.*)
Endpoint(c) ==
  /\ call[c].at = "endpoint"
  /\ \/ /\ selected = Cdp \/ steel.known \/ ~steel.live
        /\ call' = [call EXCEPT ![c].at = "dial", ![c].cut = FALSE]
        /\ steel' = IF selected = Steel THEN [live |-> TRUE, known |-> TRUE] ELSE steel
        /\ UNCHANGED <<starting, gate, lane, link, faults>>
     \/ /\ selected = Steel /\ ~steel.known
        /\ call' = Started(call, FALSE) /\ StartFailed
        /\ link' = [link EXCEPT !.status = "closed"]
        /\ \/ steel.live /\ UNCHANGED <<steel, faults>>
           \/ Fault /\ (UNCHANGED steel \/ steel' = [steel EXCEPT !.live = TRUE])
  /\ UNCHANGED <<client, events, cur, inFlight, registry, home, live>>

Opens(c) ==
  /\ call[c].at = "dial" /\ ~call[c].cut
  /\ link' = [status |-> "open", gen |-> link.gen + 1]
  /\ call' = [call EXCEPT ![c].at = "targets"]
  /\ UNCHANGED <<gate, lane, client, events, starting, inFlight, cur, registry, browser, faults>>

(* The socket is refused or times out, or someone closed the transport.    *)
DialFails(c) ==
  /\ call[c].at = "dial"
  /\ IF call[c].cut THEN UNCHANGED faults ELSE faults < MaxFaults /\ faults' = faults + 1
  /\ Close(Started(call, FALSE)) /\ StartFailed
  /\ UNCHANGED <<client, inFlight, registry, browser>>

-----------------------------------------------------------------------------
(* attachFirstPage.                                                        *)
AttachFails(c) ==
  IF call[c].then = "start"
  THEN Close(Started(call, FALSE)) /\ StartFailed /\ UNCHANGED <<client, inFlight, registry, browser, faults>>
  ELSE Revive(c)

(* Prune what is gone, adopt, and pick the first owned tab; with none, one *)
(* comes from ensureHarnessWindow, which another call may be running.      *)
AskWindow(c) ==
  IF inFlight = None THEN Go(c, "wintargets") /\ inFlight' = c
                     ELSE Go(c, "winwait") /\ UNCHANGED inFlight
PickOwned(ids) == First(ids)
Targets(c) ==
  /\ call[c].at = "targets"
  /\ \/ call[c].cut /\ AttachFails(c)
     \/ /\ ~call[c].cut
        /\ LET ids == Adopted(LiveOnly(owned))
           IN  /\ Registered(ids, IF WindowIfLive = None THEN First(LiveOnly(owned)) ELSE window, authorized)
               /\ IF PickOwned(ids) # None THEN GoPick(c, "attach", PickOwned(ids)) /\ UNCHANGED inFlight
                                           ELSE AskWindow(c)
        /\ UNCHANGED <<gate, lane, client, link, events, starting, cur, browser, faults>>

Attach(c) ==
  /\ call[c].at = "attach"
  /\ \/ (call[c].cut \/ call[c].pick \notin Pages) /\ AttachFails(c)
     \/ /\ ~call[c].cut /\ call[c].pick \in Pages
        /\ cur' = [tab |-> call[c].pick, gen |-> link.gen]
        /\ Go(c, "enable")
        /\ UNCHANGED <<gate, lane, client, link, events, starting, inFlight, registry, browser, faults>>

(* enableDomains ignores its answers: the start succeeds even if the       *)
(* socket closed meanwhile.                                                *)
Enabled(c) ==
  /\ call[c].at = "enable"
  /\ IF call[c].then = "start" THEN call' = Started(call, TRUE) /\ starting' = None
                               ELSE Go(c, "check") /\ UNCHANGED starting
  /\ UNCHANGED <<gate, lane, client, link, events, inFlight, cur, registry, browser, faults>>

-----------------------------------------------------------------------------
(* ensureHarnessWindow: one creation at a time, and its seed tab is for    *)
(* the call that made it.                                                  *)
SharedSeed(at) == at                                                                   \* mutant
Shared(at) == IF at = "fresh" THEN "given" ELSE at
WindowDone(c, at, t) ==
  /\ inFlight' = None
  /\ call' = [d \in Call |-> IF d = c THEN [call[d] EXCEPT !.at = at, !.pick = t, !.cut = FALSE]
                             ELSE IF call[d].at = "winwait" THEN [call[d] EXCEPT !.at = Shared(at), !.pick = t] ELSE call[d]]

WinTargets(c) ==
  /\ call[c].at = "wintargets"
  /\ LET t == IF WindowIfLive # None THEN window ELSE First(LiveOnly(owned))
     IN  \/ call[c].cut /\ WindowDone(c, "refused", None) /\ UNCHANGED registry
         \/ ~call[c].cut /\ t # None /\ WindowDone(c, "given", t) /\ Registered(owned, t, authorized)
         \/ ~call[c].cut /\ t = None /\ Go(c, "create") /\ UNCHANGED <<inFlight, registry>>
  /\ UNCHANGED <<gate, lane, client, link, events, starting, cur, browser, faults>>

(* createDedicatedWindow.  If the socket closes before the answer the tab  *)
(* may have been made: nobody owns it.                                     *)
Create(c) ==
  /\ call[c].at = "create"
  /\ \/ /\ call[c].cut \/ Unused = {}
        /\ WindowDone(c, "refused", None) /\ UNCHANGED registry
        /\ (Unused # {} /\ Created) \/ UNCHANGED browser
     \/ /\ ~call[c].cut /\ Unused # {}
        /\ Created /\ Registered(With(owned, NewTab), NewTab, authorized)
        /\ WindowDone(c, "fresh", NewTab)
  /\ UNCHANGED <<gate, lane, client, link, events, starting, cur, faults>>

Opening(c) == call[c].then \in {"lane", "handler"}
Given(c) ==
  \/ /\ call[c].at \in {"fresh", "given"}
     /\ Go(c, IF ~Opening(c) THEN "attach" ELSE IF call[c].at = "fresh" THEN "switch" ELSE "open")
     /\ UNCHANGED <<gate, lane, client, link, events, starting, inFlight, cur, registry, browser, faults>>
  \/ /\ call[c].at = "refused" /\ ~Opening(c) /\ AttachFails(c)
  \/ /\ call[c].at = "refused" /\ Opening(c) /\ End(c)
     /\ UNCHANGED <<client, link, events, starting, inFlight, cur, registry, browser, faults>>

-----------------------------------------------------------------------------
(* After ensureAlive or start: a tab that may not be controlled is left    *)
(* for a new one, outside the mutation mutex.                              *)
Check(c) ==
  /\ call[c].at = "check"
  /\ \/ /\ cur = NoTab \/ ~CanControl(cur.tab)
        /\ GoThen(c, "tabs", "lane") /\ UNCHANGED <<gate, lane>>
     \/ /\ cur # NoTab /\ CanControl(cur.tab)
        /\ \/ call[c].op \in Exclusive /\ End(c)
           \/ call[c].op \in Parallel /\ call' = [call EXCEPT ![c] = Reading(cur, @)] /\ UNCHANGED <<gate, lane>>
           \/ call[c].op \notin Exclusive \cup Parallel /\ Go(c, "lane") /\ lane' = Append(lane, c) /\ UNCHANGED gate
  /\ UNCHANGED <<client, link, events, starting, inFlight, cur, registry, browser, faults>>

(* newTab: listTabs prunes the registry, the window is found or made, a    *)
(* tab opened beside it, and the session switched.                         *)
Tabs(c) ==
  /\ call[c].at = "tabs"
  /\ \/ call[c].cut /\ End(c) /\ UNCHANGED <<registry, inFlight>>
     \/ /\ ~call[c].cut /\ Registered(LiveOnly(owned), WindowIfLive, authorized \cap Pages)
        /\ AskWindow(c) /\ UNCHANGED <<gate, lane>>
  /\ UNCHANGED <<client, link, events, starting, cur, browser, faults>>

OpenTab(c) ==
  /\ call[c].at = "open"
  /\ \/ /\ call[c].cut \/ Unused = {} \/ call[c].pick \notin Pages
        /\ End(c) /\ UNCHANGED registry
        /\ (call[c].cut /\ Unused # {} /\ Created) \/ UNCHANGED browser
     \/ /\ ~call[c].cut /\ Unused # {} /\ call[c].pick \in Pages
        /\ Created /\ Registered(With(owned, NewTab), window, authorized)
        /\ GoPick(c, "switch", NewTab) /\ UNCHANGED <<gate, lane>>
  /\ UNCHANGED <<client, link, events, starting, inFlight, cur, faults>>

(* switchTo: activated and attached; then enableDomains, whatever its      *)
(* answers; then it is the current tab, with the session id it was given.  *)
Switch(c) ==
  /\ call[c].at = "switch"
  /\ IF call[c].cut \/ call[c].pick \notin Pages THEN End(c)
     ELSE call' = [Going(c, "switched") EXCEPT ![c].gen = link.gen] /\ UNCHANGED <<gate, lane>>
  /\ UNCHANGED <<client, link, events, starting, inFlight, cur, registry, browser, faults>>

Switched(c) ==
  /\ call[c].at = "switched"
  /\ cur' = [tab |-> call[c].pick, gen |-> call[c].gen]
  /\ IF call[c].then = "handler" \/ call[c].op \in Exclusive THEN End(c)
     ELSE IF call[c].op \in Parallel THEN call' = [call EXCEPT ![c] = Reading(cur', @)] /\ UNCHANGED <<gate, lane>>
     ELSE Go(c, "lane") /\ lane' = Append(lane, c) /\ UNCHANGED gate
  /\ UNCHANGED <<client, link, events, starting, inFlight, registry, browser, faults>>

-----------------------------------------------------------------------------
(* The handlers, serialized ones when the lane is theirs.                  *)
AnyTurn(c) == TRUE                                                                     \* mutant
InTurn(c) == Head(lane) = c
Handle(c) ==
  LET t == call[c].arg
      Switching == call' = [Going(c, "switch") EXCEPT ![c].pick = t, ![c].then = "handler"]
      Denied == \/ call[c].op = "switch" /\ ~CanControl(t)
                \/ call[c].op = "authorize" /\ ~CanControl(t) /\ selected # Cdp
                \/ call[c].op = "close" /\ ~Owns(t)
  IN
  /\ call[c].at = "lane" /\ InTurn(c)
  /\ \/ Denied /\ End(c)
     \/ /\ ~Denied /\ UNCHANGED <<gate, lane>>
        /\ \/ call[c].op = "act" /\ call' = [call EXCEPT ![c] = Acting(cur, @)]
           \/ call[c].op = "navigate" /\ Go(c, "listing")
           \/ call[c].op = "new" /\ GoThen(c, "tabs", "handler")
           \/ call[c].op \in {"switch", "authorize"} /\ CanControl(t) /\ Switching
           \/ call[c].op = "authorize" /\ ~CanControl(t) /\ Go(c, "exists")
           \/ call[c].op = "close" /\ Go(c, "closing")
  /\ UNCHANGED <<client, link, events, starting, inFlight, cur, registry, browser, faults>>

(* list_tabs and navigate list the tabs; which of them show chrome:// pages*)
(* is up to user and agent, and left out on demand or by navigate, which   *)
(* opens a tab if it sees none and else goes on in the current tab.        *)
Listing(c) ==
  /\ call[c].at = "listing"
  /\ \/ call[c].cut /\ End(c) /\ UNCHANGED registry
     \/ /\ ~call[c].cut
        /\ \E internal \in SUBSET Pages :
             /\ ListTabs(Pages \ internal)
             /\ \/ call[c].op = "list" /\ End(c)
                \/ /\ call[c].op = "navigate" /\ UNCHANGED <<gate, lane>>
                   /\ IF internal = Pages THEN GoThen(c, "tabs", "handler") ELSE call' = [call EXCEPT ![c] = Acting(cur, @)]
  /\ UNCHANGED <<client, link, events, starting, inFlight, cur, browser, faults>>

(* The last answer of a read or an action.                                 *)
Act(c) ==
  /\ call[c].at = "act" /\ End(c)
  /\ UNCHANGED <<client, link, events, starting, inFlight, cur, registry, browser, faults>>

(* authorizeTab: listTabs, then the tab must exist.                        *)
Authorize(c) ==
  /\ call[c].at = "exists"
  /\ LET t == call[c].arg
     IN  \/ call[c].cut /\ End(c) /\ UNCHANGED registry
         \/ /\ ~call[c].cut /\ Registered(LiveOnly(owned), WindowIfLive, (authorized \cup {t}) \cap Pages)
            /\ IF t \in Pages
               THEN call' = [Going(c, "switch") EXCEPT ![c].pick = t, ![c].then = "handler"] /\ UNCHANGED <<gate, lane>>
               ELSE End(c)
  /\ UNCHANGED <<client, link, events, starting, inFlight, cur, browser, faults>>

Removed(t) == Registered(Without(owned, t), IF window = t THEN None ELSE window, authorized)
CloseTab(c) ==
  /\ call[c].at = "closing" /\ End(c)
  /\ LET t == call[c].arg
     IN  \/ (call[c].cut \/ t \notin Pages) /\ UNCHANGED <<live, events, registry>>
         \/ /\ ~call[c].cut /\ t \in Pages /\ live' = live \ {t} /\ Removed(t)
            /\ events' = Append(events, <<"gone", t, None>>)
  /\ UNCHANGED <<client, link, starting, inFlight, cur, home, steel, faults>>

-----------------------------------------------------------------------------
(* The browser, its user, the network; and consumeEvents.                  *)
Drop ==
  /\ Fault /\ Open /\ Close(call)
  /\ UNCHANGED <<gate, lane, client, starting, inFlight, registry, browser>>

TabGone(t) ==
  /\ Fault /\ t \in live /\ live' = live \ {t}
  /\ events' = IF Open /\ t \in Pages THEN Append(events, <<"gone", t, None>>) ELSE events
  /\ UNCHANGED <<call, gate, lane, client, link, starting, inFlight, cur, registry, home, steel>>

(* A page opens another tab; its opener says whose it is.                  *)
Popup(opener) ==
  /\ Fault /\ opener \in Pages \ UserTab /\ Unused # {} /\ Created
  /\ events' = IF Open THEN Append(events, <<"popup", NewTab, opener>>) ELSE events
  /\ UNCHANGED <<call, gate, lane, client, link, starting, inFlight, cur, registry>>

Consume ==
  /\ events # <<>> /\ events' = Tail(events)
  /\ LET e == Head(events)
     IN  \/ e[1] = "gone" /\ Removed(e[2])
         \/ e[1] = "popup" /\ Registered(IF Owns(e[3]) THEN With(owned, e[2]) ELSE owned, window, authorized)
  /\ UNCHANGED <<call, gate, lane, client, link, starting, inFlight, cur, browser, faults>>

Steps(c) ==
  \/ \E k \in Kinds[c] : Begin(c, k[1], k[2])
  \/ Lease(c) \/ Enter(c) \/ Dispose(c) \/ Disconnect(c) \/ SaveFails(c)
  \/ Alive(c) \/ Probe(c) \/ Endpoint(c) \/ Opens(c) \/ DialFails(c)
  \/ Targets(c) \/ Attach(c) \/ Enabled(c) \/ WinTargets(c) \/ Create(c) \/ Given(c)
  \/ Check(c) \/ Tabs(c) \/ OpenTab(c) \/ Switch(c) \/ Switched(c)
  \/ Handle(c) \/ Listing(c) \/ Act(c) \/ Authorize(c) \/ CloseTab(c)

Next ==
  \/ \E c \in Call : Steps(c) \/ Abort(c)
  \/ Drop \/ Consume \/ \E t \in Tab : TabGone(t) \/ Popup(t)

Spec == Init /\ [][Next]_vars

-----------------------------------------------------------------------------
(* A tool keeps the browser it leased: the resource is replaced only when  *)
(* no tool has it, however many wait (connection.ts:43).                   *)
LeaseKeepsClient ==
  /\ \A c \in Leased : call[c].client = resource
  /\ \A c, d \in Call : call[c].op \in Exclusive /\ call[c].client # 0 /\ call[d].client # 0 => c = d

(* The harness takes no tab of the user's for its own, which a release     *)
(* would close (connection.ts:61): nor after reconnections, closed tabs,   *)
(* popups and authorizations.                                              *)
UserTabsAreNotOwned == Range(owned) \cap UserTab = {}

(* The session never rests on a page it may not control, whoever attaches, *)
(* reattaches or switches it at once (tool.ts:144): but for a page that    *)
(* a listing without chrome:// pages dropped though it was open, which the *)
(* next call leaves (client.ts:271).                                       *)
SessionIsControllable == cur.tab \in Pages => CanControl(cur.tab) \/ cur.tab \in dropped

(* No two new tabs are one: the seed tab of a window belongs to the caller *)
(* that made the window (target-factory.ts:80).                            *)
NewTabsDiffer ==
  \A c, d \in Call :
    (c # d /\ {call[c].op, call[d].op} = {"new"} /\ {call[c].at, call[d].at} \subseteq {"switch", "switched", "done"} /\ call[c].pick # None)
      => call[c].pick # call[d].pick

(* Steel allows one live session: unless Steel refused to end it, its      *)
(* endpoint is known to the present resource, which can use and end it.    *)
SteelSessionIsKept == steel.live /\ faults = 0 => steel.known

(* While a handler has the lane no other handler moves the session from    *)
(* its tab; only a call that found no tab to control, or reconnects, may.  *)
HandlersDoNotMix ==
  [][\A c \in Call :
       (call[c].at = "act" /\ call[c].op \notin Parallel /\ cur = [tab |-> call[c].pick, gen |-> call[c].gen] /\ cur' \notin {cur, NoTab})
         => \E d \in Call \ {c} : call[d].at = "attach" \/ (call[d].at = "switched" /\ call[d].then = "lane")]_vars

(* Who waits will be served: a start or a window that is joined is under   *)
(* way, whatever closed the connection, and waits for no joiner; the gate  *)
(* and the lane hold, once, those that wait and the one that acts.         *)
UnderWay(c) ==
  \/ call[c].at \in {"endpoint", "dial"}
  \/ call[c].at \in {"targets", "wintargets", "create", "winwait", "fresh", "given", "refused", "attach", "enable"} /\ ~Opening(c)
WaitersAreServed ==
  /\ \A c \in Call : call[c].at = "starting" => starting # None
  /\ starting # None => UnderWay(starting) /\ call[starting].then = "start"
  /\ \A c \in Call : call[c].at = "winwait" => inFlight # None
  /\ inFlight # None => call[inFlight].at \in {"wintargets", "create"}
  /\ Cardinality(Range(gate)) = Len(gate) /\ Cardinality(Range(lane)) = Len(lane)
  /\ Range(gate) = {c \in Call : call[c].at = "gate" \/ (call[c].op \in Exclusive /\ call[c].client # 0)}
  /\ {c \in Call : call[c].at = "lane"} \subseteq Range(lane)
  /\ \A c \in Range(lane) : call[c].at \notin {"done", "starting"}

(* The types hold, the session rests on a page the harness may control,    *)
(* new tabs are their callers' own, the user's stay the user's, and a live *)
(* Steel session is known.                                                 *)
Inv == TypeOK /\ SessionIsControllable /\ UserTabsAreNotOwned /\ NewTabsDiffer /\ SteelSessionIsKept
=============================================================================
