----------------------------- MODULE BrowserPages -----------------------------
(***************************************************************************)
(* Pages as the tools of the browser harness see them: the session of each *)
(* tab with its dialog, element references, console and network records    *)
(* (cdp/session.ts and the buffers), the client's page information, and    *)
(* the tools of domains/, each a script of steps.  A step is a request,    *)
(* sent to the tab that is current then and answered later, or a look at   *)
(* the current tab's session.  How the harness connects, attaches and owns *)
(* tabs is BrowserConnection; here a reconnection is one step.  Pages,     *)
(* elements and answers are numbers: element numbers begin anew in each    *)
(* renderer process, and a navigation may go to another one.               *)
(* "mutant": faulty form of the next.                                      *)
(***************************************************************************)
EXTENDS Naturals, Sequences, FiniteSets, Subsequences

CONSTANTS
  Call, Tab,
  FirstTab,     \* the tab a reconnection attaches to
  None,
  Plans,        \* what the calls do, and what may happen to pages and socket, how often at most
  Capacity,     \* records a buffer holds
  Limit,        \* records an answer holds
  MaxNodes      \* elements a tree holds

VARIABLES
  plan, call,
  lane,         \* the call that holds the client's mutation mutex
  open, gen,    \* the socket, and how many there were
  cur,          \* the session's tab and the socket of its session id
  sess,         \* the session of each tab: sid 0 if it has none
  page,         \* the pages themselves
  events,       \* events sent by the browser and not consumed
  cache,        \* page information kept for each tab, 0 if none
  ids,          \* references and session ids given so far
  shown,        \* references the agent was shown: for which element of which tab and renderer
  mixed,        \* references published while the session moved from the tab they are for
  reader,       \* the agent's reading of each console: cursor, what it saw, what it was told it did not see
  informed,     \* the last navigation of each tab that was known before a read that has ended well
  happened

pages == <<plan, call, lane, open, gen, cur, sess, page, events, cache, ids, shown, mixed, reader, informed, happened>>

-----------------------------------------------------------------------------
(* Scripts: what to do, where to go on, and where after an error; 0 ends   *)
(* the call.                                                               *)
Plain(steps) == [k \in 1..Len(steps) |-> <<steps[k], IF k = Len(steps) THEN 0 ELSE k + 1, 0>>]
ThenDiff(steps) == [k \in 1..Len(steps) |-> <<steps[k], k + 1, 0>>] \o <<<<"diff", 0, 0>>>>

Snapshot == <<<<"tree", 2, 0>>, <<"look", 3, 4>>, <<"info", 4, 0>>, <<"boxes", 5, 5>>, <<"shot", 0, 0>>>>
DispatchClick == <<"move", "press", "lift">>
ClickRef == ThenDiff(<<"ref", "box">> \o DispatchClick)
ClickAt == ThenDiff(DispatchClick)
Fill == ThenDiff(<<"ref", "resolve", "run">>)
Focus == Plain(<<"ref", "resolve", "run">>)
SelectOption == ThenDiff(<<"ref", "resolve", "run">>)
ResolveAndCall == <<<<"ref", 2, 0>>, <<"resolve", 3, 0>>, <<"run", 4, 4>>, <<"free", 0, 0>>>>
SetChecked == ResolveAndCall
(* The fields of a form, two of them: one that fails does not stop the rest. *)
FillForm == <<<<"ref", 2, 5>>, <<"resolve", 3, 5>>, <<"run", 4, 4>>, <<"free", 5, 5>>,
              <<"ref", 6, 0>>, <<"resolve", 7, 0>>, <<"run", 8, 8>>, <<"free", 0, 0>>>>
TypeText == <<<<"probe", 2, 2>>, <<"insert", 0, 0>>>>
PressKey(char) == Plain(IF char THEN <<"down", "char", "up">> ELSE <<"down", "up">>)
DispatchKey == Plain(<<"ref", "resolve", "run">>)
Upload == Plain(<<"ref", "set">>)
UploadSelected == <<<<"document", 2, 5>>, <<"query", 3, 5>>, <<"setfile", 4, 5>>, <<"verify", 0, 5>>, <<"transfer", 0, 0>>>>
Download == Plain(<<"download">>)
PrintToPdf == Plain(<<"print">>)
Drag == Plain(<<"press", "drag", "drag", "drop", "lift">>)
Scroll == <<<<"look", 2, 0>>, <<"info", 3, 0>>, <<"front", 4, 0>>, <<"move", 5, 0>>, <<"wheel", 0, 0>>>>
Resize == Plain(<<"resize">>)
Headers == Plain(<<"headers">>)
PageInfoTool == <<<<"look", 2, 0>>, <<"info", 0, 0>>>>
WaitForLoad == <<<<"poll", 0, 1>>>>
WaitFor == <<<<"poll", 0, 1>>>>
Navigate == <<<<"tabs", 2, 0>>, <<"goto", 3, 0>>, <<"look", 4, 0>>, <<"info", 0, 0>>>>
OpenUrls == Plain(<<"keep", "ownattach", "ownenable", "owngoto", "activate">>)
GoBack == Plain(<<"history", "goto">>)
GoForward == Plain(<<"history", "goto">>)
Reload == <<<<"goto", 2, 0>>, <<"look", 3, 0>>, <<"info", 0, 0>>>>
Console == Plain(<<"console">>)
Network(bodies) == Plain(IF bodies THEN <<"network", "bodies">> ELSE <<"network">>)
HandleDialog == Plain(<<"dialog">>)
SwitchTo == <<<<"activate", 2, 0>>, <<"attach", 3, 0>>, <<"enable", 4, 4>>, <<"mark", 0, 0>>>>
ExecuteJs == Plain(<<"eval">>)
Screenshot == Plain(<<"shot">>)
(* openIsolatedTab, and what is done in the tab; it is closed in the end.  *)
IsolatedKept == <<<<"own", 2, 0>>, <<"ownattach", 3, 0>>, <<"ownenable", 4, 7>>, <<"owngoto", 5, 7>>,
                  <<"ownload", 6, 7>>, <<"owneval", 7, 7>>, <<"ownclose", 0, 0>>>>          \* mutant
Isolated == <<<<"own", 2, 0>>, <<"ownattach", 3, 7>>, <<"ownenable", 4, 7>>, <<"owngoto", 5, 7>>,
              <<"ownload", 6, 7>>, <<"owneval", 7, 7>>, <<"ownclose", 0, 0>>>>
ReadUrl == Isolated
WebSearch == Isolated
ReadTab == Plain(<<"ownattach", "owneval">>)

Script ==
  [snapshot |-> Snapshot, click |-> ClickRef, clickAt |-> ClickAt, fill |-> Fill, focus |-> Focus, select |-> SelectOption,
   check |-> SetChecked, form |-> FillForm, type |-> TypeText, press |-> PressKey(FALSE), char |-> PressKey(TRUE),
   key |-> DispatchKey, upload |-> Upload, uploadAt |-> UploadSelected, download |-> Download, pdf |-> PrintToPdf,
   drag |-> Drag, scroll |-> Scroll, resize |-> Resize, headers |-> Headers, info |-> PageInfoTool,
   load |-> WaitForLoad, wait |-> WaitFor, navigate |-> Navigate, urls |-> OpenUrls, back |-> GoBack,
   forward |-> GoForward, reload |-> Reload, console |-> Console, network |-> Network(FALSE), bodies |-> Network(TRUE),
   dialog |-> HandleDialog, switch |-> SwitchTo, js |-> ExecuteJs, shot |-> Screenshot, url |-> ReadUrl,
   search |-> WebSearch, tab |-> ReadTab, none |-> <<>>]
Parallel == {"snapshot", "info", "wait", "console", "network", "bodies", "js", "shot", "url", "tab"}
ByRef == {op \in DOMAIN Script : \E k \in DOMAIN Script[op] : Script[op][k][1] = "ref"}

ASSUME PagesAssumption ==
  /\ FirstTab \in Tab /\ None \notin Tab \cup Call /\ \E t \in Tab : t # FirstTab
  /\ Capacity \in Nat \ {0} /\ Limit \in Nat
  /\ \A p \in Plans : p.op \in [Call -> DOMAIN Script] /\ p.most \in Nat

-----------------------------------------------------------------------------
(* Records: the oldest goes when the buffer is full.                       *)
Evicted(records) == IF Len(records) >= Capacity THEN Tail(records) ELSE records
LastOf(records) == SubSeq(records, IF Len(records) > Limit THEN Len(records) - Limit + 1 ELSE 1, Len(records))
Elements(s) == {s[k] : k \in DOMAIN s}
LoggedQuietly(s) == [s EXCEPT !.log = Append(Evicted(@), s.next), !.next = @ + 1]          \* mutant
Logged(s) == [s EXCEPT !.log = Append(Evicted(@), s.next), !.next = @ + 1, !.over = @ \/ Len(s.log) >= Capacity]
Requested(s, id) == LET others == Kept(s.net, {r \in Elements(s.net) : r.id # id})
                    IN  [s EXCEPT !.net = Append(Evicted(others), [id |-> id, state |-> "sent"]),
                                  !.netover = @ \/ Len(others) >= Capacity]
Updated(s, id, state) == [s EXCEPT !.net = [k \in DOMAIN @ |-> IF @[k].id = id THEN [@[k] EXCEPT !.state = state] ELSE @[k]]]

(* A tab's session; known is the last navigation it was told of.           *)
NoSession == [sid |-> 0, dialog |-> 0, dirty |-> FALSE, refs |-> {}, log |-> <<>>, next |-> 1, over |-> FALSE,
              net |-> <<>>, netover |-> FALSE, known |-> 0]
Fresh(dirty) == [NoSession EXCEPT !.sid = ids.sid, !.dirty = dirty]
Unread == [cursor |-> 0, seen |-> {}, told |-> {}, stale |-> FALSE]
Reread(r) == [Unread EXCEPT !.cursor = r.cursor, !.stale = r.cursor # 0]

Idle == [st |-> "new", i |-> 0, req |-> [tab |-> None, gen |-> 0], ref |-> 0, since |-> 0, key |-> None, due |-> 0,
         node |-> 0, handle |-> [tab |-> None, gen |-> 0, doc |-> 0], tree |-> [tab |-> None, gen |-> 0, renderer |-> 0, nodes |-> {}],
         new |-> {}, box |-> <<>>, hit |-> <<>>, slid |-> FALSE, gen |-> 0, own |-> "none", stale |-> FALSE, cut |-> FALSE]

(* At first the agent has been shown the first tab's elements.             *)
PagesInit ==
  /\ plan \in Plans /\ call = [c \in Call |-> [Idle EXCEPT !.st = IF plan.op[c] = "none" THEN "done" ELSE @]]
  /\ lane = None /\ open = TRUE /\ gen = 1
  /\ cur = [tab |-> FirstTab, gen |-> 1]
  /\ ids = [ref |-> 2, sid |-> 2]
  /\ sess = [t \in Tab |-> IF t = FirstTab THEN [NoSession EXCEPT !.sid = 1, !.refs = {<<1, 1>>}] ELSE NoSession]
  /\ page = [t \in Tab |-> [doc |-> 1, renderer |-> 1, nodes |-> {1}, made |-> 1, dialog |-> 0, said |-> 0, down |-> FALSE,
                              sid |-> IF t = FirstTab THEN 1 ELSE 0]]
  /\ events = <<>> /\ cache = [t \in Tab |-> 0] /\ shown = {<<1, FirstTab, 1, 1>>} /\ mixed = {}
  /\ reader = [t \in Tab |-> Unread] /\ informed = [t \in Tab |-> 0] /\ happened = 0

PagesTypeOK ==
  /\ plan \in Plans /\ lane \in Call \cup {None} /\ open \in BOOLEAN /\ gen \in Nat
  /\ cur \in [tab : Tab \cup {None}, gen : Nat] /\ ids \in [ref : Nat, sid : Nat]
  /\ \A c \in Call : /\ call[c].st \in {"new", "lane", "busy", "done"} /\ call[c].own \in {"none", "open", "closed"}
                      /\ call[c].st = "busy" => call[c].i \in DOMAIN Script[plan.op[c]]
  /\ \A t \in Tab : Len(sess[t].log) <= Capacity /\ Len(sess[t].net) <= Capacity /\ cache[t] \in 0..page[t].doc
  /\ mixed \subseteq Nat /\ informed \in [Tab -> Nat] /\ happened \in 0..plan.most

-----------------------------------------------------------------------------
(* Progress of a call.                                                     *)
Live == open /\ cur.tab # None /\ cur.gen = gen
Here == [tab |-> IF Live THEN cur.tab ELSE None, gen |-> gen]
Op(c) == plan.op[c]
StepOf(c) == Script[Op(c)][call[c].i]
At(c, steps) == call[c].st = "busy" /\ StepOf(c)[1] \in steps

(* To step i, or out; the references found are shown when the call ends.   *)
Move(c, x, i) ==
  /\ call' = [call EXCEPT ![c] = IF i = 0 THEN [x EXCEPT !.st = "done", !.i = 0, !.req = Idle.req, !.node = 0, !.since = 0,
                                                        !.tree = Idle.tree, !.new = {}, !.key = None, !.due = 0, !.box = <<>>]
                                 ELSE [x EXCEPT !.i = i, !.req = Here']]
  /\ lane' = IF i = 0 /\ lane = c THEN None ELSE lane
  /\ shown' = IF i = 0 THEN shown \cup x.new ELSE shown
Then(c, x) == Move(c, x, StepOf(c)[2])
Else(c, x) == Move(c, x, StepOf(c)[3])

(* Requests to the browser, or with the session id of a tab of one's own.  *)
Apart == {"tabs", "activate", "attach", "enable", "download", "own", "keep", "ownattach", "ownenable", "owngoto", "ownload",
          "owneval", "ownclose"}
Local == {"ref", "look", "console", "network"}
Dead(c) == ~open \/ call[c].req.gen # gen \/ (call[c].req.tab = None /\ StepOf(c)[1] \notin Apart)
(* A dialog stops the page.                                                *)
Frozen(c) == StepOf(c)[1] \notin Apart \cup {"dialog"} /\ call[c].req.tab # None /\ page[call[c].req.tab].dialog # 0
Answered(c, steps) == At(c, steps) /\ ~Dead(c) /\ ~Frozen(c)
There(c) == page[call[c].req.tab]

(* The console's messages are sent again to a session that enables it.     *)
Replay(t, sid) == [k \in 1..page[t].said |-> [kind |-> "say", tab |-> t, sid |-> sid, n |-> 0, state |-> ""]]
Attached(t, dirty) == IF sess[t].sid = 0 THEN Fresh(dirty) ELSE [sess[t] EXCEPT !.sid = ids.sid]
Reconnect ==
  /\ open' = TRUE /\ gen' = IF open THEN gen ELSE gen + 1
  /\ cur' = [tab |-> FirstTab, gen |-> gen']
  /\ sess' = [sess EXCEPT ![FirstTab] = Fresh(FALSE)] /\ ids' = [ids EXCEPT !.sid = @ + 1]
  /\ page' = [page EXCEPT ![FirstTab].sid = ids.sid] /\ events' = events \o Replay(FirstTab, ids.sid)
  /\ cache' = [t \in Tab |-> 0] /\ reader' = [reader EXCEPT ![FirstTab] = Reread(@)]

(* ensureAlive: a session id of an earlier socket is noticed by a probe,   *)
(* which is not made before every call.                                    *)
Begin(c) ==
  /\ call[c].st = "new"
  /\ \/ open /\ cur.tab # None /\ UNCHANGED <<open, gen, cur, sess, ids, page, events, cache, reader>>
     \/ ~Live /\ Reconnect
  /\ \E ref \in IF Op(c) \in ByRef THEN {s[1] : s \in shown} ELSE {0} :
     \E since \in IF Op(c) = "console" THEN {0, reader[cur'.tab].cursor} ELSE {0} :
       call' = [call EXCEPT ![c] = [@ EXCEPT !.ref = ref, !.since = since, !.key = IF Op(c) = "console" THEN cur'.tab ELSE None,
                  !.gen = gen', !.req = Here', !.i = 1, !.st = IF Op(c) \in Parallel THEN "busy" ELSE "lane"]]
  /\ UNCHANGED <<plan, lane, shown, mixed, informed, happened>>

Take(c) ==
  /\ call[c].st = "lane" /\ lane = None /\ lane' = c
  /\ call' = [call EXCEPT ![c].st = "busy", ![c].req = Here]
  /\ UNCHANGED <<plan, open, gen, cur, sess, page, events, cache, ids, shown, mixed, reader, informed, happened>>

(* An error or a timeout.                                                  *)
Fail(c) ==
  /\ call[c].st = "busy" /\ StepOf(c)[1] \notin Local \cup {"boxes", "enable"} /\ (Dead(c) \/ Frozen(c))
  /\ UNCHANGED <<plan, open, gen, cur, sess, page, events, cache, ids, mixed, reader, informed, happened>>
  /\ Else(c, [call[c] EXCEPT !.cut = TRUE])

-----------------------------------------------------------------------------
(* Elements and references.                                                *)
Outline(nodes) == {n \in nodes : Cardinality({m \in nodes : m < n}) < MaxNodes}
Session == IF cur.tab = None THEN NoSession ELSE sess[cur.tab]
HasSession == cur.tab # None /\ sess[cur.tab].sid # 0

AllocatedAnew(nodes, from) == {<<Cardinality({m \in nodes : m <= n}), n>> : n \in nodes}    \* mutant
Allocated(nodes, from) == {<<from + Cardinality({m \in nodes : m < n}), n>> : n \in nodes}

(* setRefMap: on whatever tab is current; without one nothing is kept.     *)
Publish(c, refs, tree) ==
  /\ sess' = IF HasSession THEN [sess EXCEPT ![cur.tab].refs = refs] ELSE sess
  /\ mixed' = IF tree.tab # cur.tab \/ tree.gen # cur.gen THEN mixed \cup {r[1] : r \in refs} ELSE mixed
Found(refs, tree) == {<<r[1], tree.tab, r[2], tree.renderer>> : r \in refs}
TreeOf(c) == [tab |-> call[c].req.tab, gen |-> call[c].req.gen, renderer |-> There(c).renderer, nodes |-> Outline(There(c).nodes)]

ReadTree(c) ==
  /\ Answered(c, {"tree"})
  /\ UNCHANGED <<plan, open, gen, cur, sess, page, events, cache, ids, mixed, reader, informed, happened>>
  /\ Then(c, [call[c] EXCEPT !.tree = TreeOf(c)])

(* The answers about boxes and values decorate the outline; after 1.5 s,   *)
(* or errors, the outline goes without.                                    *)
Boxes(c) ==
  /\ At(c, {"boxes"})
  /\ LET refs == Allocated(call[c].tree.nodes, ids.ref)
     IN  /\ Publish(c, refs, call[c].tree)
         /\ ids' = [ids EXCEPT !.ref = @ + Cardinality(refs)]
         /\ UNCHANGED <<plan, open, gen, cur, page, events, cache, reader, informed, happened>>
         /\ Then(c, [call[c] EXCEPT !.new = Found(refs, call[c].tree)])

(* interactiveDiff: an element keeps the reference it has.                 *)
Diff(c) ==
  /\ Answered(c, {"diff"})
  /\ LET tree == TreeOf(c)
         kept == {r \in Session.refs : r[2] \in tree.nodes}
         new == Allocated(tree.nodes \ {r[2] : r \in kept}, ids.ref)
     IN  /\ Publish(c, kept \cup new, tree)
         /\ ids' = [ids EXCEPT !.ref = @ + Cardinality(new)]
         /\ UNCHANGED <<plan, open, gen, cur, page, events, cache, reader, informed, happened>>
         /\ Then(c, [call[c] EXCEPT !.new = Found(kept \cup new, tree)])

ResolveRef(c) ==
  /\ At(c, {"ref"})
  /\ UNCHANGED <<plan, open, gen, cur, sess, page, events, cache, ids, mixed, reader, informed, happened>>
  /\ LET r == {x \in Session.refs : x[1] = call[c].ref}
     IN  IF r = {} THEN Else(c, call[c]) ELSE \E x \in r : Then(c, [call[c] EXCEPT !.node = x[2]])

(* resolveNode and getBoxModel: the element must be in the page; a box is  *)
(* good until the page changes.                                            *)
Element(c, n) == <<call[c].req.tab, n, There(c).renderer>>
Placed(c) == <<Element(c, call[c].node), There(c).made>>
Locate(c) ==
  /\ Answered(c, {"resolve", "box"})
  /\ UNCHANGED <<plan, open, gen, cur, sess, page, events, cache, ids, mixed, reader, informed, happened>>
  /\ IF call[c].node \in There(c).nodes
     THEN Then(c, IF At(c, {"box"}) THEN [call[c] EXCEPT !.box = Placed(c)]
                  ELSE [call[c] EXCEPT !.handle = [tab |-> call[c].req.tab, gen |-> call[c].req.gen, doc |-> There(c).doc]])
     ELSE Else(c, call[c])

(* The function runs on the element the handle is for, if its document is  *)
(* still there; setFileInputFiles names the element itself.  Both may      *)
(* refuse the element.                                                     *)
Valid(c) == call[c].handle = [tab |-> call[c].req.tab, gen |-> call[c].req.gen, doc |-> There(c).doc]
Reaches(c) == IF StepOf(c)[1] = "set" THEN call[c].node \in There(c).nodes ELSE Valid(c)
Hit(c) == [call[c] EXCEPT !.hit = Element(c, call[c].node)]
Act(c) ==
  /\ Answered(c, {"run", "set"})
  /\ UNCHANGED <<plan, open, gen, cur, sess, page, events, cache, ids, mixed, reader, informed, happened>>
  /\ \/ Reaches(c) /\ Then(c, Hit(c))
     \/ Else(c, call[c])
Free(c) ==
  /\ Answered(c, {"free"})
  /\ UNCHANGED <<plan, open, gen, cur, sess, page, events, cache, ids, mixed, reader, informed, happened>>
  /\ Then(c, [call[c] EXCEPT !.handle = Idle.handle])

(* The button goes down on what is at the place now: the element, if the   *)
(* page is as it was when the box was read, or else whatever came there.   *)
Slides(c) == call[c].box # <<>> /\ call[c].box # Placed(c)
Struck(c) == IF Slides(c) THEN There(c).nodes ELSE {call[c].node}
Press(c) ==
  /\ Answered(c, {"press", "down"})
  /\ page' = [page EXCEPT ![call[c].req.tab].down = TRUE]
  /\ UNCHANGED <<plan, open, gen, cur, sess, events, cache, ids, mixed, reader, informed, happened>>
  /\ IF call[c].box = <<>> THEN Then(c, call[c])
     ELSE \E n \in Struck(c) : Then(c, [call[c] EXCEPT !.hit = Element(c, n), !.slid = Slides(c)])
Lift(c) ==
  /\ Answered(c, {"lift", "up"})
  /\ page' = [page EXCEPT ![call[c].req.tab].down = FALSE]
  /\ UNCHANGED <<plan, open, gen, cur, sess, events, cache, ids, mixed, reader, informed, happened>>
  /\ Then(c, call[c])

(* Requests whose answers matter to the agent only, and those that may be  *)
(* answered no: no field has the focus, the element is not there, the page *)
(* has not loaded when the time is over.                                   *)
Plainly == {"shot", "move", "probe", "insert", "char", "document", "query", "setfile", "verify", "transfer", "download", "print",
            "drag", "drop", "front", "wheel", "resize", "headers", "poll", "tabs", "history", "bodies", "activate", "mark", "eval",
            "ownattach", "ownenable", "owngoto", "ownload", "owneval"}
Proceed(c) ==
  /\ Answered(c, Plainly)
  /\ UNCHANGED <<plan, open, gen, cur, sess, page, events, cache, ids, mixed, reader, informed, happened>>
  /\ Then(c, call[c])
Refused(c) ==
  /\ Answered(c, {"probe", "query", "verify", "ownload", "ownattach", "poll"})
  /\ UNCHANGED <<plan, open, gen, cur, sess, page, events, cache, ids, mixed, reader, informed, happened>>
  /\ IF StepOf(c)[1] \in {"probe", "poll"} THEN Move(c, call[c], 0) ELSE Else(c, call[c])

-----------------------------------------------------------------------------
(* Page information, dialogs and navigation.                               *)
(* What an answer from the cache must have seen: a navigation whose note   *)
(* is there, or one that a read which has ended well was to see.  The note *)
(* goes with the first read, which may fail or still be under way.         *)
Expected(t) == IF sess[t].dirty THEN sess[t].known ELSE informed[t]
(* pageInfo: a dialog is taken; else what was read within the second is    *)
(* good unless the page was navigated since.                               *)
CachedAlways(t) == cache[t] # 0                                                          \* mutant
Cached(t) == cache[t] # 0 /\ ~sess[t].dirty
Look(c) ==
  /\ At(c, {"look"})
  /\ UNCHANGED <<plan, open, gen, cur, page, events, cache, ids, mixed, reader, informed, happened>>
  /\ \/ HasSession /\ Session.dialog # 0 /\ sess' = [sess EXCEPT ![cur.tab].dialog = 0] /\ Else(c, call[c])
     \/ /\ ~(HasSession /\ Session.dialog # 0)
        /\ sess' = IF HasSession THEN [sess EXCEPT ![cur.tab].dirty = FALSE] ELSE sess
        /\ \/ /\ cur.tab # None /\ Cached(cur.tab)
              /\ Move(c, [call[c] EXCEPT !.stale = @ \/ cache[cur.tab] < Expected(cur.tab)], Script[Op(c)][StepOf(c)[2]][2])
           \/ Then(c, [call[c] EXCEPT !.key = cur.tab, !.due = Session.known])
Info(c) ==
  /\ Answered(c, {"info"})
  /\ cache' = IF call[c].key = None THEN cache ELSE [cache EXCEPT ![call[c].key] = There(c).doc]
  /\ informed' = IF call[c].key = None \/ call[c].due <= informed[call[c].key] THEN informed
                 ELSE [informed EXCEPT ![call[c].key] = call[c].due]
  /\ UNCHANGED <<plan, open, gen, cur, sess, page, events, ids, mixed, reader, happened>>
  /\ Then(c, [call[c] EXCEPT !.due = 0, !.key = None])

Emit(t, kind, n, state) ==
  events' = IF page[t].sid = 0 THEN events ELSE Append(events, [kind |-> kind, tab |-> t, sid |-> page[t].sid, n |-> n, state |-> state])
(* The new page has elements of its own, which the same renderer numbers   *)
(* on, and another one anew.                                               *)
Navigated(t) ==
  \E same \in BOOLEAN : LET n == IF same THEN page[t].made + 1 ELSE 1 IN
    page' = [page EXCEPT ![t].doc = @ + 1, ![t].renderer = IF same THEN @ ELSE @ + 1,
                         ![t].nodes = {n}, ![t].made = n, ![t].dialog = 0]
Goto(c) ==
  /\ Answered(c, {"goto"})
  /\ Navigated(call[c].req.tab) /\ Emit(call[c].req.tab, "nav", There(c).doc + 1, "")
  /\ UNCHANGED <<plan, open, gen, cur, sess, cache, ids, mixed, reader, informed, happened>>
  /\ Then(c, call[c])
CloseDialog(c) ==
  /\ Answered(c, {"dialog"})
  /\ page' = [page EXCEPT ![call[c].req.tab].dialog = 0]
  /\ UNCHANGED <<plan, open, gen, cur, sess, events, cache, ids, mixed, reader, informed, happened>>
  /\ IF There(c).dialog # 0 THEN Then(c, call[c]) ELSE Else(c, call[c])

-----------------------------------------------------------------------------
(* switchTo: the tab's session gets a new session id at once, or is made;  *)
(* then the domains are enabled, whatever the answers, and it is current.  *)
Other(c) == CHOOSE t \in Tab : t # FirstTab
AttachTab(c) ==
  /\ Answered(c, {"attach"})
  /\ LET t == Other(c)
     IN  /\ sess' = [sess EXCEPT ![t] = Attached(t, TRUE)] /\ ids' = [ids EXCEPT !.sid = @ + 1]
         /\ reader' = IF sess[t].sid = 0 THEN [reader EXCEPT ![t] = Reread(@)] ELSE reader
         /\ UNCHANGED <<plan, open, gen, cur, page, events, cache, mixed, informed, happened>>
         /\ Then(c, [call[c] EXCEPT !.handle = [tab |-> t, gen |-> gen, doc |-> ids.sid]])
Enable(c) ==
  /\ At(c, {"enable"})
  /\ LET h == call[c].handle
     IN  /\ cur' = [tab |-> h.tab, gen |-> h.gen]
         /\ IF Dead(c) THEN UNCHANGED <<page, events>>
            ELSE page' = [page EXCEPT ![h.tab].sid = h.doc] /\ events' = events \o Replay(h.tab, h.doc)
  /\ UNCHANGED <<plan, open, gen, sess, cache, ids, mixed, reader, informed, happened>>
  /\ Then(c, [call[c] EXCEPT !.handle = Idle.handle])

(* A tab of the call's own: found or made, and closed if it is isolated.   *)
Own(c) ==
  /\ Answered(c, {"own", "keep", "ownclose"})
  /\ UNCHANGED <<plan, open, gen, cur, sess, page, events, cache, ids, mixed, reader, informed, happened>>
  /\ Then(c, [call[c] EXCEPT !.own = CASE At(c, {"own"}) -> "open" [] At(c, {"ownclose"}) -> "closed" [] OTHER -> @])

-----------------------------------------------------------------------------
(* The records.                                                            *)
Newer(seq, since) == seq > since
(* The overflow is told once; what an answer leaves out shows in its total. *)
ReadConsole(c) ==
  /\ At(c, {"console"})
  /\ LET t == cur.tab
         matched == Kept(Session.log, {seq \in Elements(Session.log) : Newer(seq, call[c].since)})
         records == LastOf(matched)
         gone == IF Session.over THEN (1..(Session.next - 1)) \ Elements(Session.log) ELSE {}
         left == Elements(matched) \ Elements(records)
     IN  IF ~HasSession THEN UNCHANGED <<sess, reader>>
         ELSE /\ sess' = [sess EXCEPT ![t].over = FALSE]
              /\ reader' = [reader EXCEPT ![t] = [cursor |-> IF records = <<>> THEN @.cursor ELSE records[Len(records)],
                                                  seen |-> @.seen \cup Elements(records), told |-> @.told \cup gone \cup left,
                                                  stale |-> @.stale \/ t # call[c].key]]
  /\ UNCHANGED <<plan, open, gen, cur, page, events, cache, ids, mixed, informed, happened>>
  /\ Then(c, [call[c] EXCEPT !.key = None])
ReadNetwork(c) ==
  /\ At(c, {"network"})
  /\ sess' = IF HasSession THEN [sess EXCEPT ![cur.tab].netover = FALSE] ELSE sess
  /\ UNCHANGED <<plan, open, gen, cur, page, events, cache, ids, mixed, reader, informed, happened>>
  /\ Then(c, call[c])

(* consumeEvents: what comes for a session id the session does not know is *)
(* left; a dialog stays until it is taken, even when the page has closed it. *)
Consume ==
  /\ events # <<>> /\ events' = Tail(events)
  /\ LET e == Head(events)
         s == sess[e.tab]
     IN  sess' = IF e.sid # s.sid \/ s.sid = 0 THEN sess ELSE
                 [sess EXCEPT ![e.tab] =
                    CASE e.kind = "nav" -> [s EXCEPT !.dirty = TRUE, !.known = e.n]
                      [] e.kind = "say" -> Logged(s)
                      [] e.kind = "alert" -> [s EXCEPT !.dialog = e.n]
                      [] e.kind = "net" -> IF e.state = "sent" THEN Requested(s, e.n) ELSE Updated(s, e.n, e.state)]
  /\ UNCHANGED <<plan, call, lane, open, gen, cur, page, cache, ids, shown, mixed, reader, informed, happened>>

-----------------------------------------------------------------------------
(* The pages, their users and the socket.                                  *)
Happens(kind) == kind \in plan.may /\ happened < plan.most /\ happened' = happened + 1
Render(t) ==
  /\ Happens("render") /\ page[t].dialog = 0
  /\ \E kept \in SUBSET page[t].nodes : page' = [page EXCEPT ![t].nodes = kept \cup {page[t].made + 1}, ![t].made = @ + 1]
  /\ UNCHANGED events
Leave(t) == Happens("nav") /\ Navigated(t) /\ Emit(t, "nav", page[t].doc + 1, "")
Say(t) == Happens("say") /\ page' = [page EXCEPT ![t].said = @ + 1] /\ Emit(t, "say", 0, "")
Alert(t) == Happens("alert") /\ page[t].dialog = 0 /\ page' = [page EXCEPT ![t].dialog = 1] /\ Emit(t, "alert", 1, "")
Dismiss(t) == Happens("alert") /\ page[t].dialog # 0 /\ page' = [page EXCEPT ![t].dialog = 0] /\ UNCHANGED events
Traffic(t) == /\ Happens("net") /\ UNCHANGED page
              /\ \E id \in 1..(Capacity + 1), state \in {"sent", "answered", "failed"} : Emit(t, "net", id, state)
Drop ==
  /\ Happens("drop") /\ open /\ open' = FALSE /\ cur' = [tab |-> None, gen |-> gen] /\ events' = <<>>
  /\ sess' = [t \in Tab |-> NoSession] /\ page' = [t \in Tab |-> [page[t] EXCEPT !.sid = 0]]
  /\ UNCHANGED <<plan, call, lane, gen, cache, ids, shown, mixed, reader, informed>>
Outside ==
  \/ /\ \E t \in Tab : Render(t) \/ Leave(t) \/ Say(t) \/ Alert(t) \/ Dismiss(t) \/ Traffic(t)
     /\ UNCHANGED <<plan, call, lane, open, gen, cur, sess, cache, ids, shown, mixed, reader, informed>>
  \/ Drop

PagesStep ==
  \/ \E c \in Call :
       \/ Begin(c) \/ Take(c) \/ Fail(c) \/ ReadTree(c) \/ Boxes(c) \/ Diff(c) \/ ResolveRef(c) \/ Locate(c) \/ Act(c) \/ Free(c)
       \/ Press(c) \/ Lift(c) \/ Proceed(c) \/ Refused(c) \/ Look(c) \/ Info(c) \/ Goto(c) \/ CloseDialog(c) \/ AttachTab(c)
       \/ Enable(c) \/ Own(c) \/ ReadConsole(c) \/ ReadNetwork(c)
  \/ Consume \/ Outside
=============================================================================
