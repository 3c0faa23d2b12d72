---------------------------- MODULE BrowserDaemon ----------------------------
(***************************************************************************)
(* The browser daemon (extensions/browser-harness/daemon): client          *)
(* transports that share one Chrome connection through a local socket.     *)
(* conn[k] is a socket connection with its two ends; lines travel in up    *)
(* (to the daemon) and down (to the client) in order, and may be lost when *)
(* an end is destroyed.  Every callback of an event loop is one action.    *)
(* Chrome answers in any order, closes sessions and drops its socket at    *)
(* any moment.  Timers may fire whenever they are armed.  A definition     *)
(* commented "mutant" is the faulty form of the next one.                  *)
(***************************************************************************)
EXTENDS Naturals, Sequences, FiniteSets

CONSTANTS
  Client,       \* client ids given to createDaemonTransport
  NoClient,
  Conn,         \* socket connections, each used once
  NoConn,
  Session,      \* CDP session ids, each given out once
  NoSession,
  MaxClients,   \* DAEMON_MAX_CLIENTS
  MaxRequests,  \* bound on the requests of a client
  MaxAttempts,  \* bound on the attempts to connect to Chrome
  MaxEvents     \* bound on the lines waiting for a client while Chrome sends events

ASSUME DaemonAssumption ==
  /\ NoClient \notin Client /\ NoConn \notin Conn /\ NoSession \notin Session
  /\ {MaxClients, MaxRequests, MaxAttempts, MaxEvents} \subseteq Nat \ {0}

VARIABLES
  conn,      \* socket connections
  tr,        \* the client transports
  mux,       \* createIdMultiplexer, with the generation of each entry
  router,    \* createEventRouter: owner of each session, clients that recorded one
  bridge,    \* the connection state of createCdpBridge
  attempt,   \* tryConnect's attempts, by generation
  waiting,   \* requests in waitForConnection
  chrome,    \* commands Chrome has not answered, and the sessions it gave out
  idle       \* the idle timer is armed

vars == <<conn, tr, mux, router, bridge, attempt, waiting, chrome, idle>>
daemonVars == <<mux, router, bridge, attempt, waiting, chrome, idle>>

Attempt == 1..MaxAttempts
Request == [id : 1..MaxRequests, does : {"attach", "call", "detach"}, session : Session \cup {NoSession}]
Entry == [daemonId : Nat, client : Client, conn : Conn, req : Request, gen : Attempt]
Near == {"unused", "connecting", "open", "aborted", "closing", "closed"}
Far == {"unused", "anon", "registered", "closed"}

TypeOK ==
  /\ conn \in [Conn -> [client : Client \cup {NoClient}, near : Near, far : Far,
                        up : Seq([type : {"register", "deregister"}] \cup [type : {"request"}, req : Request]),
                        down : Seq([type : {"registered", "shutdown"}]
                                   \cup [type : {"response"}, id : 1..MaxRequests, session : Session \cup {NoSession},
                                         of : Entry \cup {NoConn}]
                                   \cup [type : {"event"}, session : Session \cup {NoSession}])]]
  /\ tr \in [Client -> [socket : Conn \cup {NoConn}, registered : BOOLEAN, dialing : Conn \cup {NoConn},
                        pending : SUBSET (1..MaxRequests), next : 1..MaxRequests + 1, held : SUBSET Session]]
  /\ mux \in [next : Nat \ {0}, inFlight : SUBSET Entry]
  /\ router \in [owner : [Session -> Client \cup {NoClient}], listed : SUBSET Client]
  /\ bridge \in [up : BOOLEAN, stopped : BOOLEAN, connecting : BOOLEAN, generation : 0..MaxAttempts,
                 active : 0..MaxAttempts, socket : 0..MaxAttempts, ws : 0..MaxAttempts]
  /\ attempt \in [Attempt -> [at : {"unused", "discover", "socket", "over"}, timer : BOOLEAN,
                              sock : {"none", "opening", "open", "closing", "closed"}]]
  /\ waiting \in SUBSET [client : Client, conn : Conn, req : Request]
  /\ chrome \in [asked : SUBSET Entry, given : SUBSET Session, live : SUBSET Session]
  /\ idle \in BOOLEAN

Init ==
  /\ conn = [k \in Conn |-> [client |-> NoClient, near |-> "unused", far |-> "unused", up |-> <<>>, down |-> <<>>]]
  /\ tr = [c \in Client |-> [socket |-> NoConn, registered |-> FALSE, dialing |-> NoConn,
                             pending |-> {}, next |-> 1, held |-> {}]]
  /\ mux = [next |-> 1, inFlight |-> {}]
  /\ router = [owner |-> [s \in Session |-> NoClient], listed |-> {}]
  /\ bridge = [up |-> TRUE, stopped |-> FALSE, connecting |-> TRUE, generation |-> 1,
               active |-> 1, socket |-> 0, ws |-> 0]
  /\ attempt = [g \in Attempt |-> IF g = 1 THEN [at |-> "discover", timer |-> TRUE, sock |-> "none"]
                                  ELSE [at |-> "unused", timer |-> FALSE, sock |-> "none"]]
  /\ waiting = {} /\ chrome = [asked |-> {}, given |-> {}, live |-> {}]
  /\ idle = TRUE

-----------------------------------------------------------------------------
(* The server's tables and its send(): a line to a client that is not      *)
(* registered is dropped, and one to a destroyed socket is lost.           *)
Registered == {k \in Conn : conn[k].far = "registered"}
ConnsOf(c) == {k \in Registered : conn[k].client = c}
Sent(lines) ==
  [k \in Conn |-> IF k \in Registered /\ conn[k].client \in DOMAIN lines /\ conn[k].near = "open"
                  THEN [conn[k] EXCEPT !.down = @ \o lines[conn[k].client]] ELSE conn[k]]

Failure(id) == [type |-> "response", id |-> id, session |-> NoSession, of |-> NoConn]

(* The error responses to the entries E, in the order of their ids.        *)
Rejections(E, c) ==
  LET mine == {e \in E : e.client = c}
      nth(i) == CHOOSE e \in mine : Cardinality({d \in mine : d.daemonId <= e.daemonId}) = i
  IN  [i \in 1..Cardinality(mine) |-> Failure(nth(i).req.id)]

Forget(E) == mux' = [mux EXCEPT !.inFlight = @ \ E]

(* Sent when the bridge's connection is lost: errors for its requests, and *)
(* when the loss was that of the current socket the order to shut down.    *)
Reject(E, close) ==
  /\ Forget(E)
  /\ conn' = Sent([c \in Client |-> Rejections(E, c) \o (IF close THEN <<[type |-> "shutdown"]>> ELSE <<>>)])

-----------------------------------------------------------------------------
(* The client transport.                                                   *)

Cleaned(c) == [tr[c] EXCEPT !.socket = NoConn, !.registered = FALSE, !.pending = {}, !.held = {}]
DestroyedQuietly(k) ==                                                                   \* mutant
  IF k = NoConn THEN conn
  ELSE [conn EXCEPT ![k].near = CASE @ \in {"connecting", "open"} -> "closed" [] OTHER -> @, ![k].down = <<>>]
Destroyed(k) ==
  IF k = NoConn THEN conn
  ELSE [conn EXCEPT ![k].near = CASE @ = "connecting" -> "aborted" [] @ = "open" -> "closing" [] OTHER -> @,
                         ![k].down = <<>>]

(* client.ts starts one connection at a time; a refused connection leaves  *)
(* nothing behind and is not modelled.                                     *)
Connect(c, k) ==
  /\ bridge.up /\ tr[c].dialing = NoConn /\ ~tr[c].registered /\ conn[k].near = "unused"
  /\ conn' = [conn EXCEPT ![k].client = c, ![k].near = "connecting"]
  /\ tr' = [tr EXCEPT ![c].socket = k, ![c].dialing = k]
  /\ UNCHANGED daemonVars

(* The daemon accepts, unless it serves MaxClients, and the client writes  *)
(* its registration; that clears its connect timer.                        *)
Connected(k) ==
  /\ conn[k].near = "connecting" /\ bridge.up
  /\ conn' = [conn EXCEPT ![k].near = "open", ![k].up = <<[type |-> "register"]>>,
                          ![k].far = IF Cardinality(Registered) >= MaxClients THEN "closed" ELSE "anon"]
  /\ UNCHANGED <<tr, daemonVars>>

(* The daemon is gone before the connection is made: connect() fails and  *)
(* leaves the dead socket in place.                                        *)
Refused(k) ==
  /\ conn[k].near = "connecting" /\ ~bridge.up
  /\ conn' = [conn EXCEPT ![k].near = "closed"]
  /\ tr' = [tr EXCEPT ![conn[k].client].dialing = NoConn]
  /\ UNCHANGED daemonVars

ConnectTimeout(k) ==
  LET c == conn[k].client
  IN /\ conn[k].near \in {"connecting", "aborted"} /\ tr[c].dialing = k
     /\ tr' = [tr EXCEPT ![c] = [Cleaned(c) EXCEPT !.dialing = NoConn]]
     /\ conn' = [Destroyed(tr[c].socket) EXCEPT ![k].near = "closed"]
     /\ UNCHANGED daemonVars

(* A line arrives.  A registration settles connect(); an order to shut     *)
(* down cleans up; a response settles its request.                         *)
Receive(k) ==
  LET c == conn[k].client
      line == Head(conn[k].down)
      read == [conn EXCEPT ![k].down = Tail(@)]
  IN /\ conn[k].near = "open" /\ conn[k].down # <<>>
     /\ CASE line.type = "registered" ->
               /\ tr' = [tr EXCEPT ![c].registered = TRUE, ![c].dialing = NoConn]
               /\ conn' = read
          [] line.type = "shutdown" ->
               /\ tr' = [tr EXCEPT ![c] = Cleaned(c)]
               /\ conn' = Destroyed(tr[c].socket)
          [] line.type = "response" ->
               /\ tr' = [tr EXCEPT ![c].pending = @ \ {line.id}, ![c].held = @ \cup ({line.session} \ {NoSession})]
               /\ conn' = read
          [] line.type = "event" -> conn' = read /\ tr' = tr
     /\ UNCHANGED daemonVars

(* The close event of a client's socket.  It cleans up whatever socket the *)
(* transport holds then, its successor included.                           *)
SocketClosed(k) ==
  LET c == conn[k].client
  IN /\ conn[k].near = "closing" \/ (conn[k].near = "open" /\ conn[k].far = "closed")
     /\ tr' = [tr EXCEPT ![c] = [Cleaned(c) EXCEPT !.dialing = IF @ = k THEN NoConn ELSE @]]
     /\ conn' = [Destroyed(tr[c].socket) EXCEPT ![k].near = "closed", ![k].down = <<>>]
     /\ UNCHANGED daemonVars

Close(c) ==
  LET k == tr[c].socket
  IN /\ k # NoConn
     /\ \E told \in {tr[c].registered} :
          conn' = [Destroyed(k) EXCEPT ![k].up = IF told THEN Append(@, [type |-> "deregister"]) ELSE @]
     /\ tr' = [tr EXCEPT ![c] = Cleaned(c)]
     /\ UNCHANGED daemonVars

Ask(c, does, s) ==
  LET req == [id |-> tr[c].next, does |-> does, session |-> s]
  IN /\ tr[c].registered /\ conn[tr[c].socket].near = "open" /\ tr[c].next <= MaxRequests
     /\ (does = "detach") = (s # NoSession) /\ s \in tr[c].held \cup {NoSession}
     /\ tr' = [tr EXCEPT ![c].pending = @ \cup {req.id}, ![c].next = @ + 1]
     /\ conn' = [conn EXCEPT ![tr[c].socket].up = Append(@, [type |-> "request", req |-> req])]
     /\ UNCHANGED daemonVars

AskTimeout(c, id) ==
  /\ id \in tr[c].pending
  /\ tr' = [tr EXCEPT ![c].pending = @ \ {id}]
  /\ UNCHANGED <<conn, daemonVars>>

-----------------------------------------------------------------------------
(* The daemon's bridge to Chrome.                                          *)

WsOpen == bridge.ws # 0 /\ attempt[bridge.ws].sock = "open"
Current(g) == g = bridge.active /\ ~bridge.stopped
EntriesOf(g) == {e \in mux.inFlight : e.gen = g}

TryConnect ==
  IF bridge.stopped \/ bridge.connecting \/ WsOpen
  THEN UNCHANGED <<bridge, attempt>>
  ELSE LET g == bridge.generation + 1
       IN /\ g \in Attempt
          /\ bridge' = [bridge EXCEPT !.generation = g, !.active = g, !.connecting = TRUE]
          /\ attempt' = [attempt EXCEPT ![g] = [at |-> "discover", timer |-> TRUE, sock |-> "none"]]

(* failCurrentAttempt: an attempt that was replaced only rejects what was  *)
(* sent on its socket.                                                     *)
Failed(g) ==
  [bridge EXCEPT !.active = 0, !.socket = 0, !.ws = IF @ = g THEN 0 ELSE @, !.connecting = FALSE]
FailRejectsNone(g, close) ==                                                             \* mutant
  /\ bridge' = IF Current(g) THEN Failed(g) ELSE bridge
  /\ Reject({}, close /\ Current(g))
Fail(g, close) ==
  /\ bridge' = IF Current(g) THEN Failed(g) ELSE bridge
  /\ Reject(EntriesOf(g), close /\ Current(g))

Ended(g, sock) == attempt' = [attempt EXCEPT ![g] = [at |-> "over", timer |-> FALSE, sock |-> sock]]
Closing(sock) == CASE sock \in {"opening", "open"} -> "closing" [] OTHER -> sock

(* discoverWsUrl returns.                                                  *)
Discovered(g, found) ==
  /\ bridge.up /\ attempt[g].at = "discover"
  /\ IF Current(g) /\ found
     THEN /\ attempt' = [attempt EXCEPT ![g].at = "socket", ![g].sock = "opening"]
          /\ bridge' = [bridge EXCEPT !.socket = g]
          /\ UNCHANGED <<conn, mux>>
     ELSE Ended(g, "none") /\ Fail(g, FALSE)
  /\ UNCHANGED <<tr, router, waiting, chrome, idle>>

(* A socket that is no longer wanted is closed as soon as it opens.        *)
SocketOpens(g) ==
  /\ bridge.up /\ attempt[g].sock = "opening"
  /\ IF Current(g) /\ bridge.socket = g
     THEN /\ Ended(g, "open")
          /\ bridge' = [bridge EXCEPT !.ws = g, !.connecting = FALSE]
          /\ Reject(EntriesOf(g), FALSE)
     ELSE Ended(g, "closing") /\ Fail(g, FALSE)
  /\ UNCHANGED <<tr, router, waiting, chrome, idle>>

AttemptTimeout(g) ==
  /\ bridge.up /\ attempt[g].timer
  /\ Ended(g, IF Current(g) THEN Closing(attempt[g].sock) ELSE attempt[g].sock)
  /\ Fail(g, TRUE)
  /\ UNCHANGED <<tr, router, waiting, chrome, idle>>

(* Chrome's end goes away: the socket is no longer open before its close   *)
(* event is handled.                                                       *)
SocketDrops(g) ==
  /\ attempt[g].sock = "open"
  /\ attempt' = [attempt EXCEPT ![g].sock = "closing"]
  /\ chrome' = [chrome EXCEPT !.asked = {e \in @ : e.gen # g}, !.live = {}]
  /\ UNCHANGED <<conn, tr, mux, router, bridge, waiting, idle>>

SocketGone(g) ==
  /\ bridge.up /\ attempt[g].sock \in {"opening", "closing"}
  /\ Ended(g, "closed") /\ Fail(g, bridge.socket = g)
  /\ UNCHANGED <<tr, router, waiting, chrome, idle>>

-----------------------------------------------------------------------------
(* Requests.                                                               *)

Owns(s, c) == [router EXCEPT !.owner[s] = c, !.listed = IF c = NoClient THEN @ ELSE @ \cup {c}]

(* The end of handleRequest: a detached session is released, the request   *)
(* gets an id of the daemon's and goes to Chrome.                          *)
Dispatch(c, k, req) ==
  LET e == [daemonId |-> mux.next, client |-> c, conn |-> k, req |-> req, gen |-> bridge.generation]
  IN /\ router' = IF req.does = "detach" THEN Owns(req.session, NoClient) ELSE router
     /\ mux' = [next |-> mux.next + 1, inFlight |-> mux.inFlight \cup {e}]
     /\ chrome' = [chrome EXCEPT !.asked = @ \cup {e}]

DaemonReads(k) ==
  LET c == conn[k].client
      line == Head(conn[k].up)
      read == [conn EXCEPT ![k].up = Tail(@)]
  IN /\ bridge.up /\ conn[k].far \in {"anon", "registered"} /\ conn[k].up # <<>>
     /\ CASE line.type = "register" /\ conn[k].far = "anon" ->
               /\ IF ConnsOf(c) # {}
                  THEN /\ conn' = [read EXCEPT ![k].down = <<[type |-> "shutdown"]>>, ![k].far = "closed"]
                       /\ idle' = idle
                  ELSE /\ conn' = [read EXCEPT ![k].down = <<[type |-> "registered"]>>, ![k].far = "registered"]
                       /\ idle' = FALSE
               /\ UNCHANGED <<mux, router, bridge, attempt, waiting, chrome>>
          [] line.type = "request" /\ conn[k].far = "registered" ->
               /\ conn' = read /\ idle' = idle
               /\ IF WsOpen
                  THEN Dispatch(c, k, line.req) /\ UNCHANGED <<bridge, attempt, waiting>>
                  ELSE /\ TryConnect
                       /\ waiting' = waiting \cup {[client |-> c, conn |-> k, req |-> line.req]}
                       /\ UNCHANGED <<mux, router, chrome>>
          [] OTHER ->
               conn' = read /\ UNCHANGED daemonVars
     /\ tr' = tr

(* waitForConnection returns: connected, failed, or (at any moment) late.  *)
WaitEnds(w) ==
  /\ bridge.up
  /\ waiting' = waiting \ {w}
  /\ IF WsOpen
     THEN Dispatch(w.client, w.conn, w.req) /\ conn' = conn
     ELSE /\ conn' = Sent([c \in {w.client} |-> <<Failure(w.req.id)>>])
          /\ UNCHANGED <<mux, router, chrome>>
  /\ UNCHANGED <<tr, bridge, attempt, idle>>

RequestTimeout(e) ==
  /\ bridge.up /\ Forget({e})
  /\ conn' = Sent([c \in {e.client} |-> <<Failure(e.req.id)>>])
  /\ UNCHANGED <<tr, router, bridge, attempt, waiting, chrome, idle>>

(* mux.take: the entry of an id, if it is still there.                     *)
TakeFirst(id) == IF mux.inFlight = {} THEN {} ELSE {CHOOSE e \in mux.inFlight : TRUE}    \* mutant
Take(id) == {e \in mux.inFlight : e.daemonId = id}

(* Chrome answers command a, an attachment with a session of its own.      *)
(* Messages of a socket that is not the active one are dropped.            *)
Answer(a, s) ==
  LET taken == Take(a.daemonId)
      records == {e \in taken : e.req.does = "attach" /\ s # NoSession}
  IN /\ bridge.up /\ attempt[a.gen].sock = "open"
     /\ IF a.req.does = "attach" THEN s \in (Session \ chrome.given) \cup {NoSession} ELSE s = NoSession
     /\ chrome' = [asked |-> chrome.asked \ {a},
                   given |-> chrome.given \cup ({s} \ {NoSession}),
                   live |-> (chrome.live \cup ({s} \ {NoSession}))
                             \ (IF a.req.does = "detach" THEN {a.req.session} ELSE {})]
     /\ IF Current(a.gen) /\ bridge.socket = a.gen
        THEN /\ Forget(taken)
             /\ router' = IF records = {} THEN router ELSE Owns(s, (CHOOSE e \in records : TRUE).client)
             /\ conn' = Sent([c \in {e.client : e \in taken} |->
                               <<[type |-> "response", session |-> s, of |-> a, id |-> (CHOOSE e \in taken : TRUE).req.id]>>])
        ELSE UNCHANGED <<mux, router, conn>>
     /\ UNCHANGED <<tr, bridge, attempt, waiting, idle>>

(* An event of a session goes to its owner, one of the browser to every    *)
(* client that ever attached; a session that ends is released first.       *)
Route(s) ==
  IF s = NoSession THEN router.listed ELSE {router.owner[s]} \ {NoClient}
ChromeEvent(s, ends) ==
  /\ bridge.up /\ WsOpen /\ Current(bridge.ws) /\ bridge.socket = bridge.ws
  /\ s \in chrome.live \cup {NoSession} /\ (ends => s # NoSession)
  /\ \A k \in Conn : Len(conn[k].down) < MaxEvents
  /\ chrome' = [chrome EXCEPT !.live = IF ends THEN @ \ {s} ELSE @]
  /\ router' = IF ends THEN Owns(s, NoClient) ELSE router
  /\ conn' = IF ends THEN conn ELSE Sent([c \in Route(s) |-> <<[type |-> "event", session |-> s]>>])
  /\ UNCHANGED <<tr, mux, bridge, attempt, waiting, idle>>

-----------------------------------------------------------------------------
(* The daemon notices that a client is gone.  The handler registered last  *)
(* (index.ts:58) only restarts the idle timer; the one that told the       *)
(* bridge to forget the client (index.ts:27) was replaced by it.           *)
RearmedAtOne(k) == Cardinality(Registered) <= 2                                          \* mutant
Rearmed(k) == Registered = {k}
ClientGone(k) ==
  /\ bridge.up /\ conn[k].far \in {"anon", "registered"} /\ conn[k].near \in {"aborted", "closing", "closed"}
  /\ conn' = [conn EXCEPT ![k].far = "closed", ![k].up = <<>>]
  /\ idle' = IF conn[k].far = "registered" THEN Rearmed(k) ELSE idle
  /\ UNCHANGED <<tr, mux, router, bridge, attempt, waiting, chrome>>

(* The idle timer, or a signal: the bridge stops, then the server; the     *)
(* process exits.                                                          *)
Shutdown(fired) ==
  /\ bridge.up /\ (fired => idle)
  /\ bridge' = [bridge EXCEPT !.up = FALSE, !.stopped = TRUE, !.active = 0, !.socket = 0, !.ws = 0,
                              !.connecting = FALSE]
  /\ Forget(mux.inFlight)
  /\ conn' = [k \in Conn |->
                LET rejected == Sent([c \in Client |-> Rejections(mux.inFlight, c)])[k]
                IN  IF conn[k].far \in {"anon", "registered"} THEN [rejected EXCEPT !.far = "closed", !.up = <<>>]
                    ELSE rejected]
  /\ attempt' = [g \in Attempt |-> [attempt[g] EXCEPT !.at = IF @ = "unused" THEN @ ELSE "over", !.timer = FALSE,
                                                     !.sock = IF @ = "none" THEN @ ELSE "closed"]]
  /\ waiting' = {} /\ idle' = FALSE
  /\ chrome' = [chrome EXCEPT !.asked = {}, !.live = {}]
  /\ UNCHANGED <<tr, router>>

-----------------------------------------------------------------------------
ClientStep ==
  \/ \E c \in Client, k \in Conn : Connect(c, k)
  \/ \E k \in Conn : Connected(k) \/ Refused(k) \/ ConnectTimeout(k) \/ Receive(k) \/ SocketClosed(k)
  \/ \E c \in Client : Close(c)
  \/ \E c \in Client, r \in {"attach", "call", "detach"}, s \in Session \cup {NoSession} : Ask(c, r, s)
  \/ \E c \in Client, id \in 1..MaxRequests : AskTimeout(c, id)
BridgeStep ==
  \/ \E g \in Attempt, found \in BOOLEAN : Discovered(g, found)
  \/ \E g \in Attempt : SocketOpens(g) \/ AttemptTimeout(g) \/ SocketGone(g)
  \/ \E w \in waiting : WaitEnds(w)
  \/ \E e \in mux.inFlight : RequestTimeout(e)
ChromeStep ==
  \/ \E g \in Attempt : SocketDrops(g)
  \/ \E a \in chrome.asked, s \in Session \cup {NoSession} : Answer(a, s)
  \/ \E s \in Session \cup {NoSession}, ends \in BOOLEAN : ChromeEvent(s, ends)
ServerStep ==
  \/ \E k \in Conn : DaemonReads(k) \/ ClientGone(k)
  \/ \E fired \in BOOLEAN : Shutdown(fired)

Next == ClientStep \/ BridgeStep \/ ChromeStep \/ ServerStep
Spec == Init /\ [][Next]_vars

-----------------------------------------------------------------------------
(* Chrome's answer reaches the client that asked, under the id it used:    *)
(* entries that time out, are rejected or taken twice never shift the      *)
(* answers of others (bridge.ts:36).                                       *)
AnswersMatch ==
  \A k \in Conn : \A i \in DOMAIN conn[k].down :
    LET line == conn[k].down[i] IN
    (line.type = "response" /\ line.of # NoConn)
       => line.of.client = conn[k].client /\ line.of.req.id = line.id

(* No request outlives the Chrome socket it was sent on: it would hang to  *)
(* its command timeout "instead of failing now" (bridge.ts:303).           *)
RequestsFailWithSocket ==
  \A e \in mux.inFlight : attempt[e.gen].sock \in {"open", "closing"}

(* The daemon counts down to its exit exactly while no client is           *)
(* registered, through duplicates, refusals and lost clients.              *)
IdleMeansNoClients == bridge.up => (idle <=> Registered = {})

(* A client hears of a session only after the answer that gave it to that  *)
(* client (unless the client connected again meanwhile).                   *)
EventsFollowAttach ==
  \A k \in Conn : \A i \in DOMAIN conn[k].down :
    LET line == conn[k].down[i]
        c == conn[k].client
    IN (line.type = "event" /\ line.session # NoSession /\ tr[c].socket = k)
       => \/ line.session \in tr[c].held
          \/ \E j \in 1..i - 1 : conn[k].down[j].type = "response" /\ conn[k].down[j].session = line.session
          \/ \E other \in Conn \ {k} : conn[other].client = c

(* A connect() that is awaited is never forgotten: a timer, a line under   *)
(* way or a close event still to come settles it, whatever killed its      *)
(* socket (the late close event of its predecessor, a full daemon, a       *)
(* duplicate client id).                                                   *)
ConnectSettles ==
  \A c \in Client : tr[c].dialing # NoConn =>
    LET k == conn[tr[c].dialing] IN
    \/ k.near \in {"connecting", "aborted", "closing"}
    \/ k.near = "open" /\ (k.up # <<>> \/ k.down # <<>> \/ k.far = "closed")

(* The types hold, events follow the attachment they belong to, the daemon *)
(* counts down only while it is alone, and every connect() settles.        *)
Inv == TypeOK /\ EventsFollowAttach /\ IdleMeansNoClients /\ ConnectSettles
=============================================================================
