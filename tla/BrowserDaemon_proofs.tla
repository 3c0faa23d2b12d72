------------------------- MODULE BrowserDaemon_proofs -------------------------
(***************************************************************************)
(* Theorems about BrowserDaemon, for any clients, socket connections,      *)
(* sessions, attempts and limits.                                          *)
(***************************************************************************)
EXTENDS BrowserDaemon, SequenceTheorems, FiniteSetTheorems, TLAPS

(* The records of the variables' types.                                    *)
UpLine == [type : {"register", "deregister"}] \cup [type : {"request"}, req : Request]
Line == [type : {"registered", "shutdown"}]
        \cup [type : {"response"}, id : 1..MaxRequests, session : Session \cup {NoSession}, of : Entry \cup {NoConn}]
        \cup [type : {"event"}, session : Session \cup {NoSession}]
Link == [client : Client \cup {NoClient}, near : Near, far : Far, up : Seq(UpLine), down : Seq(Line)]
Transport == [socket : Conn \cup {NoConn}, registered : BOOLEAN, dialing : Conn \cup {NoConn},
              pending : SUBSET (1..MaxRequests), next : 1..MaxRequests + 1, held : SUBSET Session]
Waiter == [client : Client, conn : Conn, req : Request]

-----------------------------------------------------------------------------
(* The error responses are lines, one per entry of the client: the rank of *)
(* an entry among them is a bijection, so that each rank has an entry.     *)
UniqueIds(E) == \A d, e \in E : d.daemonId = e.daemonId => d = e

LEMMA RankIsTaken ==
  ASSUME NEW S \in SUBSET Entry, IsFiniteSet(S), UniqueIds(S), NEW i \in 1..Cardinality(S)
  PROVE  \E e \in S : Cardinality({d \in S : d.daemonId <= e.daemonId}) = i
<1> DEFINE below(e) == {d \in S : d.daemonId <= e.daemonId}
<1> DEFINE n == Cardinality(S)
<1> DEFINE rank == [e \in S |-> Cardinality(below(e))]
<1>0. n \in Nat
  BY FS_CardinalityType
<1>1. \A e \in S : IsFiniteSet(below(e)) /\ Cardinality(below(e)) \in 1..n
  <2> TAKE e \in S
  <2>1. below(e) \in SUBSET S /\ IsFiniteSet(below(e)) /\ Cardinality(below(e)) <= n
    BY FS_Subset, Zenon
  <2>2. e \in below(e)
    BY DEF Entry
  <2>3. Cardinality(below(e)) # 0
    BY <2>1, <2>2, FS_EmptySet
  <2>4. Cardinality(below(e)) \in Nat
    BY <2>1, FS_CardinalityType
  <2> QED BY <1>0, <2>1, <2>3, <2>4
<1>2. \A d, e \in S : rank[d] = rank[e] => d = e
  <2>1. ASSUME NEW d \in S, NEW e \in S, rank[d] = rank[e], d.daemonId <= e.daemonId
        PROVE  d = e
    <3>1. below(d) \in SUBSET below(e)
      BY <2>1 DEF Entry
    <3>2. Cardinality(below(d)) = Cardinality(below(e))
      BY <2>1
    <3>3. below(d) = below(e)
      <4> HIDE DEF below
      <4> QED BY <1>1, <3>1, <3>2, FS_Subset
    <3>4. e \in below(d)
      BY <3>3 DEF Entry
    <3>5. e.daemonId <= d.daemonId
      BY <3>4
    <3> QED BY <2>1, <3>5 DEF UniqueIds, Entry
  <2>2. ASSUME NEW d \in S, NEW e \in S
        PROVE  d.daemonId <= e.daemonId \/ e.daemonId <= d.daemonId
    BY DEF Entry
  <2> QED BY <2>1, <2>2
<1>3. rank \in [S -> 1..n]
  BY <1>1
<1>4. rank \in Injection(S, 1..n)
  <2> HIDE DEF rank
  <2> QED BY <1>2, <1>3 DEF Injection, IsInjective
<1>5. IsFiniteSet(1..n) /\ Cardinality(1..n) = n
  BY <1>0, FS_Interval
<1>6. rank \in Surjection(S, 1..n)
  <2> HIDE DEF rank
  <2> QED BY <1>4, <1>5, FS_Injection
<1>7. PICK e \in S : rank[e] = i
  <2> HIDE DEF rank
  <2> QED BY <1>6 DEF Surjection
<1> QED BY <1>7

LEMMA FailureType ==
  ASSUME NEW id \in 1..MaxRequests
  PROVE  Failure(id) \in Line
BY DEF Failure, Line

LEMMA RejectionsType ==
  ASSUME NEW S \in SUBSET Entry, IsFiniteSet(S), UniqueIds(S), NEW c \in Client
  PROVE  /\ Rejections(S, c) \in Seq(Line)
         /\ \A i \in DOMAIN Rejections(S, c) : \E id \in 1..MaxRequests : Rejections(S, c)[i] = Failure(id)
<1> DEFINE mine == {e \in S : e.client = c}
<1> DEFINE has(e, i) == Cardinality({d \in mine : d.daemonId <= e.daemonId}) = i
<1> DEFINE nth(i) == CHOOSE e \in mine : has(e, i)
<1> DEFINE n == Cardinality(mine)
<1>1. mine \in SUBSET Entry /\ IsFiniteSet(mine) /\ UniqueIds(mine)
  BY FS_Subset, mine \in SUBSET S DEF UniqueIds
<1>2. n \in Nat
  BY <1>1, FS_CardinalityType
<1>3. ASSUME NEW i \in 1..n PROVE nth(i) \in mine
  <2>1. \E e \in mine : has(e, i)
    <3> HIDE DEF mine
    <3> QED BY <1>1, RankIsTaken
  <2> HIDE DEF mine, has
  <2> QED BY <2>1
<1>4. ASSUME NEW i \in 1..n PROVE nth(i).req.id \in 1..MaxRequests
  <2>1. nth(i) \in Entry
    BY <1>1, <1>3
  <2> HIDE DEF nth
  <2> QED BY <2>1 DEF Entry, Request
<1>5. Rejections(S, c) = [i \in 1..n |-> Failure(nth(i).req.id)]
  BY DEF Rejections
<1>6. \A i \in 1..n : Failure(nth(i).req.id) \in Line
  <2> HIDE DEF nth
  <2> QED BY <1>4, FailureType
<1> DEFINE line(i) == Failure(nth(i).req.id)
<1>7. [i \in 1..n |-> line(i)] \in Seq(Line)
  <2> HIDE DEF line, n
  <2>1. \A i \in 1..n : line(i) \in Line
    BY <1>6 DEF line
  <2> QED BY <1>2, <2>1, IsASeq
<1>8. \A i \in 1..n : [j \in 1..n |-> line(j)][i] = Failure(nth(i).req.id)
  OBVIOUS
<1> HIDE DEF nth, n, mine
<1> QED BY <1>4, <1>5, <1>7, <1>8

-----------------------------------------------------------------------------
(* What the operators on connections and transports return.                *)
Hears(k, D) == k \in Registered /\ conn[k].client \in D /\ conn[k].near = "open"

LEMMA ExtendedLink ==
  ASSUME NEW r \in Link, NEW more \in Seq(Line)
  PROVE  LET x == [r EXCEPT !.down = @ \o more] IN
         /\ x \in Link /\ x.down = r.down \o more
         /\ x.client = r.client /\ x.near = r.near /\ x.far = r.far /\ x.up = r.up
<1>1. r.down \o more \in Seq(Line)
  BY ConcatProperties DEF Link
<1> QED BY <1>1 DEF Link

LEMMA SentEffect ==
  ASSUME conn \in [Conn -> Link], NEW D \in SUBSET Client, NEW L \in [D -> Seq(Line)]
  PROVE  /\ Sent(L) \in [Conn -> Link]
         /\ \A k \in Conn :
              /\ Sent(L)[k].client = conn[k].client /\ Sent(L)[k].near = conn[k].near
              /\ Sent(L)[k].far = conn[k].far /\ Sent(L)[k].up = conn[k].up
              /\ Sent(L)[k].down = IF Hears(k, D) THEN conn[k].down \o L[conn[k].client] ELSE conn[k].down
<1>1. DOMAIN L = D
  OBVIOUS
<1>2. ASSUME NEW k \in Conn
      PROVE  /\ Sent(L)[k] \in Link
             /\ Sent(L)[k].client = conn[k].client /\ Sent(L)[k].near = conn[k].near
             /\ Sent(L)[k].far = conn[k].far /\ Sent(L)[k].up = conn[k].up
             /\ Sent(L)[k].down = IF Hears(k, D) THEN conn[k].down \o L[conn[k].client] ELSE conn[k].down
  <2>0. conn[k] \in Link
    OBVIOUS
  <2>1. CASE Hears(k, D)
    <3>1. L[conn[k].client] \in Seq(Line)
      BY <2>1 DEF Hears
    <3>2. Sent(L)[k] = [conn[k] EXCEPT !.down = @ \o L[conn[k].client]]
      BY <1>1, <2>1 DEF Hears, Sent
    <3> DEFINE r == conn[k]
    <3> DEFINE more == L[conn[k].client]
    <3> DEFINE x == [r EXCEPT !.down = @ \o more]
    <3>3. r \in Link /\ more \in Seq(Line)
      BY <2>0, <3>1
    <3>4. /\ x \in Link /\ x.down = r.down \o more
          /\ x.client = r.client /\ x.near = r.near /\ x.far = r.far /\ x.up = r.up
      <4> HIDE DEF r, more
      <4> QED BY <3>3, ExtendedLink
    <3>5. Sent(L)[k] = x
      BY <3>2
    <3> HIDE DEF x
    <3> QED BY <2>1, <3>4, <3>5
  <2>2. CASE ~Hears(k, D)
    <3>1. Sent(L)[k] = conn[k]
      BY <1>1, <2>2 DEF Hears, Sent
    <3> QED BY <2>0, <2>2, <3>1
  <2> QED BY <2>1, <2>2
<1>3. Sent(L) = [k \in Conn |-> Sent(L)[k]]
  BY DEF Sent
<1> HIDE DEF Sent
<1> QED BY <1>2, <1>3

Fallen(near) == CASE near = "connecting" -> "aborted" [] near = "open" -> "closing" [] OTHER -> near

LEMMA DestroyedEffect ==
  ASSUME conn \in [Conn -> Link], NEW k \in Conn \cup {NoConn}
  PROVE  /\ Destroyed(k) \in [Conn -> Link]
         /\ \A j \in Conn :
              /\ Destroyed(k)[j].client = conn[j].client /\ Destroyed(k)[j].far = conn[j].far
              /\ Destroyed(k)[j].up = conn[j].up
              /\ Destroyed(k)[j].near = IF j = k THEN Fallen(conn[j].near) ELSE conn[j].near
              /\ Destroyed(k)[j].down = IF j = k THEN <<>> ELSE conn[j].down
<1>1. CASE k = NoConn
  BY <1>1, DaemonAssumption DEF Destroyed
<1>2. CASE k \in Conn
  <2> DEFINE x == [conn[k] EXCEPT !.near = Fallen(conn[k].near), !.down = <<>>]
  <2>1. Destroyed(k) = [conn EXCEPT ![k] = x]
    BY <1>2, DaemonAssumption DEF Destroyed, Fallen, Link
  <2>2. Fallen(conn[k].near) \in Near
    BY <1>2 DEF Fallen, Near, Link
  <2>3. <<>> \in Seq(Line)
    BY EmptySeq
  <2>4. x \in Link /\ x.client = conn[k].client /\ x.far = conn[k].far /\ x.up = conn[k].up
        /\ x.near = Fallen(conn[k].near) /\ x.down = <<>>
    BY <1>2, <2>2, <2>3 DEF Link
  <2> HIDE DEF x
  <2> QED BY <1>2, <2>1, <2>4
<1> QED BY <1>1, <1>2

LEMMA CleanedEffect ==
  ASSUME tr \in [Client -> Transport], NEW c \in Client
  PROVE  /\ Cleaned(c) \in Transport
         /\ Cleaned(c).socket = NoConn /\ Cleaned(c).registered = FALSE /\ Cleaned(c).pending = {}
         /\ Cleaned(c).held = {} /\ Cleaned(c).dialing = tr[c].dialing /\ Cleaned(c).next = tr[c].next
BY DEF Cleaned, Transport

-----------------------------------------------------------------------------
(* The attempts to connect.  The socket that is open is the one of the     *)
(* current and newest attempt, whose timer is off: no attempt starts       *)
(* beside it, and none of the others can take its requests away.           *)
Bridge == [up : BOOLEAN, stopped : BOOLEAN, connecting : BOOLEAN, generation : 0..MaxAttempts,
           active : 0..MaxAttempts, socket : 0..MaxAttempts, ws : 0..MaxAttempts]
Try == [at : {"unused", "discover", "socket", "over"}, timer : BOOLEAN,
        sock : {"none", "opening", "open", "closing", "closed"}]

Untried(g) == attempt[g].at = "unused" /\ attempt[g].timer = FALSE /\ attempt[g].sock = "none"
OpenIsCurrent(g) ==
  attempt[g].sock = "open" =>
    /\ bridge.ws = g /\ bridge.active = g /\ bridge.socket = g
    /\ bridge.stopped = FALSE /\ attempt[g].timer = FALSE /\ attempt[g].at = "over"
Attempts ==
  /\ bridge.generation >= 1 /\ bridge.active \in {0, bridge.generation}
  /\ \A g \in Attempt : /\ g > bridge.generation => Untried(g)
                        /\ attempt[g].at \in {"unused", "discover"} => attempt[g].sock = "none"
                        /\ OpenIsCurrent(g)
BridgeOK == bridge \in Bridge /\ attempt \in [Attempt -> Try] /\ Attempts

LEMMA AttemptRange == Attempt \subseteq Nat \ {0} /\ 0 \in 0..MaxAttempts /\ \A g \in Attempt : g \in 0..MaxAttempts
BY DaemonAssumption DEF Attempt

LEMMA FailedEffect ==
  ASSUME bridge \in Bridge, NEW g \in Attempt
  PROVE  /\ Failed(g) \in Bridge
         /\ Failed(g).active = 0 /\ Failed(g).socket = 0 /\ Failed(g).generation = bridge.generation
         /\ Failed(g).up = bridge.up /\ Failed(g).stopped = bridge.stopped
         /\ Failed(g).ws = IF bridge.ws = g THEN 0 ELSE bridge.ws
<1>1. bridge.ws \in 0..MaxAttempts /\ 0 \in 0..MaxAttempts
  BY AttemptRange DEF Bridge
<1> DEFINE ws == IF bridge.ws = g THEN 0 ELSE bridge.ws
<1>2. ws \in 0..MaxAttempts
  BY <1>1
<1>3. Failed(g) = [bridge EXCEPT !.active = 0, !.socket = 0, !.ws = ws, !.connecting = FALSE]
  BY DEF Failed, Bridge
<1> HIDE DEF ws
<1>4. /\ Failed(g) \in Bridge
      /\ Failed(g).active = 0 /\ Failed(g).socket = 0 /\ Failed(g).generation = bridge.generation
      /\ Failed(g).up = bridge.up /\ Failed(g).stopped = bridge.stopped /\ Failed(g).ws = ws
  BY <1>1, <1>2, <1>3 DEF Bridge
<1> QED BY <1>4 DEF ws

(* The effect of an attempt's failure or end on the attempt's record.      *)
LEMMA EndedEffect ==
  ASSUME attempt \in [Attempt -> Try], NEW g \in Attempt,
         NEW sock \in {"none", "opening", "open", "closing", "closed"}, Ended(g, sock)
  PROVE  /\ attempt' \in [Attempt -> Try]
         /\ attempt'[g].at = "over" /\ attempt'[g].timer = FALSE /\ attempt'[g].sock = sock
         /\ \A h \in Attempt \ {g} : attempt'[h] = attempt[h]
BY DEF Ended, Try

LEMMA FailKeepsAttempts ==
  ASSUME BridgeOK, NEW g \in Attempt, g <= bridge.generation, attempt[g].sock # "open",
         NEW sock \in {"none", "opening", "closing", "closed"}, Ended(g, sock),
         bridge' = IF Current(g) THEN Failed(g) ELSE bridge
  PROVE  BridgeOK'
<1>1. /\ attempt' \in [Attempt -> Try]
      /\ attempt'[g].at = "over" /\ attempt'[g].timer = FALSE /\ attempt'[g].sock = sock
      /\ \A h \in Attempt \ {g} : attempt'[h] = attempt[h]
  BY EndedEffect DEF BridgeOK
<1>2. bridge' \in Bridge /\ bridge'.generation = bridge.generation
  BY FailedEffect DEF BridgeOK
<1>3. CASE Current(g)
  <2>1. bridge'.active = 0
    BY <1>3, FailedEffect DEF BridgeOK
  <2>2. \A h \in Attempt : attempt[h].sock # "open"
    BY <1>3 DEF BridgeOK, Attempts, OpenIsCurrent, Current
  <2>3. \A h \in Attempt : attempt'[h].sock # "open"
    BY <1>1, <2>2
  <2>4. \A h \in Attempt : h > bridge'.generation => Untried(h)'
    BY <1>1, <1>2, AttemptRange DEF BridgeOK, Attempts, Untried, Attempt, Bridge
  <2> QED BY <1>1, <1>2, <2>1, <2>3, <2>4 DEF BridgeOK, Attempts, OpenIsCurrent
<1>4. CASE ~Current(g)
  <2>1. bridge' = bridge
    BY <1>4
  <2>2. \A h \in Attempt : h > bridge'.generation => Untried(h)'
    BY <1>1, <2>1, AttemptRange DEF BridgeOK, Attempts, Untried, Attempt, Bridge
  <2>3. \A h \in Attempt : OpenIsCurrent(h)'
    BY <1>1, <2>1 DEF BridgeOK, Attempts, OpenIsCurrent
  <2> QED BY <1>1, <1>2, <2>1, <2>2, <2>3 DEF BridgeOK, Attempts
<1> QED BY <1>3, <1>4

LEMMA DiscoveredAttempts ==
  ASSUME BridgeOK, NEW g \in Attempt, NEW found \in BOOLEAN, Discovered(g, found)
  PROVE  BridgeOK'
<1>1. attempt[g].at = "discover" /\ attempt[g].sock = "none" /\ g <= bridge.generation
  BY AttemptRange DEF Discovered, BridgeOK, Attempts, Untried, Bridge, Attempt
<1>2. CASE Current(g) /\ found
  <2>1. /\ attempt' = [attempt EXCEPT ![g].at = "socket", ![g].sock = "opening"]
        /\ bridge' = [bridge EXCEPT !.socket = g]
    BY <1>2 DEF Discovered
  <2>2. /\ attempt' \in [Attempt -> Try]
        /\ attempt'[g].at = "socket" /\ attempt'[g].sock = "opening"
        /\ \A h \in Attempt \ {g} : attempt'[h] = attempt[h]
    BY <2>1 DEF BridgeOK, Try
  <2>3. /\ bridge' \in Bridge /\ bridge'.generation = bridge.generation /\ bridge'.active = bridge.active
    BY <2>1, AttemptRange DEF BridgeOK, Bridge
  <2>4. \A h \in Attempt : attempt[h].sock # "open"
    BY <1>1, <1>2 DEF BridgeOK, Attempts, OpenIsCurrent, Current
  <2>5. \A h \in Attempt : h > bridge'.generation => Untried(h)'
    BY <1>1, <2>2, <2>3, AttemptRange DEF BridgeOK, Attempts, Untried, Attempt, Bridge
  <2> QED BY <2>2, <2>3, <2>4, <2>5 DEF BridgeOK, Attempts, OpenIsCurrent
<1>3. CASE ~(Current(g) /\ found)
  <2>1. Ended(g, "none") /\ bridge' = IF Current(g) THEN Failed(g) ELSE bridge
    BY <1>3 DEF Discovered, Fail
  <2> QED BY <1>1, <2>1, FailKeepsAttempts
<1> QED BY <1>2, <1>3

LEMMA SocketOpensAttempts ==
  ASSUME BridgeOK, NEW g \in Attempt, SocketOpens(g)
  PROVE  BridgeOK'
<1>1. attempt[g].sock = "opening" /\ g <= bridge.generation
  BY AttemptRange DEF SocketOpens, BridgeOK, Attempts, Untried, Bridge, Attempt
<1>2. CASE Current(g) /\ bridge.socket = g
  <2>1. Ended(g, "open") /\ bridge' = [bridge EXCEPT !.ws = g, !.connecting = FALSE]
    BY <1>2 DEF SocketOpens
  <2>2. /\ attempt' \in [Attempt -> Try]
        /\ attempt'[g].at = "over" /\ attempt'[g].timer = FALSE /\ attempt'[g].sock = "open"
        /\ \A h \in Attempt \ {g} : attempt'[h] = attempt[h]
    BY <2>1, EndedEffect DEF BridgeOK
  <2>3. /\ bridge' \in Bridge /\ bridge'.generation = bridge.generation /\ bridge'.active = bridge.active
        /\ bridge'.ws = g /\ bridge'.socket = bridge.socket /\ bridge'.stopped = bridge.stopped
    BY <2>1, AttemptRange DEF BridgeOK, Bridge
  <2>4. \A h \in Attempt : attempt[h].sock # "open"
    BY <1>1, <1>2 DEF BridgeOK, Attempts, OpenIsCurrent, Current
  <2>5. \A h \in Attempt : h > bridge'.generation => Untried(h)'
    BY <1>1, <2>2, <2>3, AttemptRange DEF BridgeOK, Attempts, Untried, Attempt, Bridge
  <2>6. \A h \in Attempt \ {g} : attempt'[h].sock # "open"
    BY <2>2, <2>4
  <2>7. OpenIsCurrent(g)'
    BY <1>2, <2>2, <2>3 DEF OpenIsCurrent, Current, BridgeOK, Bridge
  <2>8. \A h \in Attempt : OpenIsCurrent(h)'
    BY <2>6, <2>7 DEF OpenIsCurrent
  <2> QED BY <2>2, <2>3, <2>5, <2>8 DEF BridgeOK, Attempts
<1>3. CASE ~(Current(g) /\ bridge.socket = g)
  <2>1. Ended(g, "closing") /\ bridge' = IF Current(g) THEN Failed(g) ELSE bridge
    BY <1>3 DEF SocketOpens, Fail
  <2> QED BY <1>1, <2>1, FailKeepsAttempts
<1> QED BY <1>2, <1>3

LEMMA TimeoutAttempts ==
  ASSUME BridgeOK, NEW g \in Attempt, AttemptTimeout(g)
  PROVE  BridgeOK'
<1>1. attempt[g].timer /\ attempt[g].sock # "open" /\ g <= bridge.generation
  BY AttemptRange DEF AttemptTimeout, BridgeOK, Attempts, OpenIsCurrent, Untried, Bridge, Attempt
<1> DEFINE sock == IF Current(g) THEN Closing(attempt[g].sock) ELSE attempt[g].sock
<1>2. sock \in {"none", "opening", "closing", "closed"}
  BY <1>1 DEF Closing, BridgeOK, Try
<1>3. Ended(g, sock) /\ bridge' = IF Current(g) THEN Failed(g) ELSE bridge
  BY DEF AttemptTimeout, Fail
<1> HIDE DEF sock
<1> QED BY <1>1, <1>2, <1>3, FailKeepsAttempts

LEMMA GoneAttempts ==
  ASSUME BridgeOK, NEW g \in Attempt, SocketGone(g)
  PROVE  BridgeOK'
<1>1. attempt[g].sock # "open" /\ g <= bridge.generation
  BY AttemptRange DEF SocketGone, BridgeOK, Attempts, Untried, Bridge, Attempt
<1>2. Ended(g, "closed") /\ bridge' = IF Current(g) THEN Failed(g) ELSE bridge
  BY DEF SocketGone, Fail
<1> QED BY <1>1, <1>2, FailKeepsAttempts

LEMMA DropAttempts ==
  ASSUME BridgeOK, NEW g \in Attempt, SocketDrops(g)
  PROVE  BridgeOK'
<1>1. /\ attempt' \in [Attempt -> Try] /\ bridge' = bridge
      /\ attempt'[g].sock = "closing" /\ attempt'[g].at = attempt[g].at
      /\ \A h \in Attempt \ {g} : attempt'[h] = attempt[h]
  BY DEF SocketDrops, BridgeOK, Try
<1>2. attempt[g].sock = "open" /\ attempt[g].at = "over"
  BY DEF SocketDrops, BridgeOK, Attempts, OpenIsCurrent
<1>3. g <= bridge.generation
  BY <1>2, AttemptRange DEF BridgeOK, Attempts, Untried, Bridge, Attempt
<1>4. \A h \in Attempt : h > bridge'.generation => Untried(h)'
  BY <1>1, <1>3, AttemptRange DEF BridgeOK, Attempts, Untried, Attempt, Bridge
<1>5. \A h \in Attempt : OpenIsCurrent(h)'
  BY <1>1 DEF BridgeOK, Attempts, OpenIsCurrent
<1> QED BY <1>1, <1>2, <1>4, <1>5 DEF BridgeOK, Attempts

LEMMA TryAttempts ==
  ASSUME BridgeOK, TryConnect
  PROVE  BridgeOK'
<1>1. CASE bridge.stopped \/ bridge.connecting \/ WsOpen
  <2>1. UNCHANGED <<bridge, attempt>>
    BY <1>1 DEF TryConnect
  <2> QED BY <2>1 DEF BridgeOK, Attempts, Untried, OpenIsCurrent
<1>2. CASE ~(bridge.stopped \/ bridge.connecting \/ WsOpen)
  <2> DEFINE g == bridge.generation + 1
  <2>1. /\ g \in Attempt
        /\ bridge' = [bridge EXCEPT !.generation = g, !.active = g, !.connecting = TRUE]
        /\ attempt' = [attempt EXCEPT ![g] = [at |-> "discover", timer |-> TRUE, sock |-> "none"]]
    BY <1>2 DEF TryConnect
  <2>2. /\ bridge' \in Bridge /\ bridge'.generation = g /\ bridge'.active = g
    BY <2>1, AttemptRange DEF BridgeOK, Bridge
  <2>3. /\ attempt' \in [Attempt -> Try]
        /\ attempt'[g].at = "discover" /\ attempt'[g].sock = "none"
        /\ \A h \in Attempt \ {g} : attempt'[h] = attempt[h]
    BY <2>1 DEF BridgeOK, Try
  <2>4. \A h \in Attempt : attempt[h].sock # "open"
    BY <1>2, AttemptRange DEF BridgeOK, Attempts, OpenIsCurrent, WsOpen
  <2>5. \A h \in Attempt : h > bridge'.generation => Untried(h)'
    BY <2>2, <2>3, AttemptRange DEF BridgeOK, Attempts, Untried, Attempt, Bridge
  <2>6. g >= 1
    BY <2>1, AttemptRange
  <2> HIDE DEF g
  <2> QED BY <2>2, <2>3, <2>4, <2>5, <2>6 DEF BridgeOK, Attempts, OpenIsCurrent
<1> QED BY <1>1, <1>2

LEMMA ShutdownAttempts ==
  ASSUME BridgeOK, NEW fired \in BOOLEAN, Shutdown(fired)
  PROVE  BridgeOK'
<1>1. bridge' = [bridge EXCEPT !.up = FALSE, !.stopped = TRUE, !.active = 0, !.socket = 0, !.ws = 0,
                              !.connecting = FALSE]
  BY DEF Shutdown
<1>2. bridge' \in Bridge /\ bridge'.generation = bridge.generation /\ bridge'.active = 0
  BY <1>1, AttemptRange DEF BridgeOK, Bridge
<1>3. attempt' = [g \in Attempt |-> [attempt[g] EXCEPT !.at = IF @ = "unused" THEN @ ELSE "over", !.timer = FALSE,
                                                     !.sock = IF @ = "none" THEN @ ELSE "closed"]]
  BY DEF Shutdown
<1>4. \A g \in Attempt : /\ attempt'[g].at = IF attempt[g].at = "unused" THEN "unused" ELSE "over"
                         /\ attempt'[g].timer = FALSE
                         /\ attempt'[g].sock = IF attempt[g].sock = "none" THEN "none" ELSE "closed"
  BY <1>3 DEF BridgeOK, Try
<1>5. attempt' \in [Attempt -> Try]
  BY <1>3 DEF BridgeOK, Try
<1>6. \A h \in Attempt : h > bridge'.generation => Untried(h)'
  BY <1>2, <1>4 DEF BridgeOK, Attempts, Untried
<1>7. \A h \in Attempt : OpenIsCurrent(h)'
  BY <1>4 DEF OpenIsCurrent
<1> QED BY <1>2, <1>4, <1>5, <1>6, <1>7 DEF BridgeOK, Attempts

-----------------------------------------------------------------------------
(* The multiplexer.  An id stands for one entry, in Chrome's hands or the  *)
(* bridge's, and a request that is in flight was sent on a socket that is  *)
(* not yet known to be gone.                                               *)
Ids ==
  /\ \A e \in mux.inFlight \cup chrome.asked : e.daemonId < mux.next
  /\ \A e, f \in mux.inFlight \cup chrome.asked : e.daemonId = f.daemonId => e = f
MuxOK ==
  /\ mux \in [next : Nat \ {0}, inFlight : SUBSET Entry] /\ IsFiniteSet(mux.inFlight)
  /\ chrome \in [asked : SUBSET Entry, given : SUBSET Session, live : SUBSET Session]
  /\ Ids /\ RequestsFailWithSocket

(* Steps that add no entry.                                                *)
LEMMA ForgettingKeepsMux ==
  ASSUME MuxOK,
         mux' \in [next : Nat \ {0}, inFlight : SUBSET Entry],
         mux'.next = mux.next, mux'.inFlight \subseteq mux.inFlight,
         chrome' \in [asked : SUBSET Entry, given : SUBSET Session, live : SUBSET Session],
         chrome'.asked \subseteq chrome.asked,
         \A e \in mux'.inFlight : attempt'[e.gen].sock \in {"open", "closing"}
  PROVE  MuxOK'
<1>1. IsFiniteSet(mux'.inFlight)
  BY FS_Subset DEF MuxOK
<1>2. Ids'
  BY DEF MuxOK, Ids
<1> QED BY <1>1, <1>2 DEF MuxOK, RequestsFailWithSocket

LEMMA ForgetEffect ==
  ASSUME MuxOK, NEW E, Forget(E)
  PROVE  /\ mux' \in [next : Nat \ {0}, inFlight : SUBSET Entry]
         /\ mux'.next = mux.next /\ mux'.inFlight = mux.inFlight \ E
BY DEF MuxOK, Forget

(* A socket that opens or closes: the requests of its attempt are          *)
(* rejected, so that the state of the socket binds no entry.               *)
LEMMA SocketKeepsMux ==
  ASSUME MuxOK, UNCHANGED chrome, NEW g \in Attempt, Forget(EntriesOf(g)),
         \A h \in Attempt \ {g} : attempt'[h] = attempt[h]
  PROVE  MuxOK'
<1>1. /\ mux' \in [next : Nat \ {0}, inFlight : SUBSET Entry]
      /\ mux'.next = mux.next /\ mux'.inFlight = mux.inFlight \ EntriesOf(g)
  BY ForgetEffect
<1>2. \A e \in mux'.inFlight : e \in mux.inFlight /\ e.gen \in Attempt \ {g}
  BY <1>1 DEF EntriesOf, MuxOK, Entry
<1>3. \A e \in mux'.inFlight : attempt'[e.gen].sock \in {"open", "closing"}
  BY <1>2 DEF MuxOK, RequestsFailWithSocket
<1> QED BY <1>1, <1>3, ForgettingKeepsMux DEF MuxOK

LEMMA DiscoveredMux ==
  ASSUME BridgeOK, MuxOK, NEW g \in Attempt, NEW found \in BOOLEAN, Discovered(g, found)
  PROVE  MuxOK'
<1>1. CASE Current(g) /\ found
  <2>1. attempt' = [attempt EXCEPT ![g].at = "socket", ![g].sock = "opening"] /\ UNCHANGED <<mux, chrome>>
    BY <1>1 DEF Discovered
  <2>2. attempt[g].sock = "none"
    BY DEF Discovered, BridgeOK, Attempts
  <2>3. \A e \in mux.inFlight : e.gen \in Attempt \ {g}
    BY <2>2 DEF MuxOK, RequestsFailWithSocket, Entry
  <2>4. \A e \in mux'.inFlight : attempt'[e.gen].sock \in {"open", "closing"}
    BY <2>1, <2>3 DEF MuxOK, RequestsFailWithSocket, BridgeOK
  <2> QED BY <2>1, <2>4, ForgettingKeepsMux DEF MuxOK
<1>2. CASE ~(Current(g) /\ found)
  <2>1. Ended(g, "none") /\ Forget(EntriesOf(g)) /\ UNCHANGED chrome
    BY <1>2 DEF Discovered, Fail, Reject
  <2> QED BY <2>1, EndedEffect, SocketKeepsMux DEF BridgeOK
<1> QED BY <1>1, <1>2

LEMMA SocketMux ==
  ASSUME BridgeOK, MuxOK, NEW g \in Attempt, SocketOpens(g) \/ AttemptTimeout(g) \/ SocketGone(g)
  PROVE  MuxOK'
<1>1. UNCHANGED chrome /\ Forget(EntriesOf(g))
  BY DEF SocketOpens, AttemptTimeout, SocketGone, Fail, Reject
<1>2. \A h \in Attempt \ {g} : attempt'[h] = attempt[h]
  BY DEF SocketOpens, AttemptTimeout, SocketGone, Ended, BridgeOK
<1> QED BY <1>1, <1>2, SocketKeepsMux

LEMMA DropMux ==
  ASSUME BridgeOK, MuxOK, NEW g \in Attempt, SocketDrops(g)
  PROVE  MuxOK'
<1>1. attempt' = [attempt EXCEPT ![g].sock = "closing"] /\ UNCHANGED mux
  BY DEF SocketDrops
<1>2. chrome' \in [asked : SUBSET Entry, given : SUBSET Session, live : SUBSET Session]
      /\ chrome'.asked \subseteq chrome.asked
  BY DEF SocketDrops, MuxOK
<1>3. \A e \in mux'.inFlight : attempt'[e.gen].sock \in {"open", "closing"}
  BY <1>1 DEF MuxOK, RequestsFailWithSocket, BridgeOK, Entry
<1> QED BY <1>1, <1>2, <1>3, ForgettingKeepsMux DEF MuxOK

(* A request that goes to Chrome: its id is new, and the socket it is sent *)
(* on is that of the newest attempt.                                       *)
LEMMA DispatchKeepsMux ==
  ASSUME BridgeOK, MuxOK, WsOpen, UNCHANGED attempt,
         NEW c \in Client, NEW k \in Conn, NEW req \in Request, Dispatch(c, k, req)
  PROVE  MuxOK'
<1> DEFINE e == [daemonId |-> mux.next, client |-> c, conn |-> k, req |-> req, gen |-> bridge.generation]
<1>1. mux' = [next |-> mux.next + 1, inFlight |-> mux.inFlight \cup {e}]
      /\ chrome' = [chrome EXCEPT !.asked = @ \cup {e}]
  BY DEF Dispatch
<1>2. bridge.generation \in Attempt
  BY AttemptRange DEF BridgeOK, Attempts, Bridge, Attempt
<1>3. e \in Entry /\ e.daemonId = mux.next /\ e.gen = bridge.generation
  BY <1>2 DEF Entry, MuxOK
<1> HIDE DEF e
<1>4. mux.next \in Nat \ {0} /\ mux.inFlight \subseteq Entry /\ chrome.asked \subseteq Entry
  BY DEF MuxOK
<1>5. /\ mux'.next = mux.next + 1 /\ mux'.inFlight = mux.inFlight \cup {e}
      /\ chrome'.asked = chrome.asked \cup {e}
      /\ mux' \in [next : Nat \ {0}, inFlight : SUBSET Entry]
      /\ chrome' \in [asked : SUBSET Entry, given : SUBSET Session, live : SUBSET Session]
  <2>1. mux' \in [next : Nat \ {0}, inFlight : SUBSET Entry]
    BY <1>1, <1>3, <1>4
  <2>2. chrome' \in [asked : SUBSET Entry, given : SUBSET Session, live : SUBSET Session]
    BY <1>1, <1>3 DEF MuxOK
  <2> QED BY <1>1, <2>1, <2>2 DEF MuxOK
<1>6. IsFiniteSet(mux'.inFlight)
  BY <1>5, FS_AddElement DEF MuxOK
<1>7. \A d \in mux.inFlight \cup chrome.asked : d.daemonId < mux.next /\ d.daemonId \in Nat
  BY <1>4 DEF MuxOK, Ids, Entry
<1>8. Ids'
  <2>1. \A d \in mux'.inFlight \cup chrome'.asked : d = e \/ d \in mux.inFlight \cup chrome.asked
    BY <1>5
  <2>2. \A d \in mux'.inFlight \cup chrome'.asked : d.daemonId < mux'.next
    BY <1>3, <1>4, <1>5, <1>7, <2>1
  <2>3. ASSUME NEW d \in mux'.inFlight \cup chrome'.asked, NEW f \in mux'.inFlight \cup chrome'.asked,
               d.daemonId = f.daemonId
        PROVE  d = f
    <3>1. CASE d = e \/ f = e
      BY <1>3, <1>4, <1>7, <2>1, <2>3, <3>1
    <3>2. CASE d # e /\ f # e
      BY <2>1, <2>3, <3>2 DEF MuxOK, Ids
    <3> QED BY <3>1, <3>2
  <2> QED BY <2>2, <2>3 DEF Ids
<1>9. attempt[bridge.generation].sock = "open"
  <2>1. bridge.ws \in Attempt /\ attempt[bridge.ws].sock = "open"
    BY AttemptRange DEF WsOpen, BridgeOK, Bridge, Attempt
  <2>2. bridge.active = bridge.ws
    BY <2>1 DEF BridgeOK, Attempts, OpenIsCurrent
  <2>3. bridge.ws # 0
    BY DEF WsOpen
  <2> QED BY <2>1, <2>2, <2>3 DEF BridgeOK, Attempts
<1>10. RequestsFailWithSocket'
  BY <1>3, <1>5, <1>9 DEF MuxOK, RequestsFailWithSocket
<1> QED BY <1>5, <1>6, <1>8, <1>10 DEF MuxOK

LEMMA TryMux ==
  ASSUME BridgeOK, MuxOK, TryConnect, UNCHANGED <<mux, chrome>>
  PROVE  MuxOK'
<1>1. CASE bridge.stopped \/ bridge.connecting \/ WsOpen
  <2>1. UNCHANGED attempt
    BY <1>1 DEF TryConnect
  <2> QED BY <2>1 DEF MuxOK, Ids, RequestsFailWithSocket
<1>2. CASE ~(bridge.stopped \/ bridge.connecting \/ WsOpen)
  <2> DEFINE g == bridge.generation + 1
  <2>1. g \in Attempt /\ \A h \in Attempt \ {g} : attempt'[h] = attempt[h]
    BY <1>2 DEF TryConnect, BridgeOK
  <2>2. attempt[g].sock = "none"
    BY <2>1, AttemptRange DEF BridgeOK, Attempts, Untried, Bridge, Attempt
  <2>3. \A e \in mux.inFlight : e.gen \in Attempt \ {g}
    BY <2>2 DEF MuxOK, RequestsFailWithSocket, Entry
  <2> HIDE DEF g
  <2>4. \A e \in mux'.inFlight : attempt'[e.gen].sock \in {"open", "closing"}
    BY <2>1, <2>3 DEF MuxOK, RequestsFailWithSocket
  <2> QED BY <2>4, ForgettingKeepsMux DEF MuxOK
<1> QED BY <1>1, <1>2

LEMMA AnswerMux ==
  ASSUME BridgeOK, MuxOK, NEW a \in chrome.asked, NEW s \in Session \cup {NoSession}, Answer(a, s)
  PROVE  MuxOK'
<1>1. /\ UNCHANGED attempt
      /\ chrome' = [asked |-> chrome.asked \ {a},
                    given |-> chrome.given \cup ({s} \ {NoSession}),
                    live |-> (chrome.live \cup ({s} \ {NoSession}))
                              \ (IF a.req.does = "detach" THEN {a.req.session} ELSE {})]
  BY DEF Answer
<1>2. Forget(Take(a.daemonId)) \/ UNCHANGED mux
  BY DEF Answer
<1>3. /\ mux' \in [next : Nat \ {0}, inFlight : SUBSET Entry]
      /\ mux'.next = mux.next /\ mux'.inFlight \subseteq mux.inFlight
  BY <1>2, ForgetEffect DEF MuxOK
<1>4. chrome' \in [asked : SUBSET Entry, given : SUBSET Session, live : SUBSET Session]
      /\ chrome'.asked \subseteq chrome.asked
  BY <1>1 DEF MuxOK
<1>5. \A e \in mux'.inFlight : attempt'[e.gen].sock \in {"open", "closing"}
  BY <1>1, <1>3 DEF MuxOK, RequestsFailWithSocket
<1> QED BY <1>3, <1>4, <1>5, ForgettingKeepsMux

LEMMA OtherMux ==
  ASSUME BridgeOK, MuxOK,
         \/ \E e \in mux.inFlight : RequestTimeout(e)
         \/ \E s \in Session \cup {NoSession}, ends \in BOOLEAN : ChromeEvent(s, ends)
         \/ \E fired \in BOOLEAN : Shutdown(fired)
  PROVE  MuxOK'
<1>1. /\ chrome' \in [asked : SUBSET Entry, given : SUBSET Session, live : SUBSET Session]
      /\ chrome'.asked \subseteq chrome.asked
  BY DEF RequestTimeout, ChromeEvent, Shutdown, MuxOK
<1>2. (\E E : Forget(E)) \/ UNCHANGED mux
  BY DEF RequestTimeout, ChromeEvent, Shutdown
<1>3. /\ mux' \in [next : Nat \ {0}, inFlight : SUBSET Entry]
      /\ mux'.next = mux.next /\ mux'.inFlight \subseteq mux.inFlight
  BY <1>2, ForgetEffect DEF MuxOK
<1>4. UNCHANGED attempt \/ mux'.inFlight = {}
  <2>1. ASSUME NEW fired \in BOOLEAN, Shutdown(fired) PROVE mux'.inFlight = {}
    BY <2>1 DEF Shutdown, Forget, MuxOK
  <2> QED BY <2>1 DEF RequestTimeout, ChromeEvent
<1>5. \A e \in mux'.inFlight : attempt'[e.gen].sock \in {"open", "closing"}
  BY <1>3, <1>4 DEF MuxOK, RequestsFailWithSocket
<1> QED BY <1>1, <1>3, <1>5, ForgettingKeepsMux

-----------------------------------------------------------------------------
(* Connections and transports.  An end that is connecting or open is the   *)
(* one its transport holds; a connect() that is awaited has its connection *)
(* at a stage from which it is settled: a timer, a close event, or the     *)
(* answer to a registration that is first in its line.                     *)
Gone == {"aborted", "closing", "closed"}
WireOK(k) ==
  LET c == conn[k].client IN
  /\ conn[k].near = "unused" <=> c = NoClient
  /\ conn[k].near \in {"unused", "connecting"} => conn[k].far = "unused"
  /\ conn[k].near = "open" => conn[k].far # "unused"
  /\ conn[k].far \in {"unused", "anon"} => conn[k].down = <<>>
  /\ conn[k].far = "unused" => conn[k].up = <<>>
  /\ conn[k].near \in {"connecting", "open"} =>
       tr[c].socket = k /\ (tr[c].dialing = k \/ tr[c].registered)
  /\ conn[k].near \in {"connecting", "aborted"} => tr[c].dialing = k
Settling(k) ==
  \/ conn[k].near \in {"connecting", "aborted", "closing"}
  \/ conn[k].near = "open" /\ conn[k].far = "closed"
  \/ conn[k].near = "open" /\ conn[k].far = "anon" /\ conn[k].up # <<>> /\ Head(conn[k].up).type = "register"
  \/ conn[k].near = "open" /\ conn[k].far = "registered" /\ conn[k].down # <<>>
       /\ Head(conn[k].down).type = "registered"
TransportOK(c) ==
  /\ tr[c].socket # NoConn =>
       /\ conn[tr[c].socket].client = c
       /\ \/ conn[tr[c].socket].near \in {"connecting", "open"}
          \/ conn[tr[c].socket].near = "closed" /\ conn[tr[c].socket].far = "unused"
  /\ tr[c].registered =>
       tr[c].socket # NoConn /\ tr[c].dialing = NoConn /\ conn[tr[c].socket].near = "open"
  /\ tr[c].dialing # NoConn => conn[tr[c].dialing].client = c /\ Settling(tr[c].dialing)
ConnOK ==
  /\ conn \in [Conn -> Link] /\ tr \in [Client -> Transport]
  /\ \A k \in Conn : WireOK(k)
  /\ \A c \in Client : TransportOK(c)

(* A step of one client touches its own transport and connections only.    *)
LEMMA LocalKeepsConn ==
  ASSUME ConnOK, NEW c \in Client, conn' \in [Conn -> Link], tr' \in [Client -> Transport],
         \A k \in Conn : conn'[k] = conn[k] \/ (conn'[k].client = c /\ conn[k].client \in {c, NoClient}),
         \A d \in Client \ {c} : tr'[d] = tr[d],
         \A k \in Conn : conn'[k].client = c => WireOK(k)',
         TransportOK(c)'
  PROVE  ConnOK'
<1>1. ASSUME NEW k \in Conn PROVE WireOK(k)'
  <2>1. CASE conn'[k].client = c
    BY <2>1
  <2>2. CASE conn'[k].client # c
    <3>1. conn'[k] = conn[k]
      BY <2>2
    <3>2. CASE conn[k].client = NoClient
      BY <3>1, <3>2, DaemonAssumption DEF ConnOK, WireOK
    <3>3. CASE conn[k].client # NoClient
      <4>1. tr'[conn[k].client] = tr[conn[k].client]
        BY <2>2, <3>1, <3>3 DEF ConnOK, Link
      <4> QED BY <3>1, <4>1 DEF ConnOK, WireOK
    <3> QED BY <3>2, <3>3
  <2> QED BY <2>1, <2>2
<1>2. ASSUME NEW d \in Client PROVE TransportOK(d)'
  <2>1. CASE d = c
    BY <2>1
  <2>2. CASE d # c
    <3>1. tr'[d] = tr[d]
      BY <2>2
    <3>2. TransportOK(d) /\ tr[d] \in Transport
      BY DEF ConnOK
    <3>3. \A k \in Conn : conn[k].client = d => conn'[k] = conn[k]
      BY <2>2, DaemonAssumption
    <3>4. tr[d].socket # NoConn => conn'[tr[d].socket] = conn[tr[d].socket]
      BY <3>2, <3>3 DEF TransportOK, Transport
    <3>5. tr[d].dialing # NoConn => conn'[tr[d].dialing] = conn[tr[d].dialing]
      BY <3>2, <3>3 DEF TransportOK, Transport
    <3> QED BY <3>1, <3>2, <3>4, <3>5 DEF TransportOK, Settling
  <2> QED BY <2>1, <2>2
<1> QED BY <1>1, <1>2 DEF ConnOK

(* What a step of a client may do to a connection.                         *)
Handled(k) ==
  /\ conn[k].client # NoClient => conn'[k].client = conn[k].client
  /\ conn[k].near \in Gone => conn'[k].near \in Gone
  /\ conn'[k].far = conn[k].far \/ (conn[k].far = "unused" /\ conn'[k].far \in {"anon", "closed"})
  /\ conn'[k].down = conn[k].down \/ conn'[k].down = <<>>
     \/ (conn[k].down # <<>> /\ conn'[k].down = Tail(conn[k].down))

(* What it may do to a transport: while it keeps its socket, the sessions  *)
(* it holds stay, and the lines go on but for the first, whose session is  *)
(* then held.                                                              *)
HeldOn(c) ==
  \A k \in Conn : tr'[c].socket = k =>
    \/ conn[k].client = NoClient /\ conn[k].down = <<>> /\ conn'[k].down = <<>>
    \/ /\ tr[c].socket = k /\ tr[c].held \subseteq tr'[c].held
       /\ \/ conn'[k].down = conn[k].down
          \/ /\ conn[k].down # <<>> /\ conn'[k].down = Tail(conn[k].down)
             /\ Head(conn[k].down).type = "response" =>
                  Head(conn[k].down).session \in tr'[c].held \cup {NoSession}
Handling == (\A j \in Conn : Handled(j)) /\ (\A c \in Client : HeldOn(c))

LEMMA OthersHold ==
  ASSUME ConnOK, NEW c \in Client,
         \A k \in Conn : conn'[k] = conn[k] \/ (conn'[k].client = c /\ conn[k].client \in {c, NoClient}),
         \A d \in Client \ {c} : tr'[d] = tr[d],
         HeldOn(c)
  PROVE  \A d \in Client : HeldOn(d)
<1>1. ASSUME NEW d \in Client \ {c} PROVE HeldOn(d)
  <2>1. tr'[d] = tr[d] /\ TransportOK(d)
    BY DEF ConnOK
  <2>2. ASSUME NEW k \in Conn, tr[d].socket = k PROVE conn'[k] = conn[k]
    BY <2>1, <2>2, DaemonAssumption DEF TransportOK
  <2> QED BY <2>1, <2>2 DEF HeldOn
<1> QED BY <1>1

LEMMA ConnectKeeps ==
  ASSUME ConnOK, NEW c \in Client, NEW k \in Conn, Connect(c, k)
  PROVE  ConnOK' /\ Handling
<1>1. /\ bridge.up /\ tr[c].dialing = NoConn /\ ~tr[c].registered /\ conn[k].near = "unused"
      /\ conn' = [conn EXCEPT ![k].client = c, ![k].near = "connecting"]
      /\ tr' = [tr EXCEPT ![c].socket = k, ![c].dialing = k]
  BY DEF Connect
<1>2. /\ conn' \in [Conn -> Link]
      /\ conn'[k].client = c /\ conn'[k].near = "connecting"
      /\ conn'[k].far = conn[k].far /\ conn'[k].up = conn[k].up /\ conn'[k].down = conn[k].down
      /\ \A j \in Conn \ {k} : conn'[j] = conn[j]
  BY <1>1 DEF ConnOK, Link, Near
<1>3. /\ tr' \in [Client -> Transport]
      /\ tr'[c].socket = k /\ tr'[c].dialing = k /\ tr'[c].registered = tr[c].registered
      /\ \A d \in Client \ {c} : tr'[d] = tr[d]
  <2> DEFINE x == [tr[c] EXCEPT !.socket = k, !.dialing = k]
  <2>1. tr' = [tr EXCEPT ![c] = x]
    BY <1>1 DEF ConnOK
  <2>2. x \in Transport
    BY DEF ConnOK, Transport
  <2>3. x.socket = k /\ x.dialing = k /\ x.registered = tr[c].registered
    BY DEF ConnOK, Transport
  <2> HIDE DEF x
  <2> QED BY <2>1, <2>2, <2>3 DEF ConnOK
<1>4. conn[k].client = NoClient /\ conn[k].far = "unused" /\ conn[k].up = <<>> /\ conn[k].down = <<>>
  BY <1>1 DEF ConnOK, WireOK
<1>5. WireOK(k)'
  BY <1>2, <1>3, <1>4, DaemonAssumption DEF WireOK
<1>6. ASSUME NEW j \in Conn \ {k}, conn'[j].client = c PROVE WireOK(j)'
  <2>1. conn'[j] = conn[j] /\ WireOK(j) /\ conn[j].client = c
    BY <1>2, <1>6 DEF ConnOK
  <2>2. conn[j].near \notin {"connecting", "open", "aborted"}
    BY <1>1, <2>1, DaemonAssumption DEF WireOK
  <2> QED BY <2>1, <2>2 DEF WireOK
<1>7. TransportOK(c)'
  BY <1>1, <1>2, <1>3, DaemonAssumption DEF TransportOK, Settling
<1>8. ConnOK'
  BY <1>2, <1>3, <1>4, <1>5, <1>6, <1>7, LocalKeepsConn
<1>9. \A j \in Conn : Handled(j)
  BY <1>1, <1>2, <1>4 DEF Handled, Gone
<1>10. HeldOn(c)
  BY <1>2, <1>3, <1>4 DEF HeldOn
<1> QED BY <1>2, <1>3, <1>4, <1>8, <1>9, <1>10, OthersHold DEF Handling

LEMMA ClientOf ==
  ASSUME ConnOK, NEW k \in Conn, conn[k].near # "unused"
  PROVE  conn[k].client \in Client
BY DEF ConnOK, WireOK, Link

LEMMA RegisterType == <<[type |-> "register"]>> \in Seq(UpLine)
<1>1. [type |-> "register"] \in UpLine
  BY DEF UpLine
<1> QED BY <1>1

LEMMA ConnectedKeeps ==
  ASSUME ConnOK, NEW k \in Conn, Connected(k)
  PROVE  ConnOK' /\ Handling
<1> DEFINE c == conn[k].client
<1> DEFINE far == IF Cardinality(Registered) >= MaxClients THEN "closed" ELSE "anon"
<1> DEFINE x == [conn[k] EXCEPT !.near = "open", !.up = <<[type |-> "register"]>>, !.far = far]
<1>1. /\ conn[k].near = "connecting" /\ UNCHANGED tr
      /\ conn' = [conn EXCEPT ![k] = x]
  BY DEF Connected, ConnOK
<1>2. c \in Client
  BY <1>1, ClientOf
<1>3. far \in {"anon", "closed"}
  OBVIOUS
<1> HIDE DEF far
<1>4. conn[k] \in Link
  BY DEF ConnOK
<1>5. /\ x \in Link
      /\ x.client = c /\ x.near = "open" /\ x.far \in {"anon", "closed"}
      /\ x.up = <<[type |-> "register"]>> /\ x.down = conn[k].down
  BY <1>3, <1>4, RegisterType DEF Link, Near, Far
<1>6. /\ conn' \in [Conn -> Link] /\ conn'[k] = x
      /\ \A j \in Conn \ {k} : conn'[j] = conn[j]
  <2> HIDE DEF x
  <2> QED BY <1>1, <1>5 DEF ConnOK
<1> HIDE DEF x
<1>7. WireOK(k) /\ TransportOK(c)
  BY <1>2 DEF ConnOK
<1>8. /\ conn[k].far = "unused" /\ conn[k].down = <<>> /\ tr[c].socket = k /\ tr[c].dialing = k
  BY <1>1, <1>7 DEF WireOK
<1>9. WireOK(k)'
  BY <1>1, <1>2, <1>5, <1>6, <1>8, DaemonAssumption DEF WireOK
<1>10. ASSUME NEW j \in Conn \ {k} PROVE WireOK(j)'
  BY <1>1, <1>6 DEF ConnOK, WireOK
<1>11. ~tr[c].registered
  BY <1>7, <1>8, DaemonAssumption DEF TransportOK
<1>12. Settling(k)'
  <2>1. x.up # <<>> /\ Head(x.up).type = "register"
    BY <1>5
  <2> QED BY <1>5, <1>6, <2>1 DEF Settling
<1>13. TransportOK(c)'
  BY <1>1, <1>5, <1>6, <1>8, <1>11, <1>12 DEF TransportOK
<1>14. ConnOK'
  BY <1>1, <1>2, <1>5, <1>6, <1>9, <1>10, <1>13, LocalKeepsConn DEF ConnOK
<1>15. \A j \in Conn : Handled(j)
  BY <1>1, <1>5, <1>6, <1>8 DEF Handled, Gone
<1>16. \A d \in Client : HeldOn(d)
  BY <1>1, <1>5, <1>6 DEF HeldOn
<1> QED BY <1>14, <1>15, <1>16 DEF Handling

LEMMA RefusedKeeps ==
  ASSUME ConnOK, NEW k \in Conn, Refused(k)
  PROVE  ConnOK' /\ Handling
<1> DEFINE c == conn[k].client
<1> DEFINE x == [conn[k] EXCEPT !.near = "closed"]
<1> DEFINE t == [tr[c] EXCEPT !.dialing = NoConn]
<1>1. conn[k].near = "connecting"
  BY DEF Refused
<1>2. c \in Client
  BY <1>1, ClientOf
<1>3. conn' = [conn EXCEPT ![k] = x] /\ tr' = [tr EXCEPT ![c] = t]
  BY <1>2 DEF Refused, ConnOK
<1>4. conn[k] \in Link /\ tr[c] \in Transport
  BY <1>2 DEF ConnOK
<1>5. /\ x \in Link
      /\ x.client = c /\ x.near = "closed" /\ x.far = conn[k].far /\ x.up = conn[k].up /\ x.down = conn[k].down
  BY <1>4 DEF Link, Near
<1>6. t \in Transport /\ t.socket = tr[c].socket /\ t.dialing = NoConn /\ t.registered = tr[c].registered
  BY <1>4 DEF Transport
<1>6a. t.held = tr[c].held
  BY <1>4 DEF Transport
<1> HIDE DEF x, t
<1>7. /\ conn' \in [Conn -> Link] /\ conn'[k] = x
      /\ \A j \in Conn \ {k} : conn'[j] = conn[j]
      /\ tr' \in [Client -> Transport] /\ tr'[c] = t
      /\ \A d \in Client \ {c} : tr'[d] = tr[d]
  BY <1>2, <1>3, <1>5, <1>6 DEF ConnOK
<1>8. WireOK(k) /\ TransportOK(c)
  BY <1>2 DEF ConnOK
<1>9. /\ conn[k].far = "unused" /\ conn[k].up = <<>> /\ conn[k].down = <<>>
      /\ tr[c].socket = k /\ tr[c].dialing = k
  BY <1>1, <1>8 DEF WireOK
<1>10. ~tr[c].registered
  BY <1>8, <1>9, DaemonAssumption DEF TransportOK
<1>11. WireOK(k)'
  BY <1>2, <1>5, <1>7, <1>9, DaemonAssumption DEF WireOK
<1>12. ASSUME NEW j \in Conn \ {k}, conn'[j].client = c PROVE WireOK(j)'
  <2>1. conn'[j] = conn[j] /\ WireOK(j) /\ conn[j].client = c
    BY <1>7, <1>12 DEF ConnOK
  <2>2. conn[j].near \notin {"connecting", "open", "aborted"}
    BY <1>9, <2>1 DEF WireOK
  <2> QED BY <2>1, <2>2 DEF WireOK
<1>13. TransportOK(c)'
  BY <1>5, <1>6, <1>7, <1>9, <1>10 DEF TransportOK
<1>14. ConnOK'
  BY <1>2, <1>5, <1>7, <1>11, <1>12, <1>13, LocalKeepsConn DEF ConnOK
<1>15. \A j \in Conn : Handled(j)
  BY <1>1, <1>2, <1>5, <1>7 DEF Handled, Gone
<1>16. \A d \in Client : HeldOn(d)
  BY <1>5, <1>6, <1>6a, <1>7 DEF HeldOn
<1> QED BY <1>14, <1>15, <1>16 DEF Handling

(* cleanup(): the socket the transport holds falls, and with it whatever   *)
(* was connecting or open; a connect() that still waits is settled later.  *)
Falls(j, c) ==
  /\ conn'[j].client = conn[j].client /\ conn'[j].far = conn[j].far
  /\ conn'[j].up = conn[j].up \/ conn[j].far # "unused"
  /\ conn'[j].down \in {conn[j].down, <<>>}
  /\ IF conn'[j].near = "closed"
     THEN conn[j].near # "unused" /\ (tr'[c].dialing = j => conn[j].near = "closed")
     ELSE conn'[j].near = (IF j = tr[c].socket THEN Fallen(conn[j].near) ELSE conn[j].near)

LEMMA CleanupKeeps ==
  ASSUME ConnOK, NEW c \in Client, conn' \in [Conn -> Link], tr' \in [Client -> Transport],
         tr'[c].socket = NoConn, tr'[c].registered = FALSE,
         tr'[c].dialing \in {NoConn, tr[c].dialing},
         \A d \in Client \ {c} : tr'[d] = tr[d],
         \A j \in Conn : conn[j].client # c => conn'[j] = conn[j],
         \A j \in Conn : conn[j].client = c => Falls(j, c),
         \A j \in Conn : tr'[c].dialing # tr[c].dialing /\ tr[c].dialing = j => conn'[j].near # "aborted"
  PROVE  ConnOK' /\ Handling
<1>0. c # NoClient
  BY DaemonAssumption
<1>1. ASSUME NEW j \in Conn, conn[j].client = c PROVE WireOK(j)'
  <2>1. WireOK(j) /\ Falls(j, c)
    BY <1>1 DEF ConnOK
  <2>2. conn[j].near \in Near
    BY DEF ConnOK, Link
  <2>3. conn[j].near \in {"connecting", "open"} => j = tr[c].socket
    BY <1>1, <2>1 DEF WireOK
  <2>4. conn'[j].near \notin {"connecting", "open", "unused"}
    BY <1>0, <1>1, <2>1, <2>2, <2>3 DEF Falls, Fallen, WireOK, Near
  <2>5. conn'[j].near = "aborted" => tr'[c].dialing = j
    <3>1. SUFFICES ASSUME conn'[j].near = "aborted" PROVE tr'[c].dialing = j
      OBVIOUS
    <3>2. conn[j].near \in {"connecting", "aborted"}
      BY <2>1, <3>1 DEF Falls, Fallen
    <3>3. tr[c].dialing = j
      BY <1>1, <2>1, <3>2 DEF WireOK
    <3> QED BY <3>1, <3>3
  <2> QED BY <1>0, <1>1, <2>1, <2>4, <2>5 DEF WireOK, Falls
<1>2. TransportOK(c)'
  <2>1. ASSUME NEW j \in Conn, tr'[c].dialing = j PROVE conn'[j].client = c /\ Settling(j)'
    <3>1. j # NoConn /\ tr[c].dialing = j
      BY <2>1, DaemonAssumption
    <3>2. conn[j].client = c /\ Settling(j) /\ WireOK(j)
      BY <3>1 DEF ConnOK, TransportOK
    <3>3. Falls(j, c)
      BY <3>2
    <3>4. conn[j].near = "open" => j = tr[c].socket
      BY <3>2 DEF WireOK
    <3>5. conn'[j].near \in {"connecting", "aborted", "closing"}
      BY <2>1, <3>2, <3>3, <3>4 DEF Settling, Falls, Fallen
    <3> QED BY <3>2, <3>3, <3>5 DEF Settling, Falls
  <2>2. tr'[c].dialing \in Conn \cup {NoConn}
    BY DEF Transport
  <2>3. ~tr'[c].registered
    OBVIOUS
  <2> QED BY <2>1, <2>2, <2>3 DEF TransportOK
<1>3. \A j \in Conn : conn'[j] = conn[j] \/ (conn'[j].client = c /\ conn[j].client \in {c, NoClient})
  BY DEF Falls
<1>4. \A j \in Conn : conn'[j].client = c => WireOK(j)'
  BY <1>1
<1>5. ConnOK'
  BY <1>2, <1>3, <1>4, LocalKeepsConn
<1>6. ASSUME NEW j \in Conn PROVE Handled(j)
  <2>1. CASE conn[j].client # c
    BY <2>1 DEF Handled
  <2>2. CASE conn[j].client = c
    <3>1. Falls(j, c)
      BY <2>2
    <3> QED BY <3>1 DEF Handled, Falls, Fallen, Gone
  <2> QED BY <2>1, <2>2
<1>7. HeldOn(c)
  BY DaemonAssumption DEF HeldOn
<1> QED BY <1>3, <1>5, <1>6, <1>7, OthersHold DEF Handling

LEMMA DestroyedRest ==
  ASSUME ConnOK, NEW s \in Conn \cup {NoConn}
  PROVE  /\ Destroyed(s) \in [Conn -> Link]
         /\ \A j \in Conn :
              /\ Destroyed(s)[j].client = conn[j].client /\ Destroyed(s)[j].far = conn[j].far
              /\ Destroyed(s)[j].up = conn[j].up
              /\ Destroyed(s)[j].near = IF j = s THEN Fallen(conn[j].near) ELSE conn[j].near
              /\ Destroyed(s)[j].down = IF j = s THEN <<>> ELSE conn[j].down
              /\ j # s => Destroyed(s)[j] = conn[j]
<1>1. \A j \in Conn : j # s => Destroyed(s)[j] = conn[j]
  BY DEF Destroyed, ConnOK
<1> QED BY <1>1, DestroyedEffect DEF ConnOK

LEMMA ConnectTimeoutKeeps ==
  ASSUME ConnOK, NEW k \in Conn, ConnectTimeout(k)
  PROVE  ConnOK' /\ Handling
<1> DEFINE c == conn[k].client
<1> DEFINE s == tr[c].socket
<1> DEFINE t == [Cleaned(c) EXCEPT !.dialing = NoConn]
<1> DEFINE x == [Destroyed(s)[k] EXCEPT !.near = "closed"]
<1>1. conn[k].near \in {"connecting", "aborted"} /\ tr[c].dialing = k
  BY DEF ConnectTimeout
<1>2. c \in Client /\ c # NoClient
  BY <1>1, ClientOf, DaemonAssumption
<1>3. s \in Conn \cup {NoConn} /\ (s # NoConn => conn[s].client = c)
  BY <1>2 DEF ConnOK, Transport, TransportOK
<1>4. /\ Destroyed(s) \in [Conn -> Link]
      /\ \A j \in Conn :
           /\ Destroyed(s)[j].client = conn[j].client /\ Destroyed(s)[j].far = conn[j].far
           /\ Destroyed(s)[j].up = conn[j].up
           /\ Destroyed(s)[j].near = IF j = s THEN Fallen(conn[j].near) ELSE conn[j].near
           /\ Destroyed(s)[j].down = IF j = s THEN <<>> ELSE conn[j].down
           /\ j # s => Destroyed(s)[j] = conn[j]
  <2> HIDE DEF s
  <2> QED BY <1>3, DestroyedRest
<1>5. conn' = [Destroyed(s) EXCEPT ![k] = x] /\ tr' = [tr EXCEPT ![c] = t]
  BY <1>4 DEF ConnectTimeout
<1>6. /\ x \in Link /\ x.near = "closed" /\ x.client = c /\ x.far = conn[k].far /\ x.up = conn[k].up
      /\ x.down = Destroyed(s)[k].down
  <2>1. Destroyed(s)[k] \in Link
    BY <1>4
  <2> HIDE DEF s
  <2> QED BY <1>4, <2>1 DEF Link, Near
<1>7. t \in Transport /\ t.socket = NoConn /\ t.registered = FALSE /\ t.dialing = NoConn
  <2>1. Cleaned(c) \in Transport /\ Cleaned(c).socket = NoConn /\ Cleaned(c).registered = FALSE
    BY <1>2, CleanedEffect DEF ConnOK
  <2> QED BY <2>1 DEF Transport
<1> HIDE DEF x, t, s
<1>8. /\ conn' \in [Conn -> Link] /\ conn'[k] = x /\ \A j \in Conn \ {k} : conn'[j] = Destroyed(s)[j]
      /\ tr' \in [Client -> Transport] /\ tr'[c] = t /\ \A d \in Client \ {c} : tr'[d] = tr[d]
  BY <1>2, <1>4, <1>5, <1>6, <1>7 DEF ConnOK
<1>9. \A j \in Conn : conn[j].client # c => conn'[j] = conn[j]
  BY <1>3, <1>4, <1>8, DaemonAssumption
<1>10. ASSUME NEW j \in Conn, conn[j].client = c PROVE Falls(j, c)
  <2>1. WireOK(j) /\ s = tr[c].socket
    BY DEF ConnOK, s
  <2>2. CASE j = k
    <3>1. conn'[j] = x /\ tr'[c].dialing = NoConn /\ j # NoConn
      BY <1>7, <1>8, <2>2, DaemonAssumption
    <3>2. x.client = conn[j].client /\ x.far = conn[j].far /\ x.up = conn[j].up /\ x.down \in {conn[j].down, <<>>}
      BY <1>4, <1>6, <2>2
    <3> QED BY <1>1, <1>6, <2>2, <3>1, <3>2 DEF Falls
  <2>3. CASE j # k
    <3>1. conn'[j] = Destroyed(s)[j] /\ tr'[c].dialing = NoConn
      BY <1>7, <1>8, <2>3
    <3>2. j # NoConn
      BY DaemonAssumption
    <3>3. conn[j].near = "unused" <=> conn[j].client = NoClient
      BY <2>1 DEF WireOK
    <3>4. conn'[j].near = IF j = tr[c].socket THEN Fallen(conn[j].near) ELSE conn[j].near
      BY <1>4, <2>1, <3>1
    <3> QED BY <1>2, <1>4, <1>10, <3>1, <3>2, <3>3, <3>4 DEF Falls
  <2> QED BY <2>2, <2>3
<1>11. \A j \in Conn : tr'[c].dialing # tr[c].dialing /\ tr[c].dialing = j => conn'[j].near # "aborted"
  BY <1>1, <1>6, <1>8
<1> QED BY <1>2, <1>7, <1>8, <1>9, <1>10, <1>11, CleanupKeeps

LEMMA SocketClosedKeeps ==
  ASSUME ConnOK, NEW k \in Conn, SocketClosed(k)
  PROVE  ConnOK' /\ Handling
<1> DEFINE c == conn[k].client
<1> DEFINE s == tr[c].socket
<1> DEFINE dialing == IF tr[c].dialing = k THEN NoConn ELSE tr[c].dialing
<1> DEFINE t == [Cleaned(c) EXCEPT !.dialing = dialing]
<1> DEFINE x == [Destroyed(s)[k] EXCEPT !.near = "closed", !.down = <<>>]
<1>1. conn[k].near \in {"closing", "open"}
  BY DEF SocketClosed
<1>2. c \in Client /\ c # NoClient
  BY <1>1, ClientOf, DaemonAssumption
<1>3. s \in Conn \cup {NoConn} /\ (s # NoConn => conn[s].client = c)
  BY <1>2 DEF ConnOK, Transport, TransportOK
<1>4. /\ Destroyed(s) \in [Conn -> Link]
      /\ \A j \in Conn :
           /\ Destroyed(s)[j].client = conn[j].client /\ Destroyed(s)[j].far = conn[j].far
           /\ Destroyed(s)[j].up = conn[j].up
           /\ Destroyed(s)[j].near = IF j = s THEN Fallen(conn[j].near) ELSE conn[j].near
           /\ Destroyed(s)[j].down = IF j = s THEN <<>> ELSE conn[j].down
           /\ j # s => Destroyed(s)[j] = conn[j]
  <2> HIDE DEF s
  <2> QED BY <1>3, DestroyedRest
<1>5. Cleaned(c) \in Transport /\ Cleaned(c).socket = NoConn /\ Cleaned(c).registered = FALSE
      /\ Cleaned(c).dialing = tr[c].dialing
  BY <1>2, CleanedEffect DEF ConnOK
<1>6. conn' = [Destroyed(s) EXCEPT ![k] = x] /\ tr' = [tr EXCEPT ![c] = t]
  <2>1. t = [Cleaned(c) EXCEPT !.dialing = IF @ = k THEN NoConn ELSE @]
    BY <1>5 DEF Transport
  <2>2. x = [Destroyed(s)[k] EXCEPT !.near = "closed", !.down = <<>>]
    OBVIOUS
  <2>3. tr' = [tr EXCEPT ![c] = [Cleaned(c) EXCEPT !.dialing = IF @ = k THEN NoConn ELSE @]]
    BY DEF SocketClosed
  <2>4. conn' = [Destroyed(s) EXCEPT ![k].near = "closed", ![k].down = <<>>]
    BY DEF SocketClosed
  <2>5. conn' = [Destroyed(s) EXCEPT ![k] = [Destroyed(s)[k] EXCEPT !.near = "closed", !.down = <<>>]]
    <3> HIDE DEF s, c
    <3> QED BY <1>4, <2>4
  <2> QED BY <2>1, <2>3, <2>5
<1>7. /\ x \in Link /\ x.near = "closed" /\ x.client = c /\ x.far = conn[k].far /\ x.up = conn[k].up
      /\ x.down = <<>>
  <2>1. Destroyed(s)[k] \in Link /\ <<>> \in Seq(Line)
    BY <1>4, EmptySeq
  <2> HIDE DEF s
  <2> QED BY <1>4, <2>1 DEF Link, Near
<1>8. t \in Transport /\ t.socket = NoConn /\ t.registered = FALSE /\ t.dialing = dialing
  <2>1. dialing \in Conn \cup {NoConn}
    BY <1>2 DEF ConnOK, Transport
  <2> HIDE DEF dialing
  <2> QED BY <1>5, <2>1 DEF Transport
<1> HIDE DEF x, t, s
<1>9. /\ conn' \in [Conn -> Link] /\ conn'[k] = x /\ \A j \in Conn \ {k} : conn'[j] = Destroyed(s)[j]
      /\ tr' \in [Client -> Transport] /\ tr'[c] = t /\ \A d \in Client \ {c} : tr'[d] = tr[d]
  BY <1>2, <1>4, <1>6, <1>7, <1>8 DEF ConnOK
<1>10. \A j \in Conn : conn[j].client # c => conn'[j] = conn[j]
  BY <1>3, <1>4, <1>9, DaemonAssumption
<1>11. ASSUME NEW j \in Conn, conn[j].client = c PROVE Falls(j, c)
  <2>1. WireOK(j) /\ s = tr[c].socket
    BY DEF ConnOK, s
  <2>2. CASE j = k
    <3>1. conn'[j] = x /\ tr'[c].dialing # j
      BY <1>8, <1>9, <2>2, DaemonAssumption
    <3>2. x.client = conn[j].client /\ x.far = conn[j].far /\ x.up = conn[j].up /\ x.down = <<>>
      BY <1>7, <2>2
    <3> QED BY <1>1, <1>7, <2>2, <3>1, <3>2 DEF Falls
  <2>3. CASE j # k
    <3>1. conn'[j] = Destroyed(s)[j]
      BY <1>9, <2>3
    <3>2. conn[j].near = "unused" <=> conn[j].client = NoClient
      BY <2>1 DEF WireOK
    <3>3. conn'[j].near = IF j = tr[c].socket THEN Fallen(conn[j].near) ELSE conn[j].near
      BY <1>4, <2>1, <3>1
    <3>4. conn'[j].near = "closed" => conn[j].near = "closed"
      BY <3>3 DEF Fallen
    <3> QED BY <1>2, <1>4, <1>11, <3>1, <3>2, <3>3, <3>4 DEF Falls
  <2> QED BY <2>2, <2>3
<1>12. \A j \in Conn : tr'[c].dialing # tr[c].dialing /\ tr[c].dialing = j => conn'[j].near # "aborted"
  BY <1>7, <1>8, <1>9
<1>13. tr'[c].dialing \in {NoConn, tr[c].dialing}
  BY <1>8, <1>9
<1> QED BY <1>2, <1>8, <1>9, <1>10, <1>11, <1>12, <1>13, CleanupKeeps

LEMMA CloseKeeps ==
  ASSUME ConnOK, NEW c \in Client, Close(c)
  PROVE  ConnOK' /\ Handling
<1> DEFINE k == tr[c].socket
<1>1. k \in Conn /\ conn[k].client = c /\ c # NoClient
  BY DaemonAssumption DEF Close, ConnOK, Transport, TransportOK
<1>2. /\ Destroyed(k) \in [Conn -> Link]
      /\ \A j \in Conn :
           /\ Destroyed(k)[j].client = conn[j].client /\ Destroyed(k)[j].far = conn[j].far
           /\ Destroyed(k)[j].up = conn[j].up
           /\ Destroyed(k)[j].near = IF j = k THEN Fallen(conn[j].near) ELSE conn[j].near
           /\ Destroyed(k)[j].down = IF j = k THEN <<>> ELSE conn[j].down
           /\ j # k => Destroyed(k)[j] = conn[j]
  <2> HIDE DEF k
  <2> QED BY <1>1, DestroyedRest
<1>3. PICK up \in Seq(UpLine) :
        /\ conn' = [Destroyed(k) EXCEPT ![k].up = up]
        /\ up = conn[k].up \/ tr[c].registered
  <2>1. conn[k].up \in Seq(UpLine) /\ [type |-> "deregister"] \in UpLine
    BY <1>1 DEF ConnOK, Link, UpLine
  <2>2. Append(conn[k].up, [type |-> "deregister"]) \in Seq(UpLine)
    BY <2>1, AppendProperties
  <2>3. \E told \in {tr[c].registered} :
          conn' = [Destroyed(k) EXCEPT ![k].up = IF told THEN Append(@, [type |-> "deregister"]) ELSE @]
    BY DEF Close
  <2> HIDE DEF k
  <2>4. CASE tr[c].registered
    <3>1. conn' = [Destroyed(k) EXCEPT ![k].up = Append(Destroyed(k)[k].up, [type |-> "deregister"])]
      BY <1>1, <1>2, <2>3, <2>4
    <3> QED BY <1>1, <1>2, <2>2, <2>4, <3>1
  <2>5. CASE ~tr[c].registered
    <3>1. conn' = [Destroyed(k) EXCEPT ![k].up = Destroyed(k)[k].up]
      BY <1>1, <1>2, <2>3, <2>5
    <3> QED BY <1>1, <1>2, <2>1, <3>1
  <2> QED BY <2>4, <2>5
<1> DEFINE x == [Destroyed(k)[k] EXCEPT !.up = up]
<1>4. /\ x \in Link /\ x.client = c /\ x.far = conn[k].far /\ x.up = up
      /\ x.down = <<>> /\ x.near = Fallen(conn[k].near)
  <2>1. Destroyed(k)[k] \in Link
    BY <1>1, <1>2
  <2> HIDE DEF k
  <2> QED BY <1>1, <1>2, <2>1 DEF Link
<1>5. tr' = [tr EXCEPT ![c] = Cleaned(c)]
  BY DEF Close
<1>6. Cleaned(c) \in Transport /\ Cleaned(c).socket = NoConn /\ Cleaned(c).registered = FALSE
      /\ Cleaned(c).dialing = tr[c].dialing
  BY CleanedEffect DEF ConnOK
<1>7. conn' = [Destroyed(k) EXCEPT ![k] = x]
  <2> HIDE DEF k
  <2> QED BY <1>1, <1>2, <1>3
<1>8. tr[c].registered => conn[k].far # "unused"
  <2>1. WireOK(k) /\ TransportOK(c)
    BY <1>1 DEF ConnOK
  <2> QED BY <1>1, <2>1, DaemonAssumption DEF WireOK, TransportOK
<1> HIDE DEF x, k
<1>9. /\ conn' \in [Conn -> Link] /\ conn'[k] = x /\ \A j \in Conn \ {k} : conn'[j] = conn[j]
      /\ tr' \in [Client -> Transport] /\ tr'[c] = Cleaned(c) /\ \A d \in Client \ {c} : tr'[d] = tr[d]
  BY <1>1, <1>2, <1>4, <1>5, <1>6, <1>7 DEF ConnOK
<1>10. ASSUME NEW j \in Conn, conn[j].client = c PROVE Falls(j, c)
  <2>1. WireOK(j) /\ k = tr[c].socket
    BY DEF ConnOK, k
  <2>2. conn[j].near # "unused"
    BY <1>1, <1>10, <2>1 DEF WireOK
  <2>3. CASE j = k
    <3>1. conn'[j].near = "closed" => conn[j].near = "closed"
      BY <1>4, <1>9, <2>3 DEF Fallen
    <3>2. conn'[j] = x
      BY <1>9, <2>3
    <3>3. conn'[j].near = IF j = tr[c].socket THEN Fallen(conn[j].near) ELSE conn[j].near
      BY <1>4, <2>1, <2>3, <3>2
    <3>4. conn'[j].up = conn[j].up \/ conn[j].far # "unused"
      BY <1>3, <1>4, <1>8, <2>3, <3>2
    <3> QED BY <1>4, <1>10, <2>2, <2>3, <3>1, <3>2, <3>3, <3>4 DEF Falls
  <2>4. CASE j # k
    BY <1>9, <2>1, <2>2, <2>4 DEF Falls
  <2> QED BY <2>3, <2>4
<1>11. tr'[c].dialing = tr[c].dialing /\ tr'[c].socket = NoConn /\ tr'[c].registered = FALSE
  BY <1>6, <1>9
<1>12. \A j \in Conn : conn[j].client # c => conn'[j] = conn[j]
  BY <1>1, <1>9
<1> QED BY <1>1, <1>9, <1>10, <1>11, <1>12, CleanupKeeps

LEMMA AskKeeps ==
  ASSUME ConnOK, NEW c \in Client, NEW does \in {"attach", "call", "detach"},
         NEW s \in Session \cup {NoSession}, Ask(c, does, s)
  PROVE  ConnOK' /\ Handling
<1> DEFINE k == tr[c].socket
<1> DEFINE req == [id |-> tr[c].next, does |-> does, session |-> s]
<1> DEFINE line == [type |-> "request", req |-> req]
<1> DEFINE x == [conn[k] EXCEPT !.up = Append(@, line)]
<1> DEFINE t == [tr[c] EXCEPT !.pending = @ \cup {req.id}, !.next = @ + 1]
<1>1. tr[c].registered /\ conn[k].near = "open" /\ tr[c].next <= MaxRequests
  BY DEF Ask
<1>2. TransportOK(c) /\ tr[c] \in Transport
  BY DEF ConnOK
<1>3. k \in Conn /\ conn[k].client = c /\ tr[c].dialing = NoConn
  BY <1>1, <1>2 DEF TransportOK, Transport
<1>4. MaxRequests \in Nat /\ tr[c].next \in 1..MaxRequests /\ tr[c].next + 1 \in 1..MaxRequests + 1
  BY <1>1, <1>2, DaemonAssumption DEF Transport
<1>5. req \in Request
  BY <1>4 DEF Request
<1>6. line \in UpLine
  BY <1>5 DEF UpLine
<1>7. conn' = [conn EXCEPT ![k] = x] /\ tr' = [tr EXCEPT ![c] = t]
  BY <1>3 DEF Ask, ConnOK
<1>8. conn[k] \in Link /\ WireOK(k)
  BY <1>3 DEF ConnOK
<1>9. Append(conn[k].up, line) \in Seq(UpLine)
  <2> HIDE DEF line
  <2> QED BY <1>6, <1>8, AppendProperties DEF Link
<1>10. /\ x \in Link /\ x.client = c /\ x.near = "open" /\ x.far = conn[k].far /\ x.down = conn[k].down
  <2> HIDE DEF line
  <2> QED BY <1>1, <1>3, <1>8, <1>9 DEF Link
<1>11. t \in Transport /\ t.socket = k /\ t.registered = tr[c].registered /\ t.dialing = tr[c].dialing
  BY <1>2, <1>4 DEF Transport
<1>11a. t.held = tr[c].held
  BY <1>2, <1>4 DEF Transport
<1> HIDE DEF x, t, k
<1>12. /\ conn' \in [Conn -> Link] /\ conn'[k] = x /\ \A j \in Conn \ {k} : conn'[j] = conn[j]
       /\ tr' \in [Client -> Transport] /\ tr'[c] = t /\ \A d \in Client \ {c} : tr'[d] = tr[d]
  BY <1>3, <1>7, <1>10, <1>11 DEF ConnOK
<1>13. ASSUME NEW j \in Conn, conn'[j].client = c PROVE WireOK(j)'
  <2>0. tr[c].socket = k
    BY DEF k
  <2>1. CASE j = k
    <3>1. conn[j].far # "unused" /\ c # NoClient
      BY <1>1, <1>8, <2>1, DaemonAssumption DEF WireOK, k
    <3> QED BY <1>1, <1>3, <1>8, <1>10, <1>11, <1>12, <2>0, <2>1, <3>1 DEF WireOK
  <2>2. CASE j # k
    <3>1. conn'[j] = conn[j] /\ WireOK(j) /\ conn[j].client = c
      BY <1>12, <1>13, <2>2 DEF ConnOK
    <3> QED BY <1>11, <1>12, <2>0, <3>1 DEF WireOK
  <2> QED BY <2>1, <2>2
<1>14. TransportOK(c)'
  BY <1>3, <1>10, <1>11, <1>12, DaemonAssumption DEF TransportOK
<1>15. ConnOK'
  BY <1>3, <1>10, <1>12, <1>13, <1>14, LocalKeepsConn
<1>16. \A j \in Conn : Handled(j)
  BY <1>1, <1>3, <1>10, <1>12 DEF Handled, Gone, k
<1>17. HeldOn(c)
  <2>1. tr[c].socket = k
    BY DEF k
  <2> QED BY <1>10, <1>11, <1>11a, <1>12, <2>1 DEF HeldOn
<1> QED BY <1>3, <1>10, <1>12, <1>15, <1>16, <1>17, OthersHold DEF Handling

LEMMA AskTimeoutKeeps ==
  ASSUME ConnOK, NEW c \in Client, NEW id \in 1..MaxRequests, AskTimeout(c, id)
  PROVE  ConnOK' /\ Handling
<1> DEFINE t == [tr[c] EXCEPT !.pending = @ \ {id}]
<1>1. tr' = [tr EXCEPT ![c] = t] /\ UNCHANGED conn
  BY DEF AskTimeout, ConnOK
<1>2. tr[c] \in Transport /\ TransportOK(c)
  BY DEF ConnOK
<1>3. /\ t \in Transport /\ t.socket = tr[c].socket /\ t.registered = tr[c].registered
      /\ t.dialing = tr[c].dialing /\ t.held = tr[c].held
  BY <1>2 DEF Transport
<1> HIDE DEF t
<1>4. tr' \in [Client -> Transport] /\ tr'[c] = t /\ \A d \in Client \ {c} : tr'[d] = tr[d]
  BY <1>1, <1>3 DEF ConnOK
<1>5. ASSUME NEW j \in Conn, conn'[j].client = c PROVE WireOK(j)'
  <2>1. conn'[j] = conn[j] /\ WireOK(j) /\ conn[j].client = c
    BY <1>1, <1>5 DEF ConnOK
  <2> QED BY <1>3, <1>4, <2>1 DEF WireOK
<1>6. TransportOK(c)'
  BY <1>1, <1>2, <1>3, <1>4 DEF TransportOK, Settling
<1>7. ConnOK'
  BY <1>1, <1>4, <1>5, <1>6, LocalKeepsConn DEF ConnOK
<1>8. \A j \in Conn : Handled(j)
  BY <1>1 DEF Handled
<1>9. \A d \in Client : HeldOn(d)
  BY <1>1, <1>3, <1>4 DEF HeldOn
<1> QED BY <1>7, <1>8, <1>9 DEF Handling

LEMMA LineTypes ==
  ASSUME NEW line \in Line
  PROVE  /\ line.type \in {"registered", "shutdown", "response", "event"}
         /\ line.type = "response" => line.id \in 1..MaxRequests /\ line.session \in Session \cup {NoSession}
BY DEF Line

(* The line that is read, and what is left of the ones behind it.          *)
LEMMA ReadLink ==
  ASSUME ConnOK, NEW k \in Conn, conn[k].down # <<>>,
         conn' = [conn EXCEPT ![k].down = Tail(@)]
  PROVE  /\ conn' \in [Conn -> Link]
         /\ conn'[k].client = conn[k].client /\ conn'[k].near = conn[k].near /\ conn'[k].far = conn[k].far
         /\ conn'[k].up = conn[k].up /\ conn'[k].down = Tail(conn[k].down)
         /\ \A j \in Conn \ {k} : conn'[j] = conn[j]
<1> DEFINE x == [conn[k] EXCEPT !.down = Tail(@)]
<1>1. conn' = [conn EXCEPT ![k] = x] /\ conn[k] \in Link
  BY DEF ConnOK
<1>2. Tail(conn[k].down) \in Seq(Line)
  BY <1>1, HeadTailProperties DEF Link
<1>3. /\ x \in Link /\ x.client = conn[k].client /\ x.near = conn[k].near /\ x.far = conn[k].far
      /\ x.up = conn[k].up /\ x.down = Tail(conn[k].down)
  BY <1>1, <1>2 DEF Link
<1> HIDE DEF x
<1> QED BY <1>1, <1>3 DEF ConnOK

(* A line that leaves the connection open: the registration settles the    *)
(* connect(), the others come after it.                                    *)
LEMMA ReadKeeps ==
  ASSUME ConnOK, NEW k \in Conn, conn[k].near = "open", conn[k].down # <<>>,
         conn' = [conn EXCEPT ![k].down = Tail(@)],
         tr' \in [Client -> Transport],
         \A d \in Client \ {conn[k].client} : tr'[d] = tr[d],
         tr'[conn[k].client].socket = tr[conn[k].client].socket,
         tr[conn[k].client].held \subseteq tr'[conn[k].client].held,
         Head(conn[k].down).type = "response" =>
           Head(conn[k].down).session \in tr'[conn[k].client].held \cup {NoSession},
         \/ /\ Head(conn[k].down).type # "registered"
            /\ tr'[conn[k].client].registered = tr[conn[k].client].registered
            /\ tr'[conn[k].client].dialing = tr[conn[k].client].dialing
         \/ /\ tr'[conn[k].client].registered = TRUE
            /\ tr'[conn[k].client].dialing = NoConn
  PROVE  ConnOK' /\ Handling
<1>1. PICK c \in Client : c = conn[k].client /\ c # NoClient
  BY ClientOf, DaemonAssumption
<1>2. WireOK(k) /\ TransportOK(c) /\ tr[c] \in Transport
  BY <1>1 DEF ConnOK
<1>3. tr[c].socket = k /\ (tr[c].dialing = k \/ tr[c].registered)
      /\ conn[k].far \notin {"unused", "anon"} /\ k # NoConn
  BY <1>1, <1>2, DaemonAssumption DEF WireOK
<1>4. /\ conn' \in [Conn -> Link]
      /\ conn'[k].client = c /\ conn'[k].near = "open" /\ conn'[k].far = conn[k].far
      /\ conn'[k].up = conn[k].up /\ conn'[k].down = Tail(conn[k].down)
      /\ \A j \in Conn \ {k} : conn'[j] = conn[j]
  BY <1>1, ReadLink
<1>5. tr[c].dialing \in {k, NoConn}
  BY <1>1, <1>2, <1>3 DEF TransportOK
<1>6. tr'[c].dialing = tr[c].dialing \/ tr'[c].dialing = NoConn
  BY <1>1
<1>7. tr'[c].dialing = k \/ tr'[c].registered
  BY <1>1, <1>3
<1>8. ASSUME NEW j \in Conn, conn'[j].client = c PROVE WireOK(j)'
  <2>1. CASE j = k
    BY <1>1, <1>2, <1>3, <1>4, <1>7, <2>1 DEF WireOK
  <2>2. CASE j # k
    <3>1. conn'[j] = conn[j] /\ WireOK(j) /\ conn[j].client = c
      BY <1>4, <1>8, <2>2 DEF ConnOK
    <3>2. conn[j].near \notin {"connecting", "open", "aborted"}
      BY <1>3, <1>5, <2>2, <3>1, DaemonAssumption DEF WireOK
    <3> QED BY <3>1, <3>2 DEF WireOK
  <2> QED BY <2>1, <2>2
<1>9. TransportOK(c)'
  <2>1. tr'[c].socket = k
    BY <1>1, <1>3
  <2>2. tr'[c].registered => tr'[c].dialing = NoConn
    <3>1. CASE tr'[c].registered = tr[c].registered /\ tr'[c].dialing = tr[c].dialing
      BY <1>2, <3>1 DEF TransportOK
    <3> QED BY <1>1, <3>1
  <2>3. tr'[c].dialing # NoConn => tr'[c].dialing = k /\ conn[k].far = "closed"
    <3>1. SUFFICES ASSUME tr'[c].dialing # NoConn PROVE tr'[c].dialing = k /\ conn[k].far = "closed"
      OBVIOUS
    <3>2. tr[c].dialing = k /\ tr'[c].dialing = k /\ Head(conn[k].down).type # "registered"
      BY <1>1, <1>5, <1>6, <3>1
    <3>3. Settling(k)
      BY <1>2, <1>3, <3>2 DEF TransportOK
    <3> QED BY <1>3, <3>2, <3>3 DEF Settling
  <2>4. conn'[k].client = c /\ conn'[k].near = "open" /\ k # NoConn
    BY <1>3, <1>4
  <2>5. CASE tr'[c].dialing = NoConn
    BY <2>1, <2>2, <2>4, <2>5 DEF TransportOK
  <2>6. CASE tr'[c].dialing # NoConn
    <3>1. tr'[c].dialing = k /\ conn'[k].far = "closed" /\ ~tr'[c].registered
      BY <1>4, <2>2, <2>3, <2>6
    <3> QED BY <2>1, <2>4, <3>1 DEF TransportOK, Settling
  <2> QED BY <2>5, <2>6
<1>10. ConnOK'
  BY <1>1, <1>4, <1>8, <1>9, LocalKeepsConn
<1>11. \A j \in Conn : Handled(j)
  BY <1>1, <1>4 DEF Handled, Gone
<1>12. HeldOn(c)
  BY <1>1, <1>3, <1>4 DEF HeldOn
<1> QED BY <1>1, <1>4, <1>10, <1>11, <1>12, OthersHold DEF Handling

LEMMA ReceiveKeeps ==
  ASSUME ConnOK, NEW k \in Conn, Receive(k)
  PROVE  ConnOK' /\ Handling
<1> DEFINE c == conn[k].client
<1> DEFINE line == Head(conn[k].down)
<1>1. conn[k].near = "open" /\ conn[k].down # <<>>
  BY DEF Receive
<1>2. c \in Client /\ c # NoClient
  BY <1>1, ClientOf, DaemonAssumption
<1>3. conn[k] \in Link /\ tr[c] \in Transport /\ tr[c].socket = k
  BY <1>1, <1>2 DEF ConnOK, WireOK
<1>4. line \in Line
  BY <1>1, <1>3, HeadTailProperties DEF Link
<1>5. /\ line.type \in {"registered", "shutdown", "response", "event"}
      /\ line.type = "response" => line.id \in 1..MaxRequests /\ line.session \in Session \cup {NoSession}
  BY <1>4, LineTypes
<1>6. CASE line.type = "registered"
  <2> DEFINE t == [tr[c] EXCEPT !.registered = TRUE, !.dialing = NoConn]
  <2>1. /\ tr' = [tr EXCEPT ![c] = t]
        /\ conn' = [conn EXCEPT ![k].down = Tail(@)]
    BY <1>2, <1>6 DEF Receive, ConnOK
  <2>2. t \in Transport /\ t.socket = tr[c].socket /\ t.registered = TRUE /\ t.dialing = NoConn
        /\ t.held = tr[c].held
    BY <1>3 DEF Transport
  <2> HIDE DEF t
  <2>3. /\ tr' \in [Client -> Transport] /\ tr'[c] = t
        /\ \A d \in Client \ {c} : tr'[d] = tr[d]
    BY <1>2, <2>1, <2>2 DEF ConnOK
  <2> QED BY <1>1, <1>6, <2>1, <2>2, <2>3, ReadKeeps
<1>7. CASE line.type = "shutdown"
  <2>1. tr' = [tr EXCEPT ![c] = Cleaned(c)] /\ conn' = Destroyed(k)
    BY <1>3, <1>7 DEF Receive
  <2>2. Cleaned(c) \in Transport /\ Cleaned(c).socket = NoConn /\ Cleaned(c).registered = FALSE
        /\ Cleaned(c).dialing = tr[c].dialing
    BY <1>2, CleanedEffect DEF ConnOK
  <2>3. /\ tr' \in [Client -> Transport] /\ tr'[c] = Cleaned(c)
        /\ \A d \in Client \ {c} : tr'[d] = tr[d]
    BY <1>2, <2>1, <2>2 DEF ConnOK
  <2>4. /\ conn' \in [Conn -> Link]
        /\ \A j \in Conn :
           /\ conn'[j].client = conn[j].client /\ conn'[j].far = conn[j].far
           /\ conn'[j].up = conn[j].up
           /\ conn'[j].near = IF j = k THEN Fallen(conn[j].near) ELSE conn[j].near
           /\ conn'[j].down = IF j = k THEN <<>> ELSE conn[j].down
           /\ j # k => conn'[j] = conn[j]
    BY <2>1, DestroyedRest
  <2>5. ASSUME NEW j \in Conn, conn[j].client = c PROVE Falls(j, c)
    <3>1. conn[j].near # "unused"
      BY <1>2, <2>5 DEF ConnOK, WireOK
    <3>2. conn'[j].near = "closed" => conn[j].near = "closed"
      BY <2>4 DEF Fallen
    <3> QED BY <1>3, <2>4, <2>5, <3>1, <3>2 DEF Falls
  <2>6. tr'[c].dialing = tr[c].dialing
    BY <2>2, <2>3
  <2> QED BY <1>2, <2>2, <2>3, <2>4, <2>5, <2>6, CleanupKeeps
<1>8. CASE line.type = "response"
  <2> DEFINE t == [tr[c] EXCEPT !.pending = @ \ {line.id}, !.held = @ \cup ({line.session} \ {NoSession})]
  <2>1. /\ tr' = [tr EXCEPT ![c] = t]
        /\ conn' = [conn EXCEPT ![k].down = Tail(@)]
    BY <1>2, <1>8 DEF Receive, ConnOK
  <2>2. t \in Transport /\ t.socket = tr[c].socket /\ t.registered = tr[c].registered
        /\ t.dialing = tr[c].dialing /\ t.held = tr[c].held \cup ({line.session} \ {NoSession})
    <3> HIDE DEF line
    <3> QED BY <1>3, <1>5, <1>8 DEF Transport
  <2> HIDE DEF t
  <2>3. /\ tr' \in [Client -> Transport] /\ tr'[c] = t
        /\ \A d \in Client \ {c} : tr'[d] = tr[d]
    BY <1>2, <2>1, <2>2 DEF ConnOK
  <2> QED BY <1>1, <1>8, <2>1, <2>2, <2>3, ReadKeeps
<1>9. CASE line.type = "event"
  <2>1. tr' = tr /\ conn' = [conn EXCEPT ![k].down = Tail(@)]
    BY <1>9 DEF Receive
  <2> QED BY <1>1, <1>9, <2>1, ReadKeeps DEF ConnOK
<1> QED BY <1>5, <1>6, <1>7, <1>8, <1>9

-----------------------------------------------------------------------------
(* What the daemon does to a connection: it sends lines to a client that   *)
(* is registered, or ends the connection.  The lines say whose answer they *)
(* are, and events go to the session's owner.                              *)
GoodLine(line, c) ==
  /\ line.type = "response" /\ line.of # NoConn => line.of.client = c /\ line.of.req.id = line.id
  /\ line.type = "event" /\ line.session # NoSession => router.owner[line.session] = c
Served(k) ==
  /\ conn'[k].client = conn[k].client /\ conn'[k].near = conn[k].near
  /\ \/ conn'[k].far = conn[k].far /\ conn'[k].up = conn[k].up
     \/ conn[k].far \in {"anon", "registered"} /\ conn'[k].far = "closed" /\ conn'[k].up = <<>>
  /\ \/ conn'[k].down = conn[k].down
     \/ /\ conn[k].far = "registered" /\ conn[k].near = "open"
        /\ \E more \in Seq(Line) :
             /\ conn'[k].down = conn[k].down \o more
             /\ \A i \in DOMAIN more : GoodLine(more[i], conn[k].client)

LEMMA HeadOfConcat ==
  ASSUME NEW s \in Seq(Line), NEW more \in Seq(Line), s # <<>>
  PROVE  s \o more # <<>> /\ Head(s \o more) = Head(s)
<1>1. Len(s) \in Nat \ {0} /\ Len(more) \in Nat
  BY EmptySeq, LenProperties
<1>2. Len(s \o more) = Len(s) + Len(more) /\ (s \o more)[1] = s[1] /\ s \o more \in Seq(Line)
  BY <1>1, ConcatProperties
<1>3. s \o more # <<>>
  BY <1>1, <1>2, EmptySeq
<1> QED BY <1>2, <1>3

LEMMA ServedKeeps ==
  ASSUME ConnOK, conn' \in [Conn -> Link], tr' = tr, \A k \in Conn : Served(k)
  PROVE  ConnOK'
<1>1. ASSUME NEW k \in Conn PROVE WireOK(k)'
  <2>1. WireOK(k) /\ Served(k)
    BY DEF ConnOK
  <2>2. conn'[k].far \in {"unused", "anon"} => conn'[k].down = <<>>
    BY <2>1 DEF WireOK, Served
  <2>3. conn'[k].far = "unused" => conn[k].far = "unused" /\ conn'[k].up = conn[k].up
    BY <2>1 DEF Served
  <2>4. conn[k].far = "unused" => conn'[k].far = "unused"
    BY <2>1 DEF Served
  <2>5. conn'[k].client = conn[k].client /\ conn'[k].near = conn[k].near
    BY <2>1 DEF Served
  <2> QED BY <2>1, <2>2, <2>3, <2>4, <2>5 DEF WireOK
<1>2. ASSUME NEW c \in Client PROVE TransportOK(c)'
  <2>1. TransportOK(c) /\ tr[c] \in Transport
    BY DEF ConnOK
  <2>2. ASSUME NEW k \in Conn, Settling(k) PROVE Settling(k)'
    <3>1. Served(k) /\ conn[k] \in Link
      BY DEF ConnOK
    <3>2. CASE conn'[k].far = conn[k].far /\ conn'[k].up = conn[k].up
      <4>1. conn[k].down # <<>> => conn'[k].down # <<>> /\ Head(conn'[k].down) = Head(conn[k].down)
        <5>1. CASE conn'[k].down = conn[k].down
          BY <5>1
        <5>2. CASE \E more \in Seq(Line) : conn'[k].down = conn[k].down \o more
          BY <3>1, <5>2, HeadOfConcat DEF Link
        <5> QED BY <3>1, <5>1, <5>2 DEF Served
      <4>2. conn'[k].near = conn[k].near
        BY <3>1 DEF Served
      <4> QED BY <2>2, <3>2, <4>1, <4>2 DEF Settling
    <3>3. CASE conn'[k].far = "closed"
      BY <2>2, <3>1, <3>3 DEF Settling, Served
    <3> QED BY <3>1, <3>2, <3>3 DEF Served
  <2>3. ASSUME NEW k \in Conn
        PROVE  /\ conn'[k].client = conn[k].client /\ conn'[k].near = conn[k].near
               /\ conn[k].far = "unused" => conn'[k].far = "unused"
    BY DEF Served
  <2>4. tr[c].dialing # NoConn => Settling(tr[c].dialing) /\ tr[c].dialing \in Conn
    BY <2>1 DEF TransportOK, Transport
  <2>5. ASSUME NEW k \in Conn, tr[c].dialing = k, k # NoConn PROVE Settling(k)'
    BY <2>1, <2>2, <2>5 DEF TransportOK
  <2>6. CASE tr[c].dialing = NoConn
    BY <2>1, <2>3, <2>6 DEF TransportOK, Transport
  <2>7. CASE tr[c].dialing # NoConn
    <3>1. PICK k \in Conn : k = tr[c].dialing
      BY <2>4, <2>7
    <3>2. Settling(k)' /\ conn'[k].client = c
      BY <2>1, <2>3, <2>5, <2>7, <3>1 DEF TransportOK
    <3>3. tr[c].socket # NoConn => tr[c].socket \in Conn
      BY <2>1 DEF Transport
    <3> QED BY <2>1, <2>3, <2>7, <3>1, <3>2, <3>3 DEF TransportOK, Settling
  <2> QED BY <2>6, <2>7
<1> QED BY <1>1, <1>2 DEF ConnOK

(* The daemon reads a line: a registration is answered first of all.       *)
ReadBy(k) ==
  /\ conn'[k].client = conn[k].client /\ conn'[k].near = conn[k].near
  /\ \/ conn'[k].far = conn[k].far /\ conn'[k].down = conn[k].down
     \/ /\ conn[k].far = "anon" /\ conn[k].down = <<>>
        /\ \/ conn'[k].far = "closed" /\ conn'[k].down = <<[type |-> "shutdown"]>>
           \/ conn'[k].far = "registered" /\ conn'[k].down = <<[type |-> "registered"]>>

LEMMA DaemonReadsKeeps ==
  ASSUME ConnOK, NEW k \in Conn, DaemonReads(k)
  PROVE  ConnOK' /\ ReadBy(k) /\ \A j \in Conn \ {k} : conn'[j] = conn[j]
<1> DEFINE line == Head(conn[k].up)
<1> DEFINE read == [conn EXCEPT ![k].up = Tail(@)]
<1>1. /\ conn[k].far \in {"anon", "registered"} /\ conn[k].up # <<>> /\ UNCHANGED tr
  BY DEF DaemonReads
<1>2. conn[k] \in Link /\ WireOK(k)
  BY DEF ConnOK
<1>3. Tail(conn[k].up) \in Seq(UpLine)
  BY <1>1, <1>2, HeadTailProperties DEF Link
<1>4. <<[type |-> "shutdown"]>> \in Seq(Line) /\ <<[type |-> "registered"]>> \in Seq(Line)
  <2>1. [type |-> "shutdown"] \in Line /\ [type |-> "registered"] \in Line
    BY DEF Line
  <2> QED BY <2>1
<1>5. PICK x \in Link :
        /\ conn' = [conn EXCEPT ![k] = x]
        /\ x.client = conn[k].client /\ x.near = conn[k].near
        /\ \/ x.far = conn[k].far /\ x.down = conn[k].down
              /\ ~(conn[k].far = "anon" /\ Head(conn[k].up).type = "register")
           \/ /\ conn[k].far = "anon"
              /\ \/ x.far = "closed" /\ x.down = <<[type |-> "shutdown"]>>
                 \/ x.far = "registered" /\ x.down = <<[type |-> "registered"]>>
  <2> DEFINE y == [conn[k] EXCEPT !.up = Tail(@)]
  <2> DEFINE refused == [y EXCEPT !.down = <<[type |-> "shutdown"]>>, !.far = "closed"]
  <2> DEFINE accepted == [y EXCEPT !.down = <<[type |-> "registered"]>>, !.far = "registered"]
  <2>1. y \in Link /\ y.client = conn[k].client /\ y.near = conn[k].near /\ y.far = conn[k].far
        /\ y.down = conn[k].down
    BY <1>2, <1>3 DEF Link
  <2>2. read = [conn EXCEPT ![k] = y] /\ read[k] = y
    BY <1>2 DEF ConnOK
  <2> HIDE DEF y
  <2>3. refused \in Link /\ refused.client = conn[k].client /\ refused.near = conn[k].near
        /\ refused.far = "closed" /\ refused.down = <<[type |-> "shutdown"]>>
    BY <1>4, <2>1 DEF Link, Far
  <2>4. accepted \in Link /\ accepted.client = conn[k].client /\ accepted.near = conn[k].near
        /\ accepted.far = "registered" /\ accepted.down = <<[type |-> "registered"]>>
    BY <1>4, <2>1 DEF Link, Far
  <2>5. CASE line.type = "register" /\ conn[k].far = "anon"
    <3>1. \/ conn' = [read EXCEPT ![k].down = <<[type |-> "shutdown"]>>, ![k].far = "closed"]
          \/ conn' = [read EXCEPT ![k].down = <<[type |-> "registered"]>>, ![k].far = "registered"]
      BY <2>5 DEF DaemonReads
    <3>2. conn' = [conn EXCEPT ![k] = refused] \/ conn' = [conn EXCEPT ![k] = accepted]
      <4> HIDE DEF read
      <4>1. read = [conn EXCEPT ![k] = y] /\ conn \in [Conn -> Link]
        BY <2>2 DEF ConnOK
      <4> QED BY <3>1, <4>1
    <3> HIDE DEF refused, accepted
    <3> QED BY <2>3, <2>4, <2>5, <3>2
  <2>6. CASE ~(line.type = "register" /\ conn[k].far = "anon")
    <3>1. conn' = read
      BY <2>6 DEF DaemonReads
    <3> HIDE DEF read
    <3> QED BY <2>1, <2>2, <2>6, <3>1
  <2> QED BY <2>5, <2>6
<1>6. conn' \in [Conn -> Link] /\ conn'[k] = x /\ \A j \in Conn \ {k} : conn'[j] = conn[j]
  BY <1>5 DEF ConnOK
<1>7. conn[k].far = "anon" => conn[k].down = <<>>
  BY <1>2 DEF WireOK
<1>8. ReadBy(k)
  BY <1>5, <1>6, <1>7 DEF ReadBy
<1>9. ASSUME NEW j \in Conn PROVE WireOK(j)'
  <2>1. CASE j = k
    <3>1. x.far # "unused" /\ (x.far = "anon" => x.down = <<>>)
      BY <1>1, <1>5, <1>7
    <3> QED BY <1>1, <1>2, <1>5, <1>6, <2>1, <3>1 DEF WireOK
  <2>2. CASE j # k
    BY <1>1, <1>6, <2>2 DEF ConnOK, WireOK
  <2> QED BY <2>1, <2>2
<1>10. ASSUME NEW j \in Conn, Settling(j) PROVE Settling(j)'
  <2>1. CASE j = k
    <3>1. x.near = conn[k].near
      BY <1>5
    <3>2. CASE conn[k].near # "open"
      BY <1>6, <1>10, <2>1, <3>1, <3>2 DEF Settling
    <3>3. CASE conn[k].near = "open" /\ conn[k].far = "anon"
      <4>1. Head(conn[k].up).type = "register"
        BY <1>10, <2>1, <3>3 DEF Settling
      <4>2. \/ x.far = "closed"
            \/ x.far = "registered" /\ x.down = <<[type |-> "registered"]>>
        BY <1>5, <3>3, <4>1
      <4> QED BY <1>6, <2>1, <3>1, <3>3, <4>2 DEF Settling
    <3>4. CASE conn[k].near = "open" /\ conn[k].far # "anon"
      <4>1. x.far = conn[k].far /\ x.down = conn[k].down
        BY <1>5, <3>4
      <4> QED BY <1>6, <1>10, <2>1, <3>1, <3>4, <4>1 DEF Settling
    <3> QED BY <3>2, <3>3, <3>4
  <2>2. CASE j # k
    BY <1>6, <1>10, <2>2 DEF Settling
  <2> QED BY <2>1, <2>2
<1>11. ASSUME NEW c \in Client PROVE TransportOK(c)'
  <2>1. TransportOK(c) /\ tr[c] \in Transport
    BY DEF ConnOK
  <2>2. \A j \in Conn : /\ conn'[j].client = conn[j].client /\ conn'[j].near = conn[j].near
                        /\ conn[j].far = "unused" => conn'[j].far = "unused"
    BY <1>1, <1>5, <1>6
  <2>3. CASE tr[c].dialing = NoConn
    BY <1>1, <2>1, <2>2, <2>3 DEF TransportOK, Transport
  <2>4. CASE tr[c].dialing # NoConn
    <3>1. PICK j \in Conn : j = tr[c].dialing
      BY <2>1, <2>4 DEF Transport
    <3>2. Settling(j)' /\ conn'[j].client = c
      BY <1>10, <2>1, <2>2, <2>4, <3>1 DEF TransportOK
    <3>3. tr[c].socket # NoConn => tr[c].socket \in Conn
      BY <2>1 DEF Transport
    <3> QED BY <1>1, <2>1, <2>2, <2>4, <3>1, <3>2, <3>3 DEF TransportOK, Settling
  <2> QED BY <2>3, <2>4
<1>12. ConnOK'
  BY <1>1, <1>6, <1>9, <1>11 DEF ConnOK
<1> QED BY <1>6, <1>8, <1>12

RouterOK == router \in [owner : [Session -> Client \cup {NoClient}], listed : SUBSET Client]

LEMMA SentServes ==
  ASSUME ConnOK, NEW D \in SUBSET Client, NEW L \in [D -> Seq(Line)], conn' = Sent(L),
         \A c \in D : \A i \in DOMAIN L[c] : GoodLine(L[c][i], c)
  PROVE  conn' \in [Conn -> Link] /\ \A k \in Conn : Served(k)
<1>1. /\ conn' \in [Conn -> Link]
      /\ \A k \in Conn :
           /\ conn'[k].client = conn[k].client /\ conn'[k].near = conn[k].near
           /\ conn'[k].far = conn[k].far /\ conn'[k].up = conn[k].up
           /\ conn'[k].down = IF Hears(k, D) THEN conn[k].down \o L[conn[k].client] ELSE conn[k].down
  BY SentEffect DEF ConnOK
<1>2. ASSUME NEW k \in Conn, Hears(k, D) PROVE Served(k)
  <2>1. conn[k].client \in D /\ conn[k].far = "registered" /\ conn[k].near = "open"
    BY <1>2 DEF Hears, Registered
  <2>2. L[conn[k].client] \in Seq(Line)
    BY <2>1
  <2>3. conn'[k].down = conn[k].down \o L[conn[k].client]
    BY <1>1, <1>2
  <2>4. \A i \in DOMAIN L[conn[k].client] : GoodLine(L[conn[k].client][i], conn[k].client)
    BY <2>1
  <2> HIDE DEF GoodLine
  <2> QED BY <1>1, <2>1, <2>2, <2>3, <2>4 DEF Served
<1>3. ASSUME NEW k \in Conn, ~Hears(k, D) PROVE Served(k)
  BY <1>1, <1>3 DEF Served
<1> QED BY <1>1, <1>2, <1>3

LEMMA FailureIsGood ==
  ASSUME NEW id \in 1..MaxRequests, NEW c \in Client
  PROVE  GoodLine(Failure(id), c)
BY DEF Failure, GoodLine

(* The lines of a rejection.                                               *)
LEMMA RejectedLines ==
  ASSUME MuxOK, NEW E \in SUBSET mux.inFlight, NEW close \in BOOLEAN, NEW c \in Client
  PROVE  LET lines == Rejections(E, c) \o (IF close THEN <<[type |-> "shutdown"]>> ELSE <<>>) IN
         /\ lines \in Seq(Line)
         /\ \A i \in DOMAIN lines : GoodLine(lines[i], c)
         /\ Rejections(E, c) \in Seq(Line)
         /\ \A i \in DOMAIN Rejections(E, c) : GoodLine(Rejections(E, c)[i], c)
<1> DEFINE order == IF close THEN <<[type |-> "shutdown"]>> ELSE <<>>
<1>1. E \in SUBSET Entry /\ IsFiniteSet(E) /\ UniqueIds(E)
  BY FS_Subset DEF MuxOK, Ids, UniqueIds
<1>2. /\ Rejections(E, c) \in Seq(Line)
      /\ \A i \in DOMAIN Rejections(E, c) : \E id \in 1..MaxRequests : Rejections(E, c)[i] = Failure(id)
  BY <1>1, RejectionsType
<1>3. \A i \in DOMAIN Rejections(E, c) : GoodLine(Rejections(E, c)[i], c)
  BY <1>2, FailureIsGood
<1>4. [type |-> "shutdown"] \in Line
  BY DEF Line
<1>5. order \in Seq(Line) /\ \A i \in DOMAIN order : order[i].type = "shutdown"
  BY <1>4
<1>6. \A i \in DOMAIN order : GoodLine(order[i], c)
  BY <1>5 DEF GoodLine
<1> HIDE DEF order
<1> DEFINE lines == Rejections(E, c) \o order
<1>7. /\ lines \in Seq(Line) /\ Len(lines) = Len(Rejections(E, c)) + Len(order)
      /\ \A i \in 1..Len(Rejections(E, c)) + Len(order) :
           lines[i] = IF i <= Len(Rejections(E, c)) THEN Rejections(E, c)[i] ELSE order[i - Len(Rejections(E, c))]
  BY <1>2, <1>5, ConcatProperties
<1>8. DOMAIN lines = 1..Len(lines) /\ DOMAIN order = 1..Len(order) /\ Len(order) \in Nat
      /\ DOMAIN Rejections(E, c) = 1..Len(Rejections(E, c)) /\ Len(Rejections(E, c)) \in Nat
  BY <1>2, <1>5, <1>7, LenProperties
<1>9. ASSUME NEW i \in DOMAIN lines PROVE GoodLine(lines[i], c)
  <2>1. CASE i <= Len(Rejections(E, c))
    <3>1. i \in DOMAIN Rejections(E, c) /\ lines[i] = Rejections(E, c)[i]
      BY <1>7, <1>8, <2>1
    <3> QED BY <1>3, <3>1
  <2>2. CASE ~(i <= Len(Rejections(E, c)))
    <3>1. i - Len(Rejections(E, c)) \in DOMAIN order /\ lines[i] = order[i - Len(Rejections(E, c))]
      BY <1>7, <1>8, <2>2
    <3> QED BY <1>6, <3>1
  <2> QED BY <2>1, <2>2
<1> QED BY <1>2, <1>3, <1>7, <1>9 DEF order

LEMMA RejectServes ==
  ASSUME ConnOK, MuxOK, NEW E \in SUBSET mux.inFlight, NEW close \in BOOLEAN, Reject(E, close)
  PROVE  conn' \in [Conn -> Link] /\ \A k \in Conn : Served(k)
<1> DEFINE lines(c) == Rejections(E, c) \o (IF close THEN <<[type |-> "shutdown"]>> ELSE <<>>)
<1>1. \A c \in Client : lines(c) \in Seq(Line) /\ \A i \in DOMAIN lines(c) : GoodLine(lines(c)[i], c)
  BY RejectedLines
<1> DEFINE L == [c \in Client |-> lines(c)]
<1>2. conn' = Sent(L)
  BY DEF Reject
<1> HIDE DEF lines
<1>3. L \in [Client -> Seq(Line)] /\ \A c \in Client : \A i \in DOMAIN L[c] : GoodLine(L[c][i], c)
  BY <1>1
<1> HIDE DEF L
<1> QED BY <1>2, <1>3, SentServes

LEMMA FailureServes ==
  ASSUME ConnOK, NEW d \in Client, NEW id \in 1..MaxRequests, conn' = Sent([c \in {d} |-> <<Failure(id)>>])
  PROVE  conn' \in [Conn -> Link] /\ \A k \in Conn : Served(k)
<1> DEFINE L == [c \in {d} |-> <<Failure(id)>>]
<1>1. <<Failure(id)>> \in Seq(Line) /\ GoodLine(Failure(id), d)
  BY FailureType, FailureIsGood
<1>2. L \in [{d} -> Seq(Line)] /\ \A c \in {d} : \A i \in DOMAIN L[c] : GoodLine(L[c][i], c)
  BY <1>1
<1> HIDE DEF L
<1>3. conn' = Sent(L)
  BY DEF L
<1> QED BY <1>2, <1>3, SentServes

(* Chrome's answer: the entry taken is the very command it answers.        *)
LEMMA AnswerServes ==
  ASSUME ConnOK, MuxOK, NEW a \in chrome.asked, NEW s \in Session \cup {NoSession}, Answer(a, s)
  PROVE  conn' \in [Conn -> Link] /\ \A k \in Conn : Served(k)
<1> DEFINE taken == Take(a.daemonId)
<1> DEFINE line == [type |-> "response", session |-> s, of |-> a, id |-> (CHOOSE e \in taken : TRUE).req.id]
<1> DEFINE D == {e.client : e \in taken}
<1> DEFINE L == [c \in D |-> <<line>>]
<1>1. a \in Entry
  BY DEF MuxOK
<1>2. taken \subseteq {a}
  BY DEF Take, MuxOK, Ids
<1>3. CASE ~(Current(a.gen) /\ bridge.socket = a.gen)
  <2>1. UNCHANGED conn
    BY <1>3 DEF Answer
  <2> QED BY <2>1 DEF ConnOK, Served
<1>4. CASE Current(a.gen) /\ bridge.socket = a.gen
  <2>1. conn' = Sent(L)
    BY <1>4 DEF Answer
  <2>2. D \in SUBSET Client /\ \A c \in D : c = a.client /\ taken = {a}
    BY <1>1, <1>2 DEF Entry
  <2>3. ASSUME NEW c \in D PROVE line \in Line /\ GoodLine(line, c)
    <3>1. taken = {a} /\ c = a.client
      BY <2>2
    <3>2. line = [type |-> "response", session |-> s, of |-> a, id |-> a.req.id]
      BY <3>1
    <3>3. a.req.id \in 1..MaxRequests
      BY <1>1 DEF Entry, Request
    <3> QED BY <1>1, <3>1, <3>2, <3>3 DEF Line, GoodLine
  <2> HIDE DEF line, D
  <2>4. L \in [D -> Seq(Line)] /\ \A c \in D : \A i \in DOMAIN L[c] : GoodLine(L[c][i], c)
    BY <2>3
  <2> HIDE DEF L
  <2> QED BY <2>1, <2>2, <2>4, SentServes
<1> QED BY <1>3, <1>4

LEMMA EventServes ==
  ASSUME ConnOK, RouterOK, NEW s \in Session \cup {NoSession}, NEW ends \in BOOLEAN, ChromeEvent(s, ends)
  PROVE  conn' \in [Conn -> Link] /\ \A k \in Conn : Served(k)
<1> DEFINE line == [type |-> "event", session |-> s]
<1> DEFINE L == [c \in Route(s) |-> <<line>>]
<1>1. CASE ends
  <2>1. conn' = conn
    BY <1>1 DEF ChromeEvent
  <2> QED BY <2>1 DEF ConnOK, Served
<1>2. CASE ~ends
  <2>1. conn' = Sent(L)
    BY <1>2 DEF ChromeEvent
  <2>2. Route(s) \in SUBSET Client /\ (s # NoSession => \A c \in Route(s) : router.owner[s] = c)
    BY DEF Route, RouterOK
  <2>3. line \in Line /\ \A c \in Route(s) : GoodLine(line, c)
    BY <2>2 DEF Line, GoodLine
  <2> HIDE DEF line
  <2>4. L \in [Route(s) -> Seq(Line)] /\ \A c \in Route(s) : \A i \in DOMAIN L[c] : GoodLine(L[c][i], c)
    BY <2>3
  <2> HIDE DEF L
  <2> QED BY <2>1, <2>2, <2>4, SentServes
<1> QED BY <1>1, <1>2

LEMMA ClientGoneServes ==
  ASSUME ConnOK, NEW k \in Conn, ClientGone(k)
  PROVE  conn' \in [Conn -> Link] /\ \A j \in Conn : Served(j)
<1> DEFINE x == [conn[k] EXCEPT !.far = "closed", !.up = <<>>]
<1>1. conn[k].far \in {"anon", "registered"} /\ conn' = [conn EXCEPT ![k] = x] /\ conn[k] \in Link
  BY DEF ClientGone, ConnOK
<1>2. /\ x \in Link /\ x.client = conn[k].client /\ x.near = conn[k].near /\ x.far = "closed" /\ x.up = <<>>
      /\ x.down = conn[k].down
  BY <1>1, EmptySeq DEF Link, Far
<1> HIDE DEF x
<1>3. conn' \in [Conn -> Link] /\ conn'[k] = x /\ \A j \in Conn \ {k} : conn'[j] = conn[j]
  BY <1>1, <1>2 DEF ConnOK
<1> QED BY <1>1, <1>2, <1>3 DEF Served

LEMMA ShutdownServes ==
  ASSUME ConnOK, MuxOK, NEW fired \in BOOLEAN, Shutdown(fired)
  PROVE  /\ conn' \in [Conn -> Link]
         /\ \A k \in Conn : Served(k) /\ conn'[k].far \notin {"anon", "registered"}
<1> DEFINE L == [c \in Client |-> Rejections(mux.inFlight, c)]
<1>1. L \in [Client -> Seq(Line)] /\ \A c \in Client : \A i \in DOMAIN L[c] : GoodLine(L[c][i], c)
  BY RejectedLines
<1>2. conn' = [k \in Conn |-> IF conn[k].far \in {"anon", "registered"}
                              THEN [Sent(L)[k] EXCEPT !.far = "closed", !.up = <<>>] ELSE Sent(L)[k]]
  BY DEF Shutdown
<1> HIDE DEF L
<1>3. /\ Sent(L) \in [Conn -> Link]
      /\ \A k \in Conn :
           /\ Sent(L)[k].client = conn[k].client /\ Sent(L)[k].near = conn[k].near
           /\ Sent(L)[k].far = conn[k].far /\ Sent(L)[k].up = conn[k].up
           /\ Sent(L)[k].down = IF Hears(k, Client) THEN conn[k].down \o L[conn[k].client] ELSE conn[k].down
  BY <1>1, SentEffect DEF ConnOK
<1>4. ASSUME NEW k \in Conn PROVE conn'[k] \in Link /\ Served(k) /\ conn'[k].far \notin {"anon", "registered"}
  <2> DEFINE r == Sent(L)[k]
  <2> DEFINE x == [r EXCEPT !.far = "closed", !.up = <<>>]
  <2>1. r \in Link
    BY <1>3
  <2>2. /\ x \in Link /\ x.client = r.client /\ x.near = r.near /\ x.far = "closed" /\ x.up = <<>>
        /\ x.down = r.down
    <3> HIDE DEF r
    <3> QED BY <2>1, EmptySeq DEF Link, Far
  <2>3. conn'[k] = IF conn[k].far \in {"anon", "registered"} THEN x ELSE r
    BY <1>2
  <2> HIDE DEF x
  <2>4. /\ conn'[k] \in Link /\ conn'[k].client = conn[k].client /\ conn'[k].near = conn[k].near
        /\ conn'[k].far \notin {"anon", "registered"}
        /\ \/ conn'[k].far = conn[k].far /\ conn'[k].up = conn[k].up
           \/ conn[k].far \in {"anon", "registered"} /\ conn'[k].far = "closed" /\ conn'[k].up = <<>>
        /\ conn'[k].down = r.down
    BY <1>3, <2>1, <2>2, <2>3
  <2>5. CASE Hears(k, Client)
    <3>1. conn[k].client \in Client /\ conn[k].far = "registered" /\ conn[k].near = "open"
      BY <2>5 DEF Hears, Registered
    <3>2. L[conn[k].client] \in Seq(Line)
          /\ \A i \in DOMAIN L[conn[k].client] : GoodLine(L[conn[k].client][i], conn[k].client)
      BY <1>1, <3>1
    <3>3. conn'[k].down = conn[k].down \o L[conn[k].client]
      BY <1>3, <2>4, <2>5
    <3> HIDE DEF GoodLine
    <3> QED BY <2>4, <3>1, <3>2, <3>3 DEF Served
  <2>6. CASE ~Hears(k, Client)
    <3>1. conn'[k].down = conn[k].down
      BY <1>3, <2>4, <2>6
    <3> QED BY <2>4, <3>1 DEF Served
  <2> QED BY <2>4, <2>5, <2>6
<1>5. conn' = [k \in Conn |-> conn'[k]]
  BY <1>2
<1>6. conn' \in [Conn -> Link]
  BY <1>4, <1>5
<1> QED BY <1>4, <1>6

-----------------------------------------------------------------------------
(* The three ways a step treats the connections.                           *)
Serving == tr' = tr /\ \A k \in Conn : Served(k)
Reading == tr' = tr /\ \E k \in Conn : ReadBy(k) /\ \A j \in Conn \ {k} : conn'[j] = conn[j]

(* A client that asked is served on the connection it asked on, or that    *)
(* connection's end is gone; only a waiting request or one in flight can   *)
(* be for a client.                                                        *)
WaitOK == waiting \in SUBSET [client : Client, conn : Conn, req : Request]
AsksFrom(k, c) ==
  conn[k].client = c /\ (conn[k].far = "registered" \/ (conn[k].far = "closed" /\ conn[k].near \in Gone))
RequestsOK ==
  /\ WaitOK
  /\ \A e \in mux.inFlight : AsksFrom(e.conn, e.client)
  /\ \A w \in waiting : AsksFrom(w.conn, w.client)

LEMMA ClientKeeps ==
  ASSUME ConnOK, ClientStep
  PROVE  ConnOK' /\ Handling /\ UNCHANGED daemonVars
<1>1. UNCHANGED daemonVars
  BY DEF ClientStep, Connect, Connected, Refused, ConnectTimeout, Receive, SocketClosed, Close, Ask, AskTimeout
<1>2. CASE \E c \in Client, k \in Conn : Connect(c, k)
  BY <1>1, <1>2, ConnectKeeps
<1>3. CASE \E k \in Conn : Connected(k) \/ Refused(k) \/ ConnectTimeout(k) \/ Receive(k) \/ SocketClosed(k)
  BY <1>1, <1>3, ConnectedKeeps, RefusedKeeps, ConnectTimeoutKeeps, ReceiveKeeps, SocketClosedKeeps
<1>4. CASE \E c \in Client : Close(c)
  BY <1>1, <1>4, CloseKeeps
<1>5. CASE \E c \in Client, r \in {"attach", "call", "detach"}, s \in Session \cup {NoSession} : Ask(c, r, s)
  BY <1>1, <1>5, AskKeeps
<1>6. CASE \E c \in Client, id \in 1..MaxRequests : AskTimeout(c, id)
  BY <1>1, <1>6, AskTimeoutKeeps
<1> QED BY <1>2, <1>3, <1>4, <1>5, <1>6 DEF ClientStep

LEMMA BridgeServes ==
  ASSUME ConnOK, MuxOK, RouterOK, WaitOK,
         BridgeStep \/ ChromeStep \/ (\E k \in Conn : ClientGone(k)) \/ (\E fired \in BOOLEAN : Shutdown(fired))
  PROVE  ConnOK' /\ Serving
<1>1. tr' = tr
  BY DEF BridgeStep, ChromeStep, Discovered, SocketOpens, AttemptTimeout, SocketGone, WaitEnds, RequestTimeout,
         SocketDrops, Answer, ChromeEvent, ClientGone, Shutdown
<1> DEFINE Goal == conn' \in [Conn -> Link] /\ \A k \in Conn : Served(k)
<1>2. UNCHANGED conn => Goal
  BY DEF ConnOK, Served
<1>3. ASSUME NEW g \in Attempt, NEW close \in BOOLEAN, Reject(EntriesOf(g), close) PROVE Goal
  BY <1>3, RejectServes DEF EntriesOf
<1>4. ASSUME NEW g \in Attempt, NEW found \in BOOLEAN, Discovered(g, found) PROVE Goal
  BY <1>2, <1>3, <1>4 DEF Discovered, Fail
<1>5. ASSUME NEW g \in Attempt, SocketOpens(g) \/ AttemptTimeout(g) \/ SocketGone(g) PROVE Goal
  <2>1. \E close \in BOOLEAN : Reject(EntriesOf(g), close)
    BY <1>5 DEF SocketOpens, AttemptTimeout, SocketGone, Fail
  <2> QED BY <1>3, <2>1
<1>6. ASSUME NEW w \in waiting, WaitEnds(w) PROVE Goal
  <2>1. UNCHANGED conn \/ conn' = Sent([c \in {w.client} |-> <<Failure(w.req.id)>>])
    BY <1>6 DEF WaitEnds
  <2>2. w.client \in Client /\ w.req.id \in 1..MaxRequests
    BY DEF WaitOK, Request
  <2> QED BY <1>2, <2>1, <2>2, FailureServes
<1>7. ASSUME NEW e \in mux.inFlight, RequestTimeout(e) PROVE Goal
  <2>1. conn' = Sent([c \in {e.client} |-> <<Failure(e.req.id)>>])
    BY <1>7 DEF RequestTimeout
  <2>2. e.client \in Client /\ e.req.id \in 1..MaxRequests
    BY DEF MuxOK, Entry, Request
  <2> QED BY <2>1, <2>2, FailureServes
<1>8. ASSUME NEW g \in Attempt, SocketDrops(g) PROVE Goal
  BY <1>2, <1>8 DEF SocketDrops
<1>9. ASSUME NEW a \in chrome.asked, NEW s \in Session \cup {NoSession}, Answer(a, s) PROVE Goal
  BY <1>9, AnswerServes
<1>10. ASSUME NEW s \in Session \cup {NoSession}, NEW ends \in BOOLEAN, ChromeEvent(s, ends) PROVE Goal
  BY <1>10, EventServes
<1>11. ASSUME NEW k \in Conn, ClientGone(k) PROVE Goal
  BY <1>11, ClientGoneServes
<1>12. ASSUME NEW fired \in BOOLEAN, Shutdown(fired) PROVE Goal
  BY <1>12, ShutdownServes
<1> HIDE DEF Goal
<1>13. Goal
  BY <1>4, <1>5, <1>6, <1>7, <1>8, <1>9, <1>10, <1>11, <1>12 DEF BridgeStep, ChromeStep
<1> QED BY <1>1, <1>13, ServedKeeps DEF Goal, Serving

(* Answers keep to their questions.                                        *)
LEMMA KeepsAnswers ==
  ASSUME ConnOK, ConnOK', AnswersMatch, Handling \/ Serving \/ Reading
  PROVE  AnswersMatch'
<1> DEFINE Fits(line, c) == line.type = "response" /\ line.of # NoConn
                              => line.of.client = c /\ line.of.req.id = line.id
<1>0. SUFFICES ASSUME NEW k \in Conn, NEW i \in DOMAIN conn'[k].down
               PROVE  Fits(conn'[k].down[i], conn'[k].client)
  BY DEF AnswersMatch
<1>1. \A j \in DOMAIN conn[k].down : Fits(conn[k].down[j], conn[k].client)
  BY DEF AnswersMatch
<1>2. conn[k].down \in Seq(Line) /\ conn'[k].down \in Seq(Line) /\ WireOK(k)
  BY DEF ConnOK, Link
<1>3. CASE conn'[k].down = conn[k].down /\ conn'[k].client = conn[k].client
  BY <1>1, <1>3
<1>4. CASE Handled(k)
  <2>1. conn[k].client # NoClient \/ conn[k].down = <<>>
    BY <1>2 DEF WireOK
  <2>2. conn[k].down # <<>> /\ conn'[k].client = conn[k].client
    BY <1>4, <2>1 DEF Handled
  <2>3. CASE conn'[k].down = Tail(conn[k].down)
    <3>1. /\ Len(Tail(conn[k].down)) = Len(conn[k].down) - 1
          /\ \A j \in 1..Len(Tail(conn[k].down)) : Tail(conn[k].down)[j] = conn[k].down[j + 1]
      BY <1>2, <2>2, HeadTailProperties
    <3>2. /\ DOMAIN conn[k].down = 1..Len(conn[k].down) /\ Len(conn[k].down) \in Nat
          /\ DOMAIN conn'[k].down = 1..Len(conn'[k].down)
      BY <1>2, LenProperties
    <3>3. i + 1 \in DOMAIN conn[k].down /\ conn'[k].down[i] = conn[k].down[i + 1]
      BY <2>3, <3>1, <3>2
    <3> QED BY <1>1, <2>2, <3>3
  <2> HIDE DEF Fits
  <2> QED BY <1>3, <1>4, <2>2, <2>3 DEF Handled
<1>5. CASE Served(k)
  <2>1. CASE conn'[k].down # conn[k].down
    <3>1. PICK more \in Seq(Line) : /\ conn'[k].down = conn[k].down \o more
                                    /\ \A j \in DOMAIN more : GoodLine(more[j], conn[k].client)
      BY <1>5, <2>1 DEF Served
    <3>2. /\ DOMAIN conn[k].down = 1..Len(conn[k].down) /\ Len(conn[k].down) \in Nat
          /\ DOMAIN conn'[k].down = 1..Len(conn'[k].down)
          /\ DOMAIN more = 1..Len(more) /\ Len(more) \in Nat
      BY <1>2, LenProperties
    <3>3. /\ Len(conn'[k].down) = Len(conn[k].down) + Len(more)
          /\ \A j \in 1..Len(conn[k].down) + Len(more) : conn'[k].down[j] =
               IF j <= Len(conn[k].down) THEN conn[k].down[j] ELSE more[j - Len(conn[k].down)]
      BY <1>2, <3>1, ConcatProperties
    <3>4. CASE i <= Len(conn[k].down)
      <4>1. i \in DOMAIN conn[k].down /\ conn'[k].down[i] = conn[k].down[i]
        BY <3>2, <3>3, <3>4
      <4>2. conn'[k].client = conn[k].client
        BY <1>5 DEF Served
      <4> QED BY <1>1, <4>1, <4>2
    <3>5. CASE ~(i <= Len(conn[k].down))
      <4>1. /\ i - Len(conn[k].down) \in DOMAIN more
            /\ conn'[k].down[i] = more[i - Len(conn[k].down)]
        <5> DEFINE m == Len(conn[k].down)
        <5> DEFINE n == Len(more)
        <5>1. i \in 1..m + n /\ m \in Nat /\ n \in Nat /\ ~(i <= m)
          BY <3>2, <3>3, <3>5
        <5>2. conn'[k].down[i] = more[i - m]
          BY <3>3, <5>1
        <5> HIDE DEF m, n
        <5>3. i - m \in 1..n
          BY <5>1
        <5> QED BY <3>2, <5>2, <5>3 DEF m, n
      <4>2. GoodLine(conn'[k].down[i], conn[k].client) /\ conn'[k].client = conn[k].client
        BY <1>5, <3>1, <4>1 DEF Served
      <4> QED BY <4>2 DEF GoodLine
    <3> QED BY <3>4, <3>5
  <2> HIDE DEF Fits
  <2> QED BY <1>3, <1>5, <2>1 DEF Served
<1>6. CASE ReadBy(k)
  <2>1. CASE conn'[k].down # conn[k].down
    <3>1. conn'[k].down = <<[type |-> "shutdown"]>> \/ conn'[k].down = <<[type |-> "registered"]>>
      BY <1>6, <2>1 DEF ReadBy
    <3>2. conn'[k].down[i].type # "response"
      BY <3>1
    <3> QED BY <3>2
  <2> HIDE DEF Fits
  <2> QED BY <1>3, <1>6, <2>1 DEF ReadBy
<1> HIDE DEF Fits
<1> QED BY <1>3, <1>4, <1>5, <1>6 DEF Handling, Serving, Reading

(* The owner of a session has it, or is about to hear that it has it.      *)
Granted(k, s) ==
  \E i \in DOMAIN conn[k].down : conn[k].down[i].type = "response" /\ conn[k].down[i].session = s
Elsewhere(k, c) == \E other \in Conn \ {k} : conn[other].client = c
Known(c, s) ==
  /\ \E k \in Conn : conn[k].client = c
  /\ \A k \in Conn : tr[c].socket = k => s \in tr[c].held \/ Granted(k, s) \/ Elsewhere(k, c)
OwnersOK == \A s \in Session, c \in Client : router.owner[s] = c => Known(c, s)

LEMMA ClientsStay ==
  ASSUME ConnOK, Handling \/ Serving \/ Reading, NEW c \in Client, NEW k \in Conn, conn[k].client = c
  PROVE  conn'[k].client = c
BY DaemonAssumption DEF Handling, Handled, Serving, Served, Reading, ReadBy

LEMMA TailIndex ==
  ASSUME NEW q \in Seq(Line), q # <<>>
  PROVE  /\ \A i \in DOMAIN Tail(q) : i + 1 \in DOMAIN q /\ Tail(q)[i] = q[i + 1]
         /\ \A i \in DOMAIN q : i = 1 \/ (i - 1 \in DOMAIN Tail(q) /\ Tail(q)[i - 1] = q[i])
         /\ DOMAIN q \subseteq Nat \ {0} /\ DOMAIN Tail(q) \subseteq Nat \ {0} /\ Head(q) = q[1]
<1>1. /\ Len(q) \in Nat /\ Len(Tail(q)) = Len(q) - 1 /\ Tail(q) \in Seq(Line)
      /\ \A i \in 1..Len(Tail(q)) : Tail(q)[i] = q[i + 1]
  BY HeadTailProperties, LenProperties
<1>2. DOMAIN q = 1..Len(q) /\ DOMAIN Tail(q) = 1..Len(Tail(q))
  BY <1>1, LenProperties
<1>3. Head(q) = q[1]
  OBVIOUS
<1> QED BY <1>1, <1>2, <1>3

LEMMA ConcatIndex ==
  ASSUME NEW q \in Seq(Line), NEW more \in Seq(Line)
  PROVE  /\ \A i \in DOMAIN q : i \in DOMAIN (q \o more) /\ (q \o more)[i] = q[i]
         /\ \A i \in DOMAIN (q \o more) :
              \/ i \in DOMAIN q
              \/ \E j \in DOMAIN more : (q \o more)[i] = more[j] /\ \A h \in DOMAIN q : h < i
         /\ DOMAIN (q \o more) \subseteq Nat \ {0}
<1> DEFINE m == Len(q)
<1> DEFINE n == Len(more)
<1>1. /\ m \in Nat /\ n \in Nat /\ DOMAIN q = 1..m /\ DOMAIN more = 1..n
  BY LenProperties
<1>2. /\ q \o more \in Seq(Line) /\ Len(q \o more) = m + n
      /\ \A i \in 1..m + n : (q \o more)[i] = IF i <= m THEN q[i] ELSE more[i - m]
  BY ConcatProperties
<1>3. DOMAIN (q \o more) = 1..m + n
  BY <1>2, LenProperties
<1> HIDE DEF m, n
<1>4. ASSUME NEW i \in 1..m + n, ~(i <= m)
      PROVE  \E j \in DOMAIN more : (q \o more)[i] = more[j] /\ \A h \in DOMAIN q : h < i
  <2>1. i - m \in 1..n
    BY <1>1, <1>4
  <2>2. (q \o more)[i] = more[i - m] /\ \A h \in 1..m : h < i
    BY <1>1, <1>2, <1>4
  <2> QED BY <1>1, <2>1, <2>2
<1>5. ASSUME NEW i \in 1..m PROVE i \in 1..m + n /\ (q \o more)[i] = q[i]
  BY <1>1, <1>2
<1>6. \A i \in 1..m + n : i <= m => i \in 1..m
  BY <1>1
<1> QED BY <1>1, <1>3, <1>4, <1>5, <1>6

LEMMA KeepsKnown ==
  ASSUME ConnOK, ConnOK', Handling \/ Serving \/ Reading,
         NEW c \in Client, NEW s \in Session, Known(c, s)
  PROVE  Known(c, s)'
<1>1. \A k \in Conn : conn[k].client = c => conn'[k].client = c
  BY ClientsStay
<1>2. PICK first \in Conn : conn[first].client = c
  BY DEF Known
<1>3. ASSUME NEW k \in Conn, tr'[c].socket = k PROVE s \in tr'[c].held \/ Granted(k, s)' \/ Elsewhere(k, c)'
  <2>1. conn[k].down \in Seq(Line)
    BY DEF ConnOK, Link
  <2>2. CASE conn[k].client = NoClient
    BY <1>1, <1>2, <2>2, DaemonAssumption DEF Elsewhere
  <2>3. CASE conn[k].client # NoClient /\ Handling
    <3>1. /\ tr[c].socket = k /\ tr[c].held \subseteq tr'[c].held
          /\ \/ conn'[k].down = conn[k].down
             \/ /\ conn[k].down # <<>> /\ conn'[k].down = Tail(conn[k].down)
                /\ Head(conn[k].down).type = "response" =>
                     Head(conn[k].down).session \in tr'[c].held \cup {NoSession}
      BY <1>3, <2>3 DEF Handling, HeldOn
    <3>2. s \in tr[c].held \/ Granted(k, s) \/ Elsewhere(k, c)
      BY <3>1 DEF Known
    <3>3. CASE Granted(k, s) /\ conn'[k].down # conn[k].down
      <4>1. conn[k].down # <<>> /\ conn'[k].down = Tail(conn[k].down)
        BY <3>1, <3>3
      <4>2. PICK i \in DOMAIN conn[k].down : conn[k].down[i].type = "response" /\ conn[k].down[i].session = s
        BY <3>3 DEF Granted
      <4> DEFINE q == conn[k].down
      <4>3. Head(q) = q[1] /\ (i = 1 \/ (i - 1 \in DOMAIN Tail(q) /\ Tail(q)[i - 1] = q[i]))
        <5>1. q \in Seq(Line) /\ q # <<>> /\ i \in DOMAIN q
          BY <2>1, <4>1, <4>2
        <5> HIDE DEF q
        <5> QED BY <5>1, TailIndex
      <4>4. CASE i = 1
        <5>1. Head(conn[k].down).type = "response" /\ Head(conn[k].down).session = s
          BY <4>2, <4>3, <4>4
        <5> QED BY <3>1, <3>3, <5>1, DaemonAssumption
      <4>5. CASE i # 1
        <5>1. i - 1 \in DOMAIN conn'[k].down /\ conn'[k].down[i - 1] = conn[k].down[i]
          BY <4>1, <4>3, <4>5
        <5> QED BY <4>2, <5>1 DEF Granted
      <4> QED BY <4>4, <4>5
    <3>4. CASE Granted(k, s) /\ conn'[k].down = conn[k].down
      BY <3>4 DEF Granted
    <3>5. CASE Elsewhere(k, c)
      BY <1>1, <3>5 DEF Elsewhere
    <3> QED BY <3>1, <3>2, <3>3, <3>4, <3>5
  <2>4. CASE Serving \/ Reading
    <3>1. tr' = tr
      BY <2>4 DEF Serving, Reading
    <3>2. s \in tr[c].held \/ Granted(k, s) \/ Elsewhere(k, c)
      BY <1>3, <3>1 DEF Known
    <3>3. CASE Granted(k, s)
      <4>1. PICK i \in DOMAIN conn[k].down : conn[k].down[i].type = "response" /\ conn[k].down[i].session = s
        BY <3>3 DEF Granted
      <4>2. conn[k].down # <<>>
        BY <4>1
      <4>3. \/ conn'[k].down = conn[k].down
            \/ \E more \in Seq(Line) : conn'[k].down = conn[k].down \o more
        BY <2>4, <4>2 DEF Serving, Served, Reading, ReadBy
      <4>4. i \in DOMAIN conn'[k].down /\ conn'[k].down[i] = conn[k].down[i]
        <5>1. CASE conn'[k].down = conn[k].down
          BY <5>1
        <5>2. ASSUME NEW more \in Seq(Line), conn'[k].down = conn[k].down \o more
              PROVE  i \in DOMAIN conn'[k].down /\ conn'[k].down[i] = conn[k].down[i]
          <6> DEFINE q == conn[k].down
          <6>1. q \in Seq(Line) /\ i \in DOMAIN q /\ conn'[k].down = q \o more
            BY <2>1, <5>2
          <6> HIDE DEF q
          <6>2. i \in DOMAIN (q \o more) /\ (q \o more)[i] = q[i]
            BY <6>1, ConcatIndex
          <6> QED BY <6>1, <6>2 DEF q
        <5> QED BY <4>3, <5>1, <5>2
      <4> QED BY <4>1, <4>4 DEF Granted
    <3>4. CASE Elsewhere(k, c)
      BY <1>1, <3>4 DEF Elsewhere
    <3> QED BY <3>1, <3>2, <3>3, <3>4
  <2> QED BY <2>2, <2>3, <2>4
<1> QED BY <1>1, <1>2, <1>3 DEF Known

(* A session changes hands only with an answer that is on its way.         *)
LEMMA AnswerGrants ==
  ASSUME ConnOK, MuxOK, RouterOK, RequestsOK, ConnOK', Serving,
         NEW a \in chrome.asked, NEW t \in Session \cup {NoSession}, Answer(a, t),
         NEW s \in Session, NEW c \in Client, router'.owner[s] = c
  PROVE  router.owner[s] = c \/ Known(c, s)'
<1> DEFINE taken == Take(a.daemonId)
<1> DEFINE records == {e \in taken : e.req.does = "attach" /\ t # NoSession}
<1>1. SUFFICES ASSUME router.owner[s] # c PROVE Known(c, s)'
  OBVIOUS
<1>2. a \in Entry /\ taken \subseteq {a} /\ taken \subseteq mux.inFlight
  BY DEF Take, MuxOK, Ids
<1>3. /\ Current(a.gen) /\ bridge.socket = a.gen
      /\ router' = IF records = {} THEN router ELSE Owns(t, (CHOOSE e \in records : TRUE).client)
      /\ conn' = Sent([d \in {e.client : e \in taken} |->
                 <<[type |-> "response", session |-> t, of |-> a, id |-> (CHOOSE e \in taken : TRUE).req.id]>>])
  BY <1>1 DEF Answer
<1>4. records # {} /\ router' = Owns(t, a.client) /\ taken = {a} /\ t # NoSession
  <2>1. records # {}
    BY <1>1, <1>3
  <2>2. records = {a} /\ taken = {a} /\ t # NoSession
    BY <1>2, <2>1
  <2>3. (CHOOSE e \in records : TRUE) = a
    BY <2>2
  <2> QED BY <1>3, <2>1, <2>2, <2>3
<1>5. s = t /\ c = a.client
  <2>1. t \in Session /\ router'.owner = [router.owner EXCEPT ![t] = a.client]
    BY <1>4 DEF Owns, RouterOK
  <2> QED BY <1>1, <2>1 DEF RouterOK
<1> DEFINE k0 == a.conn
<1>6. k0 \in Conn /\ AsksFrom(k0, c)
  BY <1>2, <1>4, <1>5 DEF RequestsOK, Entry
<1>7. conn'[k0].client = c
  BY <1>6, ClientsStay DEF AsksFrom
<1>8. ASSUME NEW k \in Conn, tr'[c].socket = k, k = k0 PROVE Granted(k, s)'
  <2>1. tr[c].socket = k /\ WireOK(k) /\ TransportOK(c) /\ conn[k] \in Link
    BY <1>8 DEF Serving, ConnOK
  <2>2. conn[k].near \in {"connecting", "open"} \/ (conn[k].near = "closed" /\ conn[k].far = "unused")
    BY <2>1, DaemonAssumption DEF TransportOK
  <2>3. conn[k].far = "registered" /\ conn[k].near = "open" /\ conn[k].client = c
    BY <1>6, <1>8, <2>1, <2>2 DEF AsksFrom, Gone, WireOK
  <2> DEFINE line == [type |-> "response", session |-> t, of |-> a, id |-> a.req.id]
  <2> DEFINE L == [d \in {c} |-> <<line>>]
  <2>4. {e.client : e \in taken} = {c} /\ (CHOOSE e \in taken : TRUE) = a
    BY <1>4, <1>5
  <2>5. conn' = Sent(L)
    <3> HIDE DEF taken
    <3> QED BY <1>3, <2>4
  <2>6. line \in Line
    BY <1>2 DEF Line, Entry, Request
  <2>7. line.type = "response" /\ line.session = s
    BY <1>5
  <2> HIDE DEF line
  <2>8. L \in [{c} -> Seq(Line)] /\ L[c] = <<line>>
    BY <2>6
  <2>9. Hears(k, {c})
    BY <2>3 DEF Hears, Registered
  <2> HIDE DEF L
  <2>10. conn'[k].down = conn[k].down \o <<line>>
    <3> DEFINE D == {c}
    <3>1. D \in SUBSET Client /\ L \in [D -> Seq(Line)] /\ Hears(k, D) /\ conn \in [Conn -> Link]
      BY <2>8, <2>9 DEF ConnOK
    <3> HIDE DEF D
    <3>2. Sent(L)[k].down = conn[k].down \o L[conn[k].client]
      BY <3>1, SentEffect
    <3> QED BY <2>3, <2>5, <2>8, <3>2
  <2> DEFINE q == conn[k].down
  <2>11. Len(q) + 1 \in DOMAIN (q \o <<line>>) /\ (q \o <<line>>)[Len(q) + 1] = line
    <3>1. q \in Seq(Line) /\ <<line>> \in Seq(Line) /\ Len(<<line>>) = 1 /\ <<line>>[1] = line
      BY <2>1, <2>6 DEF Link
    <3> HIDE DEF q
    <3>2. q \o <<line>> \in Seq(Line) /\ Len(q \o <<line>>) = Len(q) + 1 /\ Len(q) \in Nat
      BY <3>1, ConcatProperties, LenProperties
    <3>3. (q \o <<line>>)[Len(q) + 1] = line
      BY <3>1, <3>2
    <3>4. DOMAIN (q \o <<line>>) = 1..Len(q) + 1
      BY <3>2, LenProperties
    <3> QED BY <3>2, <3>3, <3>4
  <2> QED BY <2>7, <2>10, <2>11 DEF Granted
<1>9. ASSUME NEW k \in Conn, k # k0 PROVE Elsewhere(k, c)'
  BY <1>6, <1>7, <1>9 DEF Elsewhere
<1> HIDE DEF k0
<1> QED BY <1>6, <1>7, <1>8, <1>9 DEF Known

LEMMA KeepsRouter ==
  ASSUME ConnOK, MuxOK, RouterOK, RequestsOK, Next
  PROVE  RouterOK'
<1>1. ASSUME NEW s \in Session, NEW c \in Client \cup {NoClient}, router' = Owns(s, c) PROVE RouterOK'
  BY <1>1 DEF Owns, RouterOK
<1>2. UNCHANGED router => RouterOK'
  BY DEF RouterOK
<1>3. ASSUME NEW c, NEW k, NEW req \in Request, Dispatch(c, k, req) PROVE RouterOK'
  <2>1. CASE req.does = "detach" /\ req.session \in Session
    BY <1>1, <1>3, <2>1 DEF Dispatch
  <2>2. CASE req.does # "detach"
    BY <1>2, <1>3, <2>2 DEF Dispatch
  <2>3. CASE req.does = "detach" /\ req.session = NoSession
    <3>1. router' = [router EXCEPT !.owner[NoSession] = NoClient, !.listed = router.listed]
      BY <1>3, <2>3 DEF Dispatch, Owns, RouterOK
    <3> QED BY <3>1, DaemonAssumption DEF RouterOK
  <2> QED BY <2>1, <2>2, <2>3 DEF Request
<1>4. CASE ClientStep
  BY <1>2, <1>4, ClientKeeps DEF daemonVars
<1>5. CASE BridgeStep
  <2>1. ASSUME NEW w \in waiting, WaitEnds(w) PROVE RouterOK'
    BY <1>2, <1>3, <2>1 DEF WaitEnds, RequestsOK, WaitOK
  <2> QED BY <1>2, <1>5, <2>1 DEF BridgeStep, Discovered, SocketOpens, AttemptTimeout, SocketGone, RequestTimeout
<1>6. CASE ChromeStep
  <2>1. ASSUME NEW a \in chrome.asked, NEW s \in Session \cup {NoSession}, Answer(a, s) PROVE RouterOK'
    <3> DEFINE records == {e \in Take(a.daemonId) : e.req.does = "attach" /\ s # NoSession}
    <3>1. UNCHANGED router \/ (records # {} /\ router' = Owns(s, (CHOOSE e \in records : TRUE).client))
      BY <2>1 DEF Answer
    <3>2. ASSUME records # {} PROVE s \in Session /\ (CHOOSE e \in records : TRUE).client \in Client
      <4>1. (CHOOSE e \in records : TRUE) \in records
        BY <3>2
      <4> QED BY <4>1 DEF Take, MuxOK, Entry
    <3> QED BY <1>1, <1>2, <3>1, <3>2
  <2>2. ASSUME NEW s \in Session \cup {NoSession}, NEW ends \in BOOLEAN, ChromeEvent(s, ends) PROVE RouterOK'
    BY <1>1, <1>2, <2>2 DEF ChromeEvent
  <2> QED BY <1>2, <1>6, <2>1, <2>2 DEF ChromeStep, SocketDrops
<1>7. CASE ServerStep
  <2>1. ASSUME NEW k \in Conn, DaemonReads(k) PROVE RouterOK'
    <3>1. Head(conn[k].up) \in UpLine
      BY <2>1, HeadTailProperties DEF DaemonReads, ConnOK, Link
    <3>2. Head(conn[k].up).type = "request" => Head(conn[k].up).req \in Request
      BY <3>1 DEF UpLine
    <3>3. UNCHANGED router \/ (Head(conn[k].up).type = "request" /\ Dispatch(conn[k].client, k, Head(conn[k].up).req))
      BY <2>1 DEF DaemonReads, daemonVars
    <3> QED BY <1>2, <1>3, <3>2, <3>3
  <2> QED BY <1>2, <1>7, <2>1 DEF ServerStep, ClientGone, Shutdown
<1> QED BY <1>4, <1>5, <1>6, <1>7 DEF Next

LEMMA NextTreats ==
  ASSUME ConnOK, MuxOK, RouterOK, RequestsOK, Next
  PROVE  ConnOK' /\ (Handling \/ Serving \/ Reading)
<1>1. CASE ClientStep
  BY <1>1, ClientKeeps
<1>2. CASE BridgeStep \/ ChromeStep
  BY <1>2, BridgeServes DEF RequestsOK
<1>3. CASE ServerStep
  <2>1. CASE \E k \in Conn : DaemonReads(k)
    <3>1. tr' = tr
      BY <2>1 DEF DaemonReads
    <3> QED BY <2>1, <3>1, DaemonReadsKeeps DEF Reading
  <2>2. CASE (\E k \in Conn : ClientGone(k)) \/ (\E fired \in BOOLEAN : Shutdown(fired))
    BY <2>2, BridgeServes DEF RequestsOK
  <2> QED BY <1>3, <2>1, <2>2 DEF ServerStep
<1> QED BY <1>1, <1>2, <1>3 DEF Next

LEMMA KeepsOwners ==
  ASSUME ConnOK, MuxOK, RouterOK, RequestsOK, OwnersOK, Next
  PROVE  OwnersOK'
<1>1. ConnOK' /\ (Handling \/ Serving \/ Reading)
  BY NextTreats
<1>2. SUFFICES ASSUME NEW s \in Session, NEW c \in Client, router'.owner[s] = c PROVE Known(c, s)'
  BY DEF OwnersOK
<1>3. CASE router.owner[s] = c
  BY <1>1, <1>3, KeepsKnown DEF OwnersOK
<1>4. CASE router.owner[s] # c
  <2>0. router'.owner # router.owner /\ c # NoClient
    BY <1>2, <1>4, DaemonAssumption
  <2>1. \A q \in Session \cup {NoSession} : router' # Owns(q, NoClient)
    <3>1. SUFFICES ASSUME NEW q \in Session \cup {NoSession}, router' = Owns(q, NoClient) PROVE FALSE
      OBVIOUS
    <3>2. router'.owner = [router.owner EXCEPT ![q] = NoClient]
      BY <3>1 DEF Owns, RouterOK
    <3> QED BY <1>2, <1>4, <2>0, <3>2 DEF RouterOK
  <2>2. \A d, k : \A req \in Request : ~Dispatch(d, k, req)
    BY <2>0, <2>1 DEF Dispatch, Request
  <2>3. ~ClientStep
    BY <2>0, ClientKeeps DEF daemonVars
  <2>4. ~BridgeStep
    <3>1. \A w \in waiting : ~WaitEnds(w)
      BY <2>0, <2>2 DEF WaitEnds, RequestsOK, WaitOK
    <3> QED BY <2>0, <3>1 DEF BridgeStep, Discovered, SocketOpens, AttemptTimeout, SocketGone, RequestTimeout
  <2>5. ~ServerStep
    <3>1. ASSUME NEW k \in Conn, DaemonReads(k) PROVE FALSE
      <4>1. Head(conn[k].up) \in UpLine
        BY <3>1, HeadTailProperties DEF DaemonReads, ConnOK, Link
      <4>2. Head(conn[k].up).type = "request" => Head(conn[k].up).req \in Request
        BY <4>1 DEF UpLine
      <4>3. UNCHANGED router \/ (Head(conn[k].up).type = "request" /\ Dispatch(conn[k].client, k, Head(conn[k].up).req))
        BY <3>1 DEF DaemonReads, daemonVars
      <4> QED BY <2>0, <2>2, <4>2, <4>3
    <3> QED BY <2>0, <3>1 DEF ServerStep, ClientGone, Shutdown
  <2>6. ASSUME NEW a \in chrome.asked, NEW t \in Session \cup {NoSession}, Answer(a, t) PROVE Known(c, s)'
    <3>1. ConnOK' /\ Serving
      BY <2>6, BridgeServes DEF ChromeStep, RequestsOK
    <3> QED BY <1>2, <1>4, <2>6, <3>1, AnswerGrants
  <2>7. ChromeStep
    BY <2>3, <2>4, <2>5 DEF Next
  <2>8. \A t \in Session \cup {NoSession}, ends \in BOOLEAN : ~ChromeEvent(t, ends)
    BY <2>0, <2>1 DEF ChromeEvent
  <2> QED BY <2>0, <2>6, <2>7, <2>8 DEF ChromeStep, SocketDrops
<1> QED BY <1>3, <1>4

(* Events stay behind the attachment they belong to.                       *)
LEMMA KeepsEvents ==
  ASSUME ConnOK, ConnOK', OwnersOK, EventsFollowAttach, Handling \/ Serving \/ Reading
  PROVE  EventsFollowAttach'
<1>0. SUFFICES ASSUME NEW k \in Conn, NEW i \in DOMAIN conn'[k].down,
                      conn'[k].down[i].type = "event", conn'[k].down[i].session # NoSession,
                      tr'[conn'[k].client].socket = k
               PROVE  \/ conn'[k].down[i].session \in tr'[conn'[k].client].held
                      \/ \E j \in 1..i - 1 : /\ conn'[k].down[j].type = "response"
                                             /\ conn'[k].down[j].session = conn'[k].down[i].session
                      \/ \E other \in Conn \ {k} : conn'[other].client = conn'[k].client
  BY DEF EventsFollowAttach
<1>1. conn[k].down \in Seq(Line) /\ conn'[k].down \in Seq(Line) /\ WireOK(k) /\ WireOK(k)'
  BY DEF ConnOK, Link
<1>2. conn'[k].down # <<>>
  OBVIOUS
<1>3. conn'[k].client # NoClient /\ conn'[k].client \in Client
  BY <1>1, <1>2 DEF WireOK, ConnOK, Link
<1>4. CASE Reading
  <2>1. ReadBy(k) \/ conn'[k] = conn[k]
    BY <1>4 DEF Reading
  <2>2. conn'[k].down = conn[k].down /\ conn'[k].client = conn[k].client
    <3>1. CASE conn'[k].down = <<[type |-> "shutdown"]>> \/ conn'[k].down = <<[type |-> "registered"]>>
      BY <1>0, <3>1
    <3> QED BY <2>1, <3>1 DEF ReadBy
  <2>3. tr' = tr
    BY <1>4 DEF Reading
  <2>4. \A other \in Conn : conn'[other].client = conn[other].client
    BY <1>4 DEF Reading, ReadBy
  <2> QED BY <1>0, <2>2, <2>3, <2>4 DEF EventsFollowAttach
<1>5. CASE Serving
  <2> DEFINE c == conn[k].client
  <2>1. tr' = tr /\ \A other \in Conn : conn'[other].client = conn[other].client
    BY <1>5 DEF Serving, Served
  <2>2. c \in Client /\ conn'[k].client = c
    BY <1>3, <2>1
  <2>3. CASE conn'[k].down = conn[k].down
    BY <1>0, <2>1, <2>3 DEF EventsFollowAttach
  <2>4. CASE conn'[k].down # conn[k].down
    <3>1. PICK more \in Seq(Line) : /\ conn'[k].down = conn[k].down \o more
                                    /\ \A j \in DOMAIN more : GoodLine(more[j], c)
      BY <1>5, <2>4 DEF Serving, Served
    <3> DEFINE q == conn[k].down
    <3>2. /\ \A j \in DOMAIN q : j \in DOMAIN (q \o more) /\ (q \o more)[j] = q[j]
          /\ \/ i \in DOMAIN q
             \/ \E j \in DOMAIN more : (q \o more)[i] = more[j] /\ \A h \in DOMAIN q : h < i
          /\ DOMAIN (q \o more) \subseteq Nat \ {0}
          /\ DOMAIN q = 1..Len(q) /\ Len(q) \in Nat
      <4>1. q \in Seq(Line) /\ i \in DOMAIN (q \o more)
        BY <1>1, <3>1
      <4> HIDE DEF q
      <4> QED BY <4>1, ConcatIndex, LenProperties
    <3>3. conn'[k].down = q \o more
      BY <3>1
    <3>4. CASE i \in DOMAIN q
      <4>1. conn'[k].down[i] = q[i]
        BY <3>2, <3>3, <3>4
      <4>2. \/ q[i].session \in tr[c].held
            \/ \E j \in 1..i - 1 : q[j].type = "response" /\ q[j].session = q[i].session
            \/ \E other \in Conn \ {k} : conn[other].client = c
        BY <1>0, <2>1, <2>2, <3>4, <4>1 DEF EventsFollowAttach
      <4>3. \A j \in 1..i - 1 : j \in DOMAIN q /\ conn'[k].down[j] = q[j]
        BY <3>2, <3>3, <3>4
      <4> HIDE DEF q
      <4> QED BY <2>1, <2>2, <4>1, <4>2, <4>3
    <3>5. CASE i \notin DOMAIN q
      <4>1. PICK j \in DOMAIN more : conn'[k].down[i] = more[j] /\ \A h \in DOMAIN q : h < i
        BY <3>2, <3>3, <3>5
      <4> DEFINE s == conn'[k].down[i].session
      <4>2. conn'[k].down[i] \in Line
        BY <1>1
      <4>3. s \in Session /\ router.owner[s] = c
        BY <1>0, <3>1, <4>1, <4>2 DEF GoodLine, Line
      <4>4. Known(c, s)
        BY <2>2, <4>3 DEF OwnersOK
      <4>5. tr[c].socket = k
        BY <1>0, <2>1, <2>2
      <4>6. CASE Granted(k, s)
        <5>1. PICK h \in DOMAIN q : q[h].type = "response" /\ q[h].session = s
          BY <4>6 DEF Granted
        <5>2. h \in 1..i - 1 /\ conn'[k].down[h] = q[h]
          BY <3>2, <3>3, <4>1
        <5> QED BY <5>1, <5>2
      <4>7. s \in tr[c].held \/ Granted(k, s) \/ Elsewhere(k, c)
        BY <4>4, <4>5 DEF Known
      <4> QED BY <2>1, <2>2, <4>6, <4>7 DEF Elsewhere
    <3> QED BY <3>4, <3>5
  <2> QED BY <2>3, <2>4
<1>6. CASE Handling
  <2> DEFINE c == conn'[k].client
  <2>1. HeldOn(c) /\ Handled(k)
    BY <1>3, <1>6 DEF Handling
  <2>2. conn[k].client # NoClient
    BY <1>1, <1>2, <2>1 DEF Handled, WireOK
  <2>3. conn[k].client = c
    BY <2>1, <2>2 DEF Handled
  <2>4. /\ tr[c].socket = k /\ tr[c].held \subseteq tr'[c].held
        /\ \/ conn'[k].down = conn[k].down
           \/ /\ conn[k].down # <<>> /\ conn'[k].down = Tail(conn[k].down)
              /\ Head(conn[k].down).type = "response" =>
                   Head(conn[k].down).session \in tr'[c].held \cup {NoSession}
    BY <1>0, <2>1, <2>2 DEF HeldOn
  <2>5. \A other \in Conn : conn[other].client = c => conn'[other].client = c
    BY <1>3, <1>6 DEF Handling, Handled
  <2> DEFINE q == conn[k].down
  <2>6. CASE conn'[k].down = q
    <3>1. \/ q[i].session \in tr[c].held
          \/ \E j \in 1..i - 1 : q[j].type = "response" /\ q[j].session = q[i].session
          \/ \E other \in Conn \ {k} : conn[other].client = c
      BY <1>0, <2>3, <2>4, <2>6 DEF EventsFollowAttach
    <3> HIDE DEF q
    <3> QED BY <2>4, <2>5, <2>6, <3>1
  <2>7. CASE conn'[k].down # q
    <3>1. conn'[k].down = Tail(q) /\ q # <<>>
      BY <2>4, <2>7
    <3>2. /\ \A j \in DOMAIN Tail(q) : j + 1 \in DOMAIN q /\ Tail(q)[j] = q[j + 1]
          /\ \A j \in DOMAIN q : j = 1 \/ (j - 1 \in DOMAIN Tail(q) /\ Tail(q)[j - 1] = q[j])
          /\ DOMAIN q \subseteq Nat \ {0} /\ DOMAIN Tail(q) \subseteq Nat \ {0} /\ Head(q) = q[1]
          /\ DOMAIN q = 1..Len(q)
      <4>1. q \in Seq(Line)
        BY <1>1
      <4> HIDE DEF q
      <4> QED BY <3>1, <4>1, TailIndex, LenProperties
    <3>3. i \in Nat \ {0} /\ i + 1 \in DOMAIN q /\ conn'[k].down[i] = q[i + 1]
      BY <3>1, <3>2
    <3>4. \/ q[i + 1].session \in tr[c].held
          \/ \E j \in 1..(i + 1) - 1 : q[j].type = "response" /\ q[j].session = q[i + 1].session
          \/ \E other \in Conn \ {k} : conn[other].client = c
      BY <1>0, <2>3, <2>4, <3>3 DEF EventsFollowAttach
    <3>5. ASSUME NEW j \in 1..(i + 1) - 1, q[j].type = "response", q[j].session = q[i + 1].session
          PROVE  \/ q[i + 1].session \in tr'[c].held
                 \/ \E h \in 1..i - 1 : /\ conn'[k].down[h].type = "response"
                                        /\ conn'[k].down[h].session = q[i + 1].session
      <4>1. CASE j = 1
        <5>1. Head(q).type = "response" /\ Head(q).session = q[i + 1].session
          BY <3>2, <3>5, <4>1
        <5>2. q[i + 1].session # NoSession
          BY <1>0, <3>3
        <5> QED BY <2>4, <2>7, <5>1, <5>2
      <4>2. CASE j # 1
        <5>1. j - 1 \in 1..i - 1 /\ j \in 1..Len(q)
          BY <3>2, <3>3, <4>2, LenProperties
        <5>2. conn'[k].down[j - 1] = q[j]
          BY <3>1, <3>2, <4>2, <5>1
        <5> QED BY <3>5, <5>1, <5>2
      <4> QED BY <4>1, <4>2
    <3> HIDE DEF q
    <3> QED BY <2>4, <2>5, <3>3, <3>4, <3>5
  <2> QED BY <2>6, <2>7
<1> QED BY <1>4, <1>5, <1>6
-----------------------------------------------------------------------------
(* Every step keeps the attempts, the multiplexer and the requests.        *)
LEMMA KeepsBridge ==
  ASSUME BridgeOK, Next
  PROVE  BridgeOK'
<1>1. CASE UNCHANGED <<bridge, attempt>>
  BY <1>1 DEF BridgeOK, Attempts, Untried, OpenIsCurrent
<1>2. CASE ClientStep
  <2>1. UNCHANGED daemonVars
    BY <1>2 DEF ClientStep, Connect, Connected, Refused, ConnectTimeout, Receive, SocketClosed, Close, Ask, AskTimeout
  <2> QED BY <1>1, <2>1 DEF daemonVars
<1>3. CASE BridgeStep
  BY <1>1, <1>3, DiscoveredAttempts, SocketOpensAttempts, TimeoutAttempts, GoneAttempts
  DEF BridgeStep, WaitEnds, RequestTimeout
<1>4. CASE ChromeStep
  BY <1>1, <1>4, DropAttempts DEF ChromeStep, Answer, ChromeEvent
<1>5. CASE ServerStep
  <2>1. ASSUME NEW k \in Conn, DaemonReads(k) PROVE UNCHANGED <<bridge, attempt>> \/ TryConnect
    BY <2>1 DEF DaemonReads, daemonVars
  <2> QED BY <1>1, <1>5, <2>1, TryAttempts, ShutdownAttempts DEF ServerStep, ClientGone
<1> QED BY <1>2, <1>3, <1>4, <1>5 DEF Next

(* The line the daemon reads: what a request line carries, and its client. *)
LEMMA ReadRequest ==
  ASSUME ConnOK, NEW k \in Conn, DaemonReads(k), Head(conn[k].up).type = "request"
  PROVE  Head(conn[k].up).req \in Request /\ conn[k].client \in Client
<1>1. Head(conn[k].up) \in UpLine
  BY HeadTailProperties DEF DaemonReads, ConnOK, Link
<1>2. conn[k].near # "unused"
  BY DEF DaemonReads, ConnOK, WireOK
<1> QED BY <1>1, <1>2, ClientOf DEF UpLine

LEMMA KeepsMux ==
  ASSUME BridgeOK, ConnOK, MuxOK, WaitOK, Next
  PROVE  MuxOK'
<1>1. CASE UNCHANGED <<attempt, mux, chrome>>
  BY <1>1 DEF MuxOK, Ids, RequestsFailWithSocket
<1>2. CASE ClientStep
  BY <1>1, <1>2, ClientKeeps DEF daemonVars
<1>3. CASE BridgeStep
  <2>1. ASSUME NEW w \in waiting, WaitEnds(w) PROVE MuxOK'
    <3>1. w.client \in Client /\ w.conn \in Conn /\ w.req \in Request
      BY DEF WaitOK
    <3>2. CASE WsOpen
      BY <2>1, <3>1, <3>2, DispatchKeepsMux DEF WaitEnds
    <3>3. CASE ~WsOpen
      BY <1>1, <2>1, <3>3 DEF WaitEnds
    <3> QED BY <3>2, <3>3
  <2> QED BY <1>3, <2>1, DiscoveredMux, SocketMux, OtherMux DEF BridgeStep
<1>4. CASE ChromeStep
  BY <1>4, DropMux, AnswerMux, OtherMux DEF ChromeStep
<1>5. CASE ServerStep
  <2>1. ASSUME NEW k \in Conn, DaemonReads(k) PROVE MuxOK'
    <3>1. \/ UNCHANGED <<attempt, mux, chrome>>
          \/ TryConnect /\ UNCHANGED <<mux, chrome>>
          \/ /\ Head(conn[k].up).type = "request" /\ WsOpen /\ UNCHANGED attempt
             /\ Dispatch(conn[k].client, k, Head(conn[k].up).req)
      BY <2>1 DEF DaemonReads, daemonVars
    <3> QED BY <1>1, <2>1, <3>1, TryMux, ReadRequest, DispatchKeepsMux
  <2>2. ASSUME NEW k \in Conn, ClientGone(k) PROVE MuxOK'
    BY <1>1, <2>2 DEF ClientGone
  <2> QED BY <1>5, <2>1, <2>2, OtherMux DEF ServerStep
<1> QED BY <1>2, <1>3, <1>4, <1>5 DEF Next

(* Lines that are sent leave the ends of a connection as they are.         *)
LEMMA SentKeepsEnds ==
  ASSUME ConnOK, BridgeStep \/ ChromeStep
  PROVE  \A k \in Conn : conn'[k].far = conn[k].far
<1> DEFINE Goal == \A k \in Conn : conn'[k].far = conn[k].far
<1>1. ASSUME NEW L, conn' = Sent(L) PROVE Goal
  <2>1. SUFFICES ASSUME NEW k \in Conn PROVE Sent(L)[k].far = conn[k].far
    BY <1>1
  <2>2. conn[k] \in Link
    BY DEF ConnOK
  <2>3. \/ Sent(L)[k] = conn[k]
        \/ Sent(L)[k] = [conn[k] EXCEPT !.down = @ \o L[conn[k].client]]
    BY DEF Sent
  <2> QED BY <2>2, <2>3 DEF Link
<1>2. UNCHANGED conn => Goal
  OBVIOUS
<1> HIDE DEF Goal
<1>3. ASSUME NEW E, NEW close, Reject(E, close) PROVE Goal
  BY <1>1, <1>3 DEF Reject
<1>4. BridgeStep => Goal
  BY <1>1, <1>2, <1>3
  DEF BridgeStep, Discovered, SocketOpens, AttemptTimeout, SocketGone, Fail, WaitEnds, RequestTimeout
<1>5. ChromeStep => Goal
  BY <1>1, <1>2 DEF ChromeStep, SocketDrops, Answer, ChromeEvent
<1> QED BY <1>4, <1>5 DEF Goal

(* The daemon lets a registered client go only when its end is gone, or    *)
(* when it stops and no request is left.                                   *)
LEMMA StillAsks ==
  ASSUME ConnOK, MuxOK, RouterOK, RequestsOK, Next, ~\E fired \in BOOLEAN : Shutdown(fired),
         NEW k \in Conn, NEW c \in Client, AsksFrom(k, c)
  PROVE  AsksFrom(k, c)'
<1>1. ConnOK' /\ (Handling \/ Serving \/ Reading)
  BY NextTreats
<1>2. conn'[k].client = c
  BY <1>1, ClientsStay DEF AsksFrom
<1>3. CASE Handling
  BY <1>2, <1>3 DEF Handling, Handled, AsksFrom, Gone
<1>4. CASE Reading
  <2>1. ReadBy(k) \/ conn'[k] = conn[k]
    BY <1>4 DEF Reading
  <2> QED BY <1>2, <2>1 DEF ReadBy, AsksFrom
<1>5. CASE Serving
  <2>1. conn'[k].near = conn[k].near
    BY <1>5 DEF Serving, Served
  <2>2. CASE conn'[k].far = conn[k].far
    BY <1>2, <2>1, <2>2 DEF AsksFrom
  <2>3. CASE conn'[k].far # conn[k].far
    <3>1. conn'[k].far = "closed"
      BY <1>5, <2>3 DEF Serving, Served
    <3>2. ~BridgeStep /\ ~ChromeStep
      BY <2>3, SentKeepsEnds
    <3>3. ~ClientStep
      <4>1. SUFFICES ASSUME Handling PROVE FALSE
        BY ClientKeeps
      <4> QED BY <2>3, <4>1 DEF Handling, Handled, AsksFrom
    <3>4. ~\E j \in Conn : DaemonReads(j)
      <4>1. SUFFICES ASSUME NEW j \in Conn, DaemonReads(j) PROVE FALSE
        OBVIOUS
      <4>2. ReadBy(k) \/ conn'[k] = conn[k]
        BY <4>1, DaemonReadsKeeps
      <4> QED BY <2>3, <4>2 DEF ReadBy, AsksFrom
    <3>5. PICK j \in Conn : ClientGone(j)
      BY <3>2, <3>3, <3>4 DEF Next, ServerStep
    <3>6. j = k
      BY <2>3, <3>5 DEF ClientGone, ConnOK
    <3>7. conn[k].near \in Gone
      BY <3>5, <3>6 DEF ClientGone, Gone
    <3> QED BY <1>2, <2>1, <3>1, <3>7 DEF AsksFrom
  <2> QED BY <2>2, <2>3
<1> QED BY <1>1, <1>3, <1>4, <1>5

(* A request is for a client that asked.                                   *)
LEMMA AskedByClient ==
  ASSUME ConnOK, MuxOK, RequestsOK, Next
  PROVE  /\ WaitOK'
         /\ \A e \in mux'.inFlight : AsksFrom(e.conn, e.client) /\ e.conn \in Conn /\ e.client \in Client
         /\ \A w \in waiting' : AsksFrom(w.conn, w.client) /\ w.conn \in Conn /\ w.client \in Client
<1> DEFINE Asked(E) == \A e \in E : AsksFrom(e.conn, e.client) /\ e.conn \in Conn /\ e.client \in Client
<1> DEFINE Goal == WaitOK' /\ Asked(mux'.inFlight) /\ Asked(waiting')
<1>1. Asked(mux.inFlight) /\ Asked(waiting)
  BY DEF RequestsOK, WaitOK, MuxOK, Entry
<1>2. ASSUME mux'.inFlight \subseteq mux.inFlight, waiting' \subseteq waiting PROVE Goal
  BY <1>1, <1>2 DEF RequestsOK, WaitOK
<1>3. ASSUME NEW c \in Client, NEW k \in Conn, NEW req, AsksFrom(k, c), Dispatch(c, k, req),
             waiting' \subseteq waiting
      PROVE  Goal
  <2> DEFINE e == [daemonId |-> mux.next, client |-> c, conn |-> k, req |-> req, gen |-> bridge.generation]
  <2>1. mux'.inFlight = mux.inFlight \cup {e} /\ e.conn = k /\ e.client = c
    BY <1>3 DEF Dispatch
  <2> HIDE DEF e
  <2> QED BY <1>1, <1>3, <2>1 DEF RequestsOK, WaitOK
<1>4. ASSUME NEW c \in Client, NEW k \in Conn, NEW req \in Request, AsksFrom(k, c), UNCHANGED mux,
             waiting' = waiting \cup {[client |-> c, conn |-> k, req |-> req]}
      PROVE  Goal
  <2> DEFINE w == [client |-> c, conn |-> k, req |-> req]
  <2>1. w.conn = k /\ w.client = c /\ waiting' = waiting \cup {w}
    BY <1>4
  <2>2. w \in [client : Client, conn : Conn, req : Request]
    OBVIOUS
  <2> HIDE DEF w
  <2> QED BY <1>1, <1>4, <2>1, <2>2 DEF RequestsOK, WaitOK
<1>5. \A E : Forget(E) => mux'.inFlight \subseteq mux.inFlight
  BY DEF Forget, MuxOK
<1> HIDE DEF Goal
<1>6. CASE ClientStep
  <2>1. UNCHANGED <<mux, waiting>>
    BY <1>6, ClientKeeps DEF daemonVars
  <2> QED BY <1>2, <2>1 DEF Goal
<1>7. CASE BridgeStep
  <2>1. ASSUME NEW w \in waiting, WaitEnds(w) PROVE Goal
    <3>1. w.client \in Client /\ w.conn \in Conn /\ AsksFrom(w.conn, w.client)
      BY <1>1
    <3>2. waiting' \subseteq waiting /\ (UNCHANGED mux \/ Dispatch(w.client, w.conn, w.req))
      BY <2>1 DEF WaitEnds
    <3> QED BY <1>2, <1>3, <3>1, <3>2
  <2>2. ASSUME NEW e \in mux.inFlight, RequestTimeout(e) PROVE Goal
    BY <1>2, <1>5, <2>2 DEF RequestTimeout
  <2>3. ASSUME NEW g \in Attempt, NEW found \in BOOLEAN,
               Discovered(g, found) \/ SocketOpens(g) \/ AttemptTimeout(g) \/ SocketGone(g)
        PROVE  Goal
    <3>1. UNCHANGED waiting /\ (UNCHANGED mux \/ \E E : Forget(E))
      BY <2>3 DEF Discovered, SocketOpens, AttemptTimeout, SocketGone, Fail, Reject
    <3> QED BY <1>2, <1>5, <3>1
  <2> QED BY <1>7, <2>1, <2>2, <2>3 DEF BridgeStep, Goal
<1>8. CASE ChromeStep
  <2>1. UNCHANGED waiting /\ (UNCHANGED mux \/ \E E : Forget(E))
    BY <1>8 DEF ChromeStep, SocketDrops, Answer, ChromeEvent
  <2> QED BY <1>2, <1>5, <2>1 DEF Goal
<1>9. CASE ServerStep
  <2>1. ASSUME NEW k \in Conn, DaemonReads(k) PROVE Goal
    <3> DEFINE line == Head(conn[k].up)
    <3>1. \/ UNCHANGED <<mux, waiting>>
          \/ line.type = "request" /\ conn[k].far = "registered" /\ UNCHANGED waiting
               /\ Dispatch(conn[k].client, k, line.req)
          \/ line.type = "request" /\ conn[k].far = "registered" /\ UNCHANGED mux
               /\ waiting' = waiting \cup {[client |-> conn[k].client, conn |-> k, req |-> line.req]}
      BY <2>1 DEF DaemonReads, daemonVars
    <3>2. line.type = "request" => line.req \in Request /\ conn[k].client \in Client
      BY <2>1, ReadRequest
    <3>3. conn[k].far = "registered" => AsksFrom(k, conn[k].client)
      BY DEF AsksFrom
    <3> HIDE DEF line
    <3> QED BY <1>2, <1>3, <1>4, <3>1, <3>2, <3>3
  <2>2. ASSUME NEW k \in Conn, ClientGone(k) PROVE Goal
    BY <1>2, <2>2 DEF ClientGone
  <2>3. ASSUME NEW fired \in BOOLEAN, Shutdown(fired) PROVE Goal
    BY <1>2, <1>5, <2>3 DEF Shutdown
  <2> QED BY <1>9, <2>1, <2>2, <2>3 DEF ServerStep, Goal
<1> QED BY <1>6, <1>7, <1>8, <1>9 DEF Next

LEMMA KeepsRequests ==
  ASSUME ConnOK, MuxOK, RouterOK, RequestsOK, Next
  PROVE  RequestsOK'
<1>1. CASE \E fired \in BOOLEAN : Shutdown(fired)
  <2>1. mux'.inFlight = {} /\ waiting' = {}
    BY <1>1 DEF Shutdown, Forget, MuxOK
  <2> QED BY <2>1 DEF RequestsOK, WaitOK
<1>2. CASE ~\E fired \in BOOLEAN : Shutdown(fired)
  <2>1. \A e \in mux'.inFlight : AsksFrom(e.conn, e.client)'
    BY <1>2, AskedByClient, StillAsks
  <2>2. \A w \in waiting' : AsksFrom(w.conn, w.client)'
    BY <1>2, AskedByClient, StillAsks
  <2> QED BY <2>1, <2>2, AskedByClient DEF RequestsOK
<1> QED BY <1>1, <1>2

-----------------------------------------------------------------------------
(* The idle timer runs while nobody is registered: a registration stops    *)
(* it, and only the last client to leave starts it again.                  *)
IdleOK == idle \in BOOLEAN /\ IdleMeansNoClients

LEMMA SameClientsSameTimer ==
  ASSUME IdleOK, UNCHANGED idle, bridge'.up = bridge.up,
         \A k \in Conn : conn'[k].far = "registered" <=> conn[k].far = "registered"
  PROVE  IdleOK'
<1>1. Registered' = Registered
  BY DEF Registered
<1> QED BY <1>1 DEF IdleOK, IdleMeansNoClients

LEMMA KeepsIdle ==
  ASSUME BridgeOK, ConnOK, MuxOK, RouterOK, RequestsOK, IdleOK, Next
  PROVE  IdleOK'
<1>1. CASE ClientStep
  <2>1. Handling /\ UNCHANGED daemonVars
    BY <1>1, ClientKeeps
  <2>2. \A k \in Conn : conn'[k].far = "registered" <=> conn[k].far = "registered"
    BY <2>1 DEF Handling, Handled
  <2> QED BY <2>1, <2>2, SameClientsSameTimer DEF daemonVars
<1>2. CASE BridgeStep \/ ChromeStep
  <2>1. UNCHANGED idle
    BY <1>2 DEF BridgeStep, ChromeStep, Discovered, SocketOpens, AttemptTimeout, SocketGone, WaitEnds,
                RequestTimeout, SocketDrops, Answer, ChromeEvent
  <2>2. bridge'.up = bridge.up
    <3>1. ASSUME NEW g \in Attempt, Fail(g, TRUE) \/ Fail(g, FALSE) \/ Fail(g, bridge.socket = g)
          PROVE  bridge'.up = bridge.up
      BY <3>1, FailedEffect DEF Fail, BridgeOK
    <3>2. BridgeStep => bridge'.up = bridge.up
      BY <3>1 DEF BridgeStep, Discovered, SocketOpens, AttemptTimeout, SocketGone, WaitEnds, RequestTimeout,
                  BridgeOK, Bridge
    <3>3. ChromeStep => bridge'.up = bridge.up
      BY DEF ChromeStep, SocketDrops, Answer, ChromeEvent
    <3> QED BY <1>2, <3>2, <3>3
  <2> QED BY <1>2, <2>1, <2>2, SentKeepsEnds, SameClientsSameTimer
<1>3. ASSUME NEW k \in Conn, DaemonReads(k) PROVE IdleOK'
  <2>1. bridge'.up = bridge.up
    <3>1. UNCHANGED bridge \/ TryConnect
      BY <1>3 DEF DaemonReads, daemonVars
    <3> QED BY <3>1 DEF TryConnect, BridgeOK, Bridge
  <2>2. ReadBy(k) /\ \A j \in Conn \ {k} : conn'[j] = conn[j]
    BY <1>3, DaemonReadsKeeps
  <2>3. \/ UNCHANGED idle /\ conn'[k].far \in {conn[k].far, "closed"} /\ (conn'[k].far # conn[k].far => conn[k].far = "anon")
        \/ idle' = FALSE /\ conn'[k].far = "registered"
    <3>1. conn[k] \in Link
      BY DEF ConnOK
    <3> QED BY <1>3, <3>1 DEF DaemonReads, daemonVars, Link, ConnOK
  <2>4. CASE UNCHANGED idle /\ (conn'[k].far = "registered" <=> conn[k].far = "registered")
    <3>1. \A j \in Conn : conn'[j].far = "registered" <=> conn[j].far = "registered"
      BY <2>2, <2>4
    <3> QED BY <2>1, <2>4, <3>1, SameClientsSameTimer
  <2>5. CASE idle' = FALSE /\ conn'[k].far = "registered"
    <3>1. Registered' # {}
      BY <2>5 DEF Registered
    <3> QED BY <2>5, <3>1 DEF IdleOK, IdleMeansNoClients
  <2> QED BY <2>3, <2>4, <2>5
<1>4. ASSUME NEW k \in Conn, ClientGone(k) PROVE IdleOK'
  <2>1. UNCHANGED bridge /\ bridge.up
    BY <1>4 DEF ClientGone
  <2>2. /\ conn'[k].far = "closed" /\ \A j \in Conn \ {k} : conn'[j] = conn[j]
    BY <1>4 DEF ClientGone, ConnOK, Link
  <2>3. CASE conn[k].far = "registered"
    <3>1. Registered' = Registered \ {k} /\ k \in Registered
      BY <2>2, <2>3 DEF Registered
    <3>2. idle' = (Registered = {k})
      BY <1>4, <2>3 DEF ClientGone, Rearmed
    <3> QED BY <2>1, <3>1, <3>2 DEF IdleOK, IdleMeansNoClients
  <2>4. CASE conn[k].far # "registered"
    <3>1. UNCHANGED idle
      BY <1>4, <2>4 DEF ClientGone
    <3>2. \A j \in Conn : conn'[j].far = "registered" <=> conn[j].far = "registered"
      BY <2>2, <2>4
    <3> QED BY <2>1, <3>1, <3>2, SameClientsSameTimer
  <2> QED BY <2>3, <2>4
<1>5. ASSUME NEW fired \in BOOLEAN, Shutdown(fired) PROVE IdleOK'
  <2>1. idle' = FALSE /\ bridge'.up = FALSE
    BY <1>5 DEF Shutdown, BridgeOK, Bridge
  <2> QED BY <2>1 DEF IdleOK, IdleMeansNoClients
<1> QED BY <1>1, <1>2, <1>3, <1>4, <1>5 DEF Next, ServerStep

-----------------------------------------------------------------------------
(* The inductive invariant.  A request that is in flight, or waits for     *)
(* Chrome, is there for a client that is still registered or whose end is  *)
(* gone, so that an answer is always sent to a connection that can hear it *)
(* or to none; sessions belong to clients that have them or are about to   *)
(* hear of them.                                                           *)
DaemonInv ==
  /\ BridgeOK /\ MuxOK /\ RouterOK /\ ConnOK /\ RequestsOK /\ OwnersOK /\ IdleOK
  /\ AnswersMatch /\ EventsFollowAttach

LEMMA InitDaemon == Init => DaemonInv
<1> SUFFICES ASSUME Init PROVE DaemonInv
  OBVIOUS
<1>1. <<>> \in Seq(UpLine) /\ <<>> \in Seq(Line)
  BY EmptySeq
<1>2. conn \in [Conn -> Link]
  BY <1>1 DEF Init, Link, Near, Far
<1>3. tr \in [Client -> Transport]
  BY DaemonAssumption DEF Init, Transport
<1>4. ConnOK
  BY <1>2, <1>3, DaemonAssumption DEF Init, ConnOK, WireOK, TransportOK
<1>5. BridgeOK
  <2>1. 1 \in Attempt /\ 1 \in 0..MaxAttempts /\ 0 \in 0..MaxAttempts
    BY DaemonAssumption DEF Attempt
  <2>2. bridge \in Bridge
    BY <2>1 DEF Init, Bridge
  <2>3. attempt \in [Attempt -> Try]
    BY DEF Init, Try
  <2>4. \A g \in Attempt : g > 1 => g # 1
    BY DEF Attempt
  <2> QED BY <2>1, <2>2, <2>3, <2>4 DEF Init, BridgeOK, Attempts, Untried, OpenIsCurrent
<1>6. MuxOK
  BY FS_EmptySet DEF Init, MuxOK, Ids, RequestsFailWithSocket
<1>7. RouterOK /\ OwnersOK
  BY DaemonAssumption DEF Init, RouterOK, OwnersOK
<1>8. RequestsOK
  BY DEF Init, RequestsOK, WaitOK
<1>9. IdleOK
  BY DEF Init, IdleOK, IdleMeansNoClients, Registered
<1>10. AnswersMatch /\ EventsFollowAttach
  BY DEF Init, AnswersMatch, EventsFollowAttach
<1> QED BY <1>4, <1>5, <1>6, <1>7, <1>8, <1>9, <1>10 DEF DaemonInv

LEMMA StutterKeepsDaemon ==
  ASSUME DaemonInv, UNCHANGED vars
  PROVE  DaemonInv'
<1> USE DEF DaemonInv, vars
<1>1. BridgeOK' /\ MuxOK' /\ RouterOK'
  BY DEF BridgeOK, Attempts, Untried, OpenIsCurrent, MuxOK, Ids, RequestsFailWithSocket, RouterOK
<1>2. ConnOK'
  BY DEF ConnOK, WireOK, TransportOK, Settling
<1>3. RequestsOK' /\ IdleOK'
  BY DEF RequestsOK, WaitOK, AsksFrom, IdleOK, IdleMeansNoClients, Registered
<1>4. OwnersOK'
  BY DEF OwnersOK, Known, Granted, Elsewhere
<1>5. AnswersMatch' /\ EventsFollowAttach'
  BY DEF AnswersMatch, EventsFollowAttach
<1> QED BY <1>1, <1>2, <1>3, <1>4, <1>5

(* The daemon's invariant: connections, transports, attempts, requests and *)
(* sessions stay in step through every interleaving of the clients, the    *)
(* daemon and Chrome.                                                      *)
THEOREM DaemonInvariant == Spec => []DaemonInv
<1>1. DaemonInv /\ [Next]_vars => DaemonInv'
  <2> SUFFICES ASSUME DaemonInv, [Next]_vars PROVE DaemonInv'
    OBVIOUS
  <2>1. CASE Next
    <3>1. /\ BridgeOK /\ MuxOK /\ RouterOK /\ ConnOK /\ RequestsOK /\ OwnersOK /\ IdleOK
          /\ AnswersMatch /\ EventsFollowAttach
      BY DEF DaemonInv
    <3>2. ConnOK' /\ (Handling \/ Serving \/ Reading)
      BY <2>1, <3>1, NextTreats
    <3>3. BridgeOK' /\ MuxOK' /\ RouterOK' /\ RequestsOK'
      BY <2>1, <3>1, KeepsBridge, KeepsMux, KeepsRouter, KeepsRequests DEF RequestsOK
    <3>4. OwnersOK' /\ IdleOK'
      BY <2>1, <3>1, KeepsOwners, KeepsIdle
    <3>5. AnswersMatch' /\ EventsFollowAttach'
      BY <3>1, <3>2, KeepsAnswers, KeepsEvents
    <3> QED BY <3>2, <3>3, <3>4, <3>5 DEF DaemonInv
  <2> QED BY <2>1, StutterKeepsDaemon
<1> QED BY <1>1, InitDaemon, PTL DEF Spec

(* Whatever interleaving of clients, daemon and Chrome: the types hold, an *)
(* event of a session never overtakes the answer that gave it to the       *)
(* client, the daemon counts down to its exit exactly while nobody is      *)
(* registered, and an awaited connect() has something to come that settles *)
(* it (Inv of the run browser_daemon).                                     *)
THEOREM ConnectionsAreServed == Spec => []Inv
<1>1. DaemonInv => Inv
  <2> SUFFICES ASSUME DaemonInv PROVE Inv
    OBVIOUS
  <2>1. TypeOK
    <3>1. conn \in [Conn -> Link] /\ tr \in [Client -> Transport]
      BY DEF DaemonInv, ConnOK
    <3>2. /\ mux \in [next : Nat \ {0}, inFlight : SUBSET Entry] /\ RouterOK
          /\ chrome \in [asked : SUBSET Entry, given : SUBSET Session, live : SUBSET Session]
          /\ bridge \in Bridge /\ attempt \in [Attempt -> Try] /\ WaitOK /\ idle \in BOOLEAN
      BY DEF DaemonInv, MuxOK, BridgeOK, RequestsOK, IdleOK
    <3> QED BY <3>1, <3>2 DEF TypeOK, Link, UpLine, Line, Transport, RouterOK, Bridge, Try, WaitOK
  <2>2. ConnectSettles
    <3> SUFFICES ASSUME NEW c \in Client, tr[c].dialing # NoConn
                 PROVE  LET k == conn[tr[c].dialing] IN
                        \/ k.near \in {"connecting", "aborted", "closing"}
                        \/ k.near = "open" /\ (k.up # <<>> \/ k.down # <<>> \/ k.far = "closed")
      BY DEF ConnectSettles
    <3>1. Settling(tr[c].dialing)
      BY DEF DaemonInv, ConnOK, TransportOK
    <3> QED BY <3>1 DEF Settling
  <2> QED BY <2>1, <2>2 DEF DaemonInv, IdleOK, Inv
<1> QED BY <1>1, DaemonInvariant, PTL

(* An answer of Chrome's reaches the client that asked, under the id it    *)
(* asked with, whatever entries timed out or were rejected in between.     *)
THEOREM AnswersReachTheirRequest == Spec => []AnswersMatch
<1>1. DaemonInv => AnswersMatch
  BY DEF DaemonInv
<1> QED BY <1>1, DaemonInvariant, PTL

(* When a socket to Chrome ends, no request that was sent on it is left to *)
(* wait for its command timeout, whichever attempt has replaced it.        *)
THEOREM RequestsEndWithSocket == Spec => []RequestsFailWithSocket
<1>1. DaemonInv => RequestsFailWithSocket
  BY DEF DaemonInv, MuxOK
<1> QED BY <1>1, DaemonInvariant, PTL
=============================================================================
