------------------------------ MODULE Applications ------------------------------
(***************************************************************************)
(* An API application (api-server/application-runtime.ts and               *)
(* application-store.ts): messages that are coalesced, resolved to the     *)
(* session of their route and prompted, Direct Mode calls, roll-overs,     *)
(* removal of the active session, session files created and deleted by     *)
(* hand, reloads of the runtime and crashes of the process.  A call acts   *)
(* under the queue key it joined; the store is synchronous, the session    *)
(* files are not.  A definition commented "mutant" is the faulty form of   *)
(* the next one.                                                           *)
(***************************************************************************)
EXTENDS Naturals, FiniteSets, SequencesExt

CONSTANTS
  Call,         \* HTTP requests to the application
  Identity,     \* identity keys
  Profile, Prefix,
  Mapping,      \* application_identity_mappings: the route of each identity, or Ignored
  Ignored,
  NoId,
  Foreign,      \* ids that do not have the form of those that the store makes up
  Names,        \* the ids that a Direct Mode client or an operator may bring
  Kinds,        \* what each call may be: an operation for an identity
  MaxEvents      \* bound on midnights, reloads, crashes and changes by hand together

Route == [profile : Profile, prefix : Prefix]
Type == {"stateful", "stateless"}
Op == {"message", "direct", "named", "stateless", "rollover"}

Days == 1..MaxEvents + 1
(* An id of the form of nextSessionId, of a prefix, a day and a sequence   *)
(* number, or one of another form.  Whoever may name a session may name    *)
(* one that the store has made up, or would make up next.                  *)
MadeUp == [prefix : Prefix, day : Days, seq : Nat \ {0}]
Id == MadeUp \cup Foreign

ASSUME ApplicationsAssumption ==
  /\ Mapping \in [Identity -> Route \cup {Ignored}] /\ Ignored \notin Route /\ NoId \notin Route
  /\ Kinds \in [Call -> SUBSET (Op \X Identity)] /\ Identity # {}
  /\ Names \subseteq Id /\ NoId \notin Id
  /\ MaxEvents \in Nat

VARIABLES
  call,
  buffer,      \* coalescingBuffers, of each runtime and identity
  timers,      \* coalescingTimers, of each runtime, in the order they were set
  queue,       \* queues: who waits for a key, the first one runs
  file,        \* session files of each profile
  rows,        \* application_sessions
  current,     \* application_session_state
  created, deleted,  \* the files of each profile that were made and deleted by hand
  day, reloads, crashes, edits

byHand == <<created, deleted>>
bounds == <<day, reloads, crashes, edits>>
vars == <<call, buffer, timers, queue, file, rows, current, created, deleted, day, reloads, crashes, edits>>

Ended == {"done", "ignored", "failed", "refused", "conflict", "interrupted", "lost"}
At == {"new", "inbound", "buffered", "merged", "queued", "list", "write", "record", "handoff", "prompt", "prompting"} \cup Ended
Runtime == 0..MaxEvents
Key == [runtime : Runtime, route : Route, of : ({"day"} \X Days) \cup ({"stateless"} \X {0}) \cup ({"named"} \X Id)]
NoKey == [runtime |-> 0, route |-> NoId, of |-> <<"day", 1>>]

TypeOK ==
  /\ call \in [Call -> [op : Op, identity : Identity, runtime : Runtime, route : Route \cup {NoId}, at : At,
                        key : Key \cup {NoKey}, id : Id \cup {NoId}, entries : Seq(Call), sent : Nat]]
  /\ buffer \in [Runtime -> [Identity -> [version : Nat, entries : Seq(Call)]]]
  /\ timers \in [Runtime -> Seq([identity : Identity, version : Nat])]
  /\ queue \in [Runtime -> Seq(Call)]
  /\ file \in [Profile -> SUBSET Id] /\ created \in [Profile -> SUBSET Id] /\ deleted \in [Profile -> SUBSET Id]
  /\ rows \in SUBSET [id : Id, route : Route, type : Type, day : Days, seq : Nat \ {0}]
  /\ current \in [Route -> [Type -> Id \cup {NoId}]]
  /\ day \in Days /\ reloads \in Runtime /\ crashes \in 0..MaxEvents /\ edits \in 0..MaxEvents

Empty == [version |-> 0, entries |-> <<>>]
Init ==
  /\ call = [c \in Call |-> [op |-> "message", identity |-> CHOOSE i \in Identity : TRUE, runtime |-> 0, route |-> NoId,
                             at |-> "new", key |-> NoKey, id |-> NoId, entries |-> <<>>, sent |-> 0]]
  /\ buffer = [g \in Runtime |-> [i \in Identity |-> Empty]]
  /\ timers = [g \in Runtime |-> <<>>] /\ queue = [g \in Runtime |-> <<>>]
  /\ file = [p \in Profile |-> {}] /\ created = file /\ deleted = file /\ rows = {}
  /\ current = [r \in Route |-> [t \in Type |-> NoId]]
  /\ day = 1 /\ reloads = 0 /\ crashes = 0 /\ edits = 0

-----------------------------------------------------------------------------
(* The store.                                                              *)
TypeOf(c) == IF call[c].op = "stateless" THEN "stateless" ELSE "stateful"
SequenceOfProfile(route, d) == 1 + Max({0} \cup {x.seq : x \in {y \in rows : y.route = route /\ y.day = d}})   \* mutant
Sequence(route, d) == 1 + Max({0} \cup {x.seq : x \in {y \in rows : y.route.prefix = route.prefix /\ y.day = d}})
NextSessionId(route) == [prefix |-> route.prefix, day |-> day, seq |-> Sequence(route, day)]

CurrentOfRoute(route, type, id) == [current EXCEPT ![route] = [t \in Type |-> id]]       \* mutant
CurrentSet(route, type, id) == [current EXCEPT ![route][type] = id]

(* createSession: an id belongs to one route and type for ever.            *)
Associated(id, route, type) == \E x \in rows : x.id = id /\ (x.route # route \/ x.type # type)
Recorded(id, route, type) ==
  IF \E x \in rows : x.id = id THEN rows
  ELSE rows \cup {[id |-> id, route |-> route, type |-> type, day |-> day, seq |-> Sequence(route, day)]}

-----------------------------------------------------------------------------
(* withQueue.                                                              *)
KeyOf(c, route) ==
  [runtime |-> call[c].runtime, route |-> route,
   of |-> CASE call[c].op = "stateless" -> <<"stateless", 0>> [] call[c].op = "named" -> <<"named", call[c].id>>
            [] OTHER -> <<"day", day>>]
BehindNobody(c) == {}                                                                    \* mutant
Place(c) == CHOOSE n \in DOMAIN queue[call[c].runtime] : queue[call[c].runtime][n] = c
Behind(c) ==
  LET q == queue[call[c].runtime]
  IN  {q[j] : j \in {n \in 1..Place(c) - 1 : call[q[n]].key = call[c].key}}
Joined(c) == [queue EXCEPT ![call[c].runtime] = Append(@, c)]
Left(c) == [queue EXCEPT ![call[c].runtime] = RemoveAt(@, Place(c))]

Go(c, at) == call' = [call EXCEPT ![c].at = at]
EntriesOf(c) == Range(call[c].entries)
(* The dispatch of c ended: so do the calls merged into it.                *)
Settled(c, at) ==
  [d \in Call |-> IF d \in EntriesOf(c) \cup {c} THEN [call[d] EXCEPT !.at = at] ELSE call[d]]
Settle(c, at) == call' = Settled(c, at)

(* The request is answered by the runtime of the moment: the transform and *)
(* inbound handlers are awaited; a route is resolved when they are done.   *)
(* A Direct Mode call may bring any session id.                            *)
Receive(c, op, i, id) ==
  /\ call[c].at = "new" /\ <<op, i>> \in Kinds[c]
  /\ IF op = "named" THEN id \in Names ELSE id = NoId
  /\ call' = [call EXCEPT ![c].op = op, ![c].identity = i, ![c].id = id, ![c].runtime = reloads, ![c].at = "inbound"]
  /\ UNCHANGED <<buffer, timers, queue, file, rows, current, byHand, bounds>>

InboundFails(c) ==
  /\ call[c].at = "inbound"
  /\ Settle(c, "failed")
  /\ UNCHANGED <<buffer, timers, queue, file, rows, current, byHand, bounds>>

(* process() up to collect(); processDirect() and rollover() up to their   *)
(* queue.  Only messages are coalesced, and only when the setting is on.   *)
Collect(c, coalescing) ==
  LET g == call[c].runtime
      i == call[c].identity
      b == buffer[g][i]
      routed == [call EXCEPT ![c].route = Mapping[i]]
  IN /\ call[c].at = "inbound"
     /\ IF Mapping[i] = Ignored
        THEN /\ Go(c, "ignored")
             /\ UNCHANGED <<buffer, timers, queue>>
        ELSE IF coalescing /\ call[c].op = "message"
        THEN /\ buffer' = [buffer EXCEPT ![g][i] = [version |-> b.version + 1, entries |-> Append(b.entries, c)]]
             /\ timers' = [timers EXCEPT ![g] = Append(@, [identity |-> i, version |-> b.version + 1])]
             /\ call' = [routed EXCEPT ![c].at = "buffered"]
             /\ UNCHANGED queue
        ELSE /\ call' = [routed EXCEPT ![c].at = "queued", ![c].entries = <<c>>, ![c].key = KeyOf(c, Mapping[i])]
             /\ queue' = Joined(c)
             /\ UNCHANGED <<buffer, timers>>
     /\ UNCHANGED <<file, rows, current, byHand, bounds>>

Flushed(g, i) == [buffer EXCEPT ![g][i] = Empty]
(* A timer fires: in any order, for silenceDebounceSeconds may have been   *)
(* changed meanwhile.  That of the buffer's version dispatches its last    *)
(* message with all the others merged into it.                             *)
Flush(g, n) ==
  LET t == timers[g][n]
      b == buffer[g][t.identity]
      leader == Last(b.entries)
  IN /\ timers' = [timers EXCEPT ![g] = RemoveAt(@, n)]
     /\ IF b.entries # <<>> /\ b.version = t.version
        THEN /\ buffer' = Flushed(g, t.identity)
             /\ call' = [d \in Call |->
                  IF d = leader THEN [call[d] EXCEPT !.at = "queued", !.entries = b.entries, !.key = KeyOf(d, call[d].route)]
                  ELSE IF d \in Range(b.entries) THEN [call[d] EXCEPT !.at = "merged"] ELSE call[d]]
             /\ queue' = Joined(leader)
        ELSE UNCHANGED <<buffer, call, queue>>
     /\ UNCHANGED <<file, rows, current, byHand, bounds>>

-----------------------------------------------------------------------------
(* resolveSession, resolveDirectSession and rollover, one at a time per    *)
(* key: the current session, or a new one.                                 *)
Resolve(c) ==
  LET r == call[c].route
      now == current[r][TypeOf(c)]
  IN /\ call[c].at = "queued" /\ Behind(c) = {}
     /\ IF call[c].op \in {"message", "direct", "stateless"} /\ now # NoId
        THEN /\ queue' = Left(c)
             /\ call' = [call EXCEPT ![c].id = now, ![c].at = IF call[c].op = "message" THEN "handoff" ELSE "prompt"]
        ELSE /\ queue' = queue
             /\ call' = [call EXCEPT ![c].id = IF call[c].op = "named" THEN call[c].id ELSE NextSessionId(r),
                                     ![c].at = IF call[c].op = "stateless" THEN "record" ELSE "list"]
     /\ UNCHANGED <<buffer, timers, file, rows, current, byHand, bounds>>

Missing(c) == "write"
(* listSessions: a file that an interrupted call left is reclaimed.        *)
List(c) ==
  /\ call[c].at = "list"
  /\ Go(c, IF call[c].id \in file[call[c].route.profile] THEN "record" ELSE Missing(c))
  /\ UNCHANGED <<buffer, timers, queue, file, rows, current, byHand, bounds>>

(* api.createSession lists once more before it writes.                     *)
Write(c) ==
  LET p == call[c].route.profile IN
  /\ call[c].at = "write"
  /\ IF call[c].id \in file[p] THEN Settle(c, "conflict") /\ queue' = Left(c) /\ file' = file
     ELSE Go(c, "record") /\ file' = [file EXCEPT ![p] = @ \cup {call[c].id}] /\ queue' = queue
  /\ UNCHANGED <<buffer, timers, rows, current, byHand, bounds>>

Record(c) ==
  LET r == call[c].route
      id == call[c].id
  IN /\ call[c].at = "record"
     /\ queue' = IF call[c].op = "rollover" /\ ~Associated(id, r, TypeOf(c)) THEN queue ELSE Left(c)
     /\ IF Associated(id, r, TypeOf(c)) THEN Settle(c, "conflict") /\ UNCHANGED <<rows, current>>
        ELSE /\ rows' = Recorded(id, r, TypeOf(c)) /\ current' = CurrentSet(r, TypeOf(c), id)
             /\ Go(c, IF call[c].op \in {"message", "rollover"} THEN "handoff" ELSE "prompt")
     /\ UNCHANGED <<buffer, timers, file, byHand, bounds>>

(* The session manager fails to list or to create, at the latest when the  *)
(* file is written, the store to record; after the row of a roll-over, the *)
(* Pulses of the thread cannot be moved.  The queue goes on.               *)
ResolutionFails(c) ==
  /\ call[c].at \in {"list", "write", "record"} \/ (call[c].at = "handoff" /\ call[c].op = "rollover")
  /\ \/ file' = file
     \/ call[c].at = "write" /\ file' = [file EXCEPT ![call[c].route.profile] = @ \cup {call[c].id}]
  /\ Settle(c, "failed") /\ queue' = Left(c)
  /\ UNCHANGED <<buffer, timers, rows, current, byHand, bounds>>

(* relevantHandoff: a failure is logged and then ignored; a roll-over      *)
(* keeps its queue until the handoff is written, or failed.                *)
Handoff(c) ==
  /\ call[c].at = "handoff"
  /\ IF call[c].op = "rollover" THEN Go(c, "done") /\ queue' = Left(c) ELSE Go(c, "prompt") /\ queue' = queue
  /\ UNCHANGED <<buffer, timers, file, rows, current, byHand, bounds>>

(* api.prompt refuses a session that is prompted; promptStateless only     *)
(* that of a sandboxed profile.  A session whose file is gone is not found.*)
Prompt(c, sandboxed) ==
  LET p == call[c].route.profile
      busy == \E d \in Call : call[d].at = "prompting" /\ call[d].id = call[c].id /\ call[d].route.profile = p
  IN /\ call[c].at = "prompt"
     /\ IF busy /\ (TypeOf(c) = "stateful" \/ sandboxed) THEN Settle(c, "refused")
        ELSE IF TypeOf(c) = "stateful" /\ call[c].id \notin file[p] THEN Settle(c, "failed")
        ELSE call' = [d \in Call |-> LET e == IF d = c THEN [call[d] EXCEPT !.at = "prompting"] ELSE call[d]
                                     IN IF d \in EntriesOf(c) THEN [e EXCEPT !.sent = @ + 1] ELSE e]
     /\ UNCHANGED <<buffer, timers, queue, file, rows, current, byHand, bounds>>

(* touchSession, the outbound handler and logs.finish.                     *)
Prompted(c, ok) ==
  /\ call[c].at = "prompting"
  /\ Settle(c, IF ok THEN "done" ELSE "failed")
  /\ UNCHANGED <<buffer, timers, queue, file, rows, current, byHand, bounds>>

-----------------------------------------------------------------------------
Eventful == day - 1 + reloads + crashes + edits < MaxEvents

(* loadApplication: dispose() of the runtime, and a new one.               *)
DisposedTimers(g) == UNCHANGED <<buffer, call>>                                          \* mutant
Disposed(g) ==
  /\ buffer' = [buffer EXCEPT ![g] = [i \in Identity |-> Empty]]
  /\ call' = [c \in Call |-> IF call[c].at = "buffered" /\ call[c].runtime = g
                             THEN [call[c] EXCEPT !.at = "interrupted"] ELSE call[c]]
Reload ==
  /\ Eventful
  /\ timers' = [timers EXCEPT ![reloads] = <<>>]
  /\ Disposed(reloads)
  /\ reloads' = reloads + 1
  /\ UNCHANGED <<queue, file, rows, current, byHand, day, crashes, edits>>

(* The process stops and starts again: its calls, buffers and queues are   *)
(* lost, the database and the session files stay.                          *)
Crash ==
  /\ Eventful /\ crashes' = crashes + 1
  /\ call' = [c \in Call |-> IF call[c].at \in Ended \cup {"new"} THEN call[c] ELSE [call[c] EXCEPT !.at = "lost"]]
  /\ buffer' = [g \in Runtime |-> [i \in Identity |-> Empty]]
  /\ timers' = [g \in Runtime |-> <<>>] /\ queue' = [g \in Runtime |-> <<>>]
  /\ UNCHANGED <<file, rows, current, byHand, day, reloads, edits>>

(* removeActiveSession: the row stays.                                     *)
RemoveActive(r, t) ==
  /\ Eventful /\ edits' = edits + 1
  /\ current[r][t] # NoId
  /\ current' = [current EXCEPT ![r] = [u \in Type |-> IF @[u] = current[r][t] THEN NoId ELSE @[u]]]
  /\ UNCHANGED <<call, buffer, timers, queue, file, rows, byHand, day, reloads, crashes>>

(* POST and DELETE of a profile's sessions.  Deletion leaves the rows of   *)
(* the application as they are; whether the session is busy is read before *)
(* it awaits.                                                              *)
Create(p, id) ==
  /\ Eventful /\ edits' = edits + 1
  /\ id \in Names \ file[p]
  /\ file' = [file EXCEPT ![p] = @ \cup {id}] /\ created' = [created EXCEPT ![p] = @ \cup {id}]
  /\ UNCHANGED <<call, buffer, timers, queue, rows, current, deleted, day, reloads, crashes>>

Delete(p, id) ==
  /\ Eventful /\ edits' = edits + 1
  /\ id \in file[p]
  /\ file' = [file EXCEPT ![p] = @ \ {id}] /\ deleted' = [deleted EXCEPT ![p] = @ \cup {id}]
  /\ UNCHANGED <<call, buffer, timers, queue, rows, current, created, day, reloads, crashes>>

Midnight ==
  /\ Eventful /\ day' = day + 1
  /\ UNCHANGED <<call, buffer, timers, queue, file, rows, current, byHand, reloads, crashes, edits>>

-----------------------------------------------------------------------------
Step(c) ==
  \/ InboundFails(c) \/ Resolve(c) \/ List(c) \/ Write(c) \/ Record(c) \/ Handoff(c) \/ ResolutionFails(c)
  \/ \E yes \in BOOLEAN : Collect(c, yes) \/ Prompt(c, yes) \/ Prompted(c, yes)
Fire == \E g \in Runtime : \E n \in DOMAIN timers[g] : Flush(g, n)
Next ==
  \/ \E c \in Call, op \in Op, i \in Identity, id \in Names \cup {NoId} : Receive(c, op, i, id)
  \/ \E c \in Call : Step(c)
  \/ Fire
  \/ Reload \/ Crash \/ Midnight
  \/ \E r \in Route, t \in Type : RemoveActive(r, t)
  \/ \E p \in Profile : (\E id \in Names : Create(p, id)) \/ (\E id \in file[p] : Delete(p, id))
Spec == Init /\ [][Next]_vars

-----------------------------------------------------------------------------
(* A message that waits in a buffer will be dispatched: the timer of the   *)
(* buffer's version is set, whatever other timers fire, and whatever       *)
(* runtime was disposed meanwhile.                                         *)
BufferedWillFlush ==
  /\ \A g \in Runtime, i \in Identity : buffer[g][i].entries # <<>> =>
       \E n \in DOMAIN timers[g] : timers[g][n] = [identity |-> i, version |-> buffer[g][i].version]
  /\ \A c \in Call : call[c].at = "buffered" => c \in Range(buffer[call[c].runtime][call[c].identity].entries)
  /\ \A c \in Call : call[c].at = "merged" => \E d \in Call : c \in EntriesOf(d) /\ call[d].at \notin Ended

(* However its messages are merged, each reaches the agent at most once.   *)
SentOnce == \A c \in Call : call[c].sent <= 1

(* The sequence of a day can go on: the next id of a route has no row,     *)
(* although two profiles share the prefix, ids are made up before their    *)
(* rows are written, and processes stop in between; else each call of that *)
(* day would end in a conflict (application-store.ts:35).  Only a client   *)
(* that named that very id, in the form the store makes up, can have       *)
(* brought its row (application-runtime.ts:280).                           *)
NextIdIsFree ==
  \A r \in Route, x \in rows : x.id = NextSessionId(r) =>
    \E c \in Call : call[c].op = "named" /\ call[c].id = x.id /\ call[c].route = x.route

(* A call fails on a session's id only when a call of another queue has    *)
(* that id too, be it named, made up or current there, or when somebody    *)
(* made a session of that id by hand.                                      *)
ConflictsComeFromOtherQueues ==
  \A c \in Call : call[c].at = "conflict" /\ call[c].id # NoId =>
    \/ call[c].id \in created[call[c].route.profile]
    \/ \E d \in Call : call[d].id = call[c].id /\ call[d].key \notin {NoKey, call[c].key}

(* The active session of a route can be opened: its row is that route's    *)
(* and its file exists, wherever the process stopped, unless somebody      *)
(* deleted the file by hand, which leaves it active (server.ts:317).       *)
CurrentExists ==
  \A r \in Route, t \in Type : LET id == current[r][t] IN id # NoId =>
    /\ \E x \in rows : x.id = id /\ x.route = r /\ x.type = t
    /\ t = "stateful" => id \in file[r.profile] \cup deleted[r.profile]

(* A conversation is not cut: where one queue served all the calls of a    *)
(* route, only a roll-over or an operator gives the route another session. *)
(* (Across midnight, a reload or a named session, two queues serve it.)    *)
Undivided(r, t) ==
  \A c, d \in Call :
    (call[c].key.route = r /\ call[d].key.route = r /\ {TypeOf(c), TypeOf(d)} = {t}) => call[c].key = call[d].key
ConversationContinues ==
  [][\A r \in Route, t \in Type :
       (Undivided(r, t) /\ current[r][t] # NoId /\ current'[r][t] \notin {NoId, current[r][t]})
         => \E c \in Call : call[c].at = "record" /\ TypeOf(c) = t /\ call[c].op \in {"rollover", "named"}]_vars

(* The types hold, the day's sequence can go on, the active sessions       *)
(* exist, no message reaches the agent twice, and no call of a queue       *)
(* conflicts with another of the same queue.                               *)
Inv == TypeOK /\ NextIdIsFree /\ CurrentExists /\ SentOnce /\ ConflictsComeFromOtherQueues
=============================================================================
