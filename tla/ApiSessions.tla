------------------------------ MODULE ApiSessions ------------------------------
(***************************************************************************)
(* The API server's sessions (api-server/server.ts, class ApiServer):      *)
(* requests that prompt, create and delete sessions, run one-shot          *)
(* completions, discover tools and delete profiles, interleaved at every   *)
(* await.  Prompts of a profile without sandbox run in this process, one   *)
(* at a time, with process.env replaced by the profile's environment;      *)
(* those of a sandboxed profile run in a child process.  A request opens   *)
(* at most one handle and writes at most one new file, which bear its      *)
(* name.  A definition commented "mutant" is the faulty form of the next.  *)
(***************************************************************************)
EXTENDS Naturals, Sequences, FiniteSets, Functions

CONSTANTS
  Request,
  NoRequest,
  Profile,
  Session,       \* pairs of profile and session id, as keys
  ProfileOf,     \* the profile of each session
  Var,           \* environment variables
  HostVar,       \* those of the host
  Defines,       \* those of each profile's .env
  Handoff,       \* PI_APPLICATION_HANDOFF
  Host, Unset,   \* values: the host's, none
  Asks,          \* what each request may ask for
  MaxChanges

First == "first"   \* the session file that is there from the beginning
Ops == {"prompt", "handoff", "oneshot", "discover", "create", "delete", "deleteProfile"}

ASSUME ApiAssumption ==
  /\ NoRequest \notin Request \cup Session /\ First \notin Request
  /\ ProfileOf \in [Session -> Profile]
  /\ HostVar \subseteq Var \ {Handoff} /\ Handoff \in Var /\ Defines \in [Profile -> SUBSET (Var \ {Handoff})]
  /\ Host # Unset /\ {Host, Unset} \cap (Profile \cup Request) = {}
  /\ Asks \in [Request -> SUBSET Ops]
  /\ MaxChanges \in Nat

VARIABLES
  profile,      \* directories and the sandbox setting
  file,         \* session files: their session and, per turn, the turn it extends
  handle,       \* SessionHandles
  cache,        \* ApiServer.sessions
  sandboxBusy,
  mutex,        \* the chain of profileBootstrap: requests in withProfileEnvironment
  holder,       \* the one whose operation runs
  env, old,     \* process.env, and what the holder restores
  tools,        \* toolDiscoveries and extensionTools
  loaded,       \* what an extension reload would find now
  req,
  overlap,      \* history: sessions two requests worked on at once
  switched      \* history: profiles whose sandbox was switched, or that were recreated

vars == <<profile, file, handle, cache, sandboxBusy, mutex, holder, env, old, tools, loaded, req, overlap, switched>>

File == Request \cup {First}
NoHandle == NoRequest
Value == Profile \cup Request \cup {Host, Unset}
Environments == [value : [Var -> Value], keys : SUBSET Var]
HostEnv == [value |-> [v \in Var |-> IF v \in HostVar THEN Host ELSE Unset], keys |-> {}]
Ended == {"done", "failed"}
At == {"new", "route", "sandbox", "find", "child", "lookup", "list", "opening", "check", "prompting", "oneshot",
       "join", "await", "exists", "write", "drop", "unlink", "rmdir"} \cup Ended

TypeOK ==
  /\ profile \in [Profile -> [exists : BOOLEAN, sandbox : BOOLEAN]]
  /\ file \in [File -> [session : Session \cup {NoRequest}, turns : Seq(Nat)]]
  /\ handle \in [Request -> [session : Session \cup {NoRequest}, file : File, leaf : Nat, busy : BOOLEAN]]
  /\ cache \in [Session -> Request \cup {NoHandle}]
  /\ sandboxBusy \in SUBSET Session
  /\ mutex \in Seq(Request) /\ holder \in Request \cup {NoRequest}
  /\ env \in Environments /\ old \in Environments
  /\ tools \in [Profile -> [entry : Request \cup {NoRequest}, known : SUBSET (0..MaxChanges)]]
  /\ loaded \in 0..MaxChanges
  /\ req \in [Request -> [op : Ops, s : Session \cup {NoRequest}, at : At, h : Request \cup {NoHandle},
                          f : File, child : Environments, gen : 0..MaxChanges]]
  /\ overlap \in SUBSET Session /\ switched \in SUBSET Profile

Init ==
  /\ profile \in [Profile -> [exists : {TRUE}, sandbox : BOOLEAN]]
  /\ \E s \in Session : file = [f \in File |-> IF f = First THEN [session |-> s, turns |-> <<0>>]
                                               ELSE [session |-> NoRequest, turns |-> <<>>]]
  /\ handle = [r \in Request |-> [session |-> NoRequest, file |-> First, leaf |-> 0, busy |-> FALSE]]
  /\ cache = [s \in Session |-> NoHandle]
  /\ sandboxBusy = {} /\ mutex = <<>> /\ holder = NoRequest
  /\ env = HostEnv /\ old = HostEnv
  /\ tools = [p \in Profile |-> [entry |-> NoRequest, known |-> {}]]
  /\ loaded = 0
  /\ req = [r \in Request |-> [op |-> "prompt", s |-> NoRequest, at |-> "new", h |-> NoHandle, f |-> First,
                               child |-> HostEnv, gen |-> 0]]
  /\ overlap = {} /\ switched = {}

-----------------------------------------------------------------------------
P(r) == ProfileOf[req[r].s]
FilesOf(s) == {f \in File : file[f].session = s}
Active(r) == req[r].at \notin Ended \cup {"new"}
Works(r, s) == Active(r) /\ IF req[r].op = "deleteProfile" THEN P(r) = ProfileOf[s] ELSE req[r].s = s
Go(r, at) == req' = [req EXCEPT ![r].at = at]
End(r, at) == req' = [req EXCEPT ![r].at = at, ![r].child = HostEnv]

(* profileEnvironment: the keys of an earlier profile are removed, then    *)
(* the profile's own are added.                                            *)
Environment(p, base) ==
  [value |-> [v \in Var |-> IF v \in Defines[p] THEN p ELSE IF v \in base.keys THEN Unset ELSE base.value[v]],
   keys |-> Defines[p]]
WithHandoff(r, e) == IF req[r].op = "handoff" THEN [e EXCEPT !.value[Handoff] = r] ELSE e

(* withProfileEnvironment: first come, first served.                       *)
Join(r) == mutex' = Append(mutex, r)
LeaveDirty(r) == holder' = NoRequest /\ mutex' = Tail(mutex) /\ UNCHANGED <<env, old>>    \* mutant
Leave(r) == holder' = NoRequest /\ mutex' = Tail(mutex) /\ env' = old /\ old' = HostEnv
Enter(r) ==
  /\ mutex # <<>> /\ Head(mutex) = r /\ holder = NoRequest
  /\ holder' = r /\ old' = env
  /\ env' = LET e == Environment(P(r), env)
            IN  IF req[r].at = "prompting" THEN WithHandoff(r, e) ELSE e
  /\ req' = [req EXCEPT ![r].gen = loaded]
  /\ UNCHANGED <<profile, file, handle, cache, sandboxBusy, mutex, tools, loaded, overlap, switched>>

(* A turn is appended to the end of the session as its writer knows it; a  *)
(* file that was removed is written anew.                                  *)
Turn(f, s, leaf) == [file EXCEPT ![f] = [session |-> s, turns |-> Append(IF @.session = s THEN @.turns ELSE <<>>, leaf)]]

-----------------------------------------------------------------------------
(* A request arrives.  prompt and chat first ask for the sandbox setting.  *)
Begin(r, op, s) ==
  /\ req[r].at = "new" /\ op \in Asks[r]
  /\ overlap' = overlap \cup {t \in Session : /\ t = s \/ (op = "deleteProfile" /\ ProfileOf[t] = ProfileOf[s])
                                              /\ \E q \in Request : Works(q, t)}
  /\ req' = [req EXCEPT ![r].op = op, ![r].s = s,
                        ![r].at = CASE op = "discover" -> "join"
                                    [] op = "create" -> "exists"
                                    [] op \in {"delete", "deleteProfile"} -> "drop"
                                    [] OTHER -> "route"]
  /\ UNCHANGED <<profile, file, handle, cache, sandboxBusy, mutex, holder, env, old, tools, loaded, switched>>

Route(r) ==
  /\ req[r].at = "route"
  /\ IF ~profile[P(r)].exists THEN End(r, "failed") /\ mutex' = mutex
     ELSE IF req[r].op \in {"oneshot", "discover"}
     THEN IF profile[P(r)].sandbox
          THEN /\ req' = [req EXCEPT ![r].at = "child", ![r].child = Environment(P(r), env), ![r].gen = loaded]
               /\ mutex' = mutex
          ELSE Go(r, "oneshot") /\ Join(r)
     ELSE Go(r, IF profile[P(r)].sandbox THEN "sandbox" ELSE "lookup") /\ mutex' = mutex
  /\ UNCHANGED <<profile, file, handle, cache, sandboxBusy, holder, env, old, tools, loaded, overlap, switched>>

(* getSession: the cached handle, or a new one on the session's file as it *)
(* is now.  A session without file gets one with its first turn.           *)
Lookup(r) ==
  /\ req[r].at = "lookup"
  /\ req' = [req EXCEPT ![r].at = IF cache[req[r].s] = NoHandle THEN "list" ELSE "check", ![r].h = cache[req[r].s]]
  /\ UNCHANGED <<profile, file, handle, cache, sandboxBusy, mutex, holder, env, old, tools, loaded, overlap, switched>>

List(r) ==
  LET s == req[r].s IN
  /\ req[r].at = "list"
  /\ IF ~profile[P(r)].exists THEN End(r, "failed") /\ UNCHANGED <<mutex, handle>>
     ELSE /\ \E f \in IF FilesOf(s) = {} THEN {r} ELSE FilesOf(s) :
               handle' = [handle EXCEPT ![r] = [session |-> s, file |-> f, leaf |-> Len(file[f].turns), busy |-> FALSE]]
          /\ Go(r, "opening") /\ Join(r)
  /\ UNCHANGED <<profile, file, cache, sandboxBusy, holder, env, old, tools, loaded, overlap, switched>>

Opened(r, ok) ==
  /\ req[r].at = "opening" /\ holder = r
  /\ IF ok THEN /\ cache' = [cache EXCEPT ![req[r].s] = r]
                /\ req' = [req EXCEPT ![r].at = "check", ![r].h = r]
     ELSE End(r, "failed") /\ cache' = cache
  /\ Leave(r)
  /\ UNCHANGED <<profile, file, handle, sandboxBusy, tools, loaded, overlap, switched>>

Taken(h) == FALSE                                                                        \* mutant
Busy(h) == handle[h].busy
Check(r) ==
  /\ req[r].at = "check"
  /\ IF Busy(req[r].h) THEN End(r, "failed") /\ UNCHANGED <<handle, mutex>>
     ELSE handle' = [handle EXCEPT ![req[r].h].busy = TRUE] /\ Go(r, "prompting") /\ Join(r)
  /\ UNCHANGED <<profile, file, cache, sandboxBusy, holder, env, old, tools, loaded, overlap, switched>>

Idle(h) == [h EXCEPT !.busy = FALSE]
Prompted(r, ok) ==
  LET h == req[r].h
      f == handle[h].file
  IN /\ req[r].at = "prompting" /\ holder = r
     /\ IF ok THEN /\ file' = Turn(f, req[r].s, handle[h].leaf)
                   /\ handle' = [handle EXCEPT ![h] = Idle([@ EXCEPT !.leaf = Len(file'[f].turns)])]
        ELSE handle' = [handle EXCEPT ![h] = Idle(@)] /\ file' = file
     /\ Leave(r) /\ End(r, IF ok THEN "done" ELSE "failed")
     /\ UNCHANGED <<profile, cache, sandboxBusy, tools, loaded, overlap, switched>>

-----------------------------------------------------------------------------
(* runSandboxedPrompt: one child per session; its environment starts from  *)
(* process.env as it is at this moment.                                    *)
InSandbox(s) == {s} \cap sandboxBusy
Sandbox(r) ==
  /\ req[r].at = "sandbox"
  /\ IF InSandbox(req[r].s) # {} THEN End(r, "failed") /\ UNCHANGED sandboxBusy
     ELSE Go(r, "find") /\ sandboxBusy' = sandboxBusy \cup {req[r].s}
  /\ UNCHANGED <<profile, file, handle, cache, mutex, holder, env, old, tools, loaded, overlap, switched>>

Find(r) ==
  LET s == req[r].s IN
  /\ req[r].at = "find"
  /\ IF FilesOf(s) = {} THEN End(r, "failed") /\ sandboxBusy' = sandboxBusy \ {s}
     ELSE /\ \E f \in FilesOf(s) :
               req' = [req EXCEPT ![r].at = "child", ![r].f = f,
                                  ![r].child = WithHandoff(r, Environment(P(r), env))]
          /\ UNCHANGED sandboxBusy
  /\ UNCHANGED <<profile, file, handle, cache, mutex, holder, env, old, tools, loaded, overlap, switched>>

(* catch in discoverExtensionTools: a failed discovery is forgotten.       *)
Learned(r, ok) ==
  IF req[r].op # "discover" THEN tools
  ELSE IF ok THEN [tools EXCEPT ![P(r)].known = @ \cup {req[r].gen}]
  ELSE [tools EXCEPT ![P(r)].entry = NoRequest]

ChildEnds(r, ok) ==
  LET s == req[r].s IN
  /\ req[r].at = "child"
  /\ IF req[r].op \in {"oneshot", "discover"} THEN UNCHANGED <<file, sandboxBusy>>
     ELSE /\ file' = IF ok THEN Turn(req[r].f, s, Len(file[req[r].f].turns)) ELSE file
          /\ sandboxBusy' = sandboxBusy \ {s}
  /\ End(r, IF ok THEN "done" ELSE "failed") /\ tools' = Learned(r, ok)
  /\ UNCHANGED <<profile, handle, cache, mutex, holder, env, old, loaded, overlap, switched>>

(* complete, promptStateless and the end of a discovery, in this process.  *)
OneShot(r, ok) ==
  /\ req[r].at = "oneshot" /\ holder = r
  /\ Leave(r) /\ End(r, IF ok THEN "done" ELSE "failed") /\ tools' = Learned(r, ok)
  /\ UNCHANGED <<profile, file, handle, cache, sandboxBusy, loaded, overlap, switched>>

-----------------------------------------------------------------------------
(* discoverExtensionTools: later callers wait for the discovery that runs. *)
Discover(r) ==
  /\ req[r].at = "join"
  /\ IF tools[P(r)].entry = NoRequest
     THEN Go(r, "route") /\ tools' = [tools EXCEPT ![P(r)].entry = r]
     ELSE req' = [req EXCEPT ![r].at = "await", ![r].h = tools[P(r)].entry] /\ tools' = tools
  /\ UNCHANGED <<profile, file, handle, cache, sandboxBusy, mutex, holder, env, old, loaded, overlap, switched>>
Awaited(r) ==
  /\ req[r].at = "await" /\ req[req[r].h].at \in Ended
  /\ End(r, req[req[r].h].at)
  /\ UNCHANGED <<profile, file, handle, cache, sandboxBusy, mutex, holder, env, old, tools, loaded, overlap, switched>>

ForgottenTools(p) == [tools EXCEPT ![p].known = {}]                                      \* mutant
Forgotten(p) == [tools EXCEPT ![p] = [entry |-> NoRequest, known |-> {}]]
(* An extension is enabled, disabled or installed: invalidateExtensionTools.*)
Invalidate ==
  /\ loaded + Cardinality(switched) < MaxChanges
  /\ loaded' = loaded + 1
  /\ tools' = [p \in Profile |-> Forgotten(p)[p]]
  /\ UNCHANGED <<profile, file, handle, cache, sandboxBusy, mutex, holder, env, old, req, overlap, switched>>

-----------------------------------------------------------------------------
CreateList(r) ==
  /\ req[r].at = "exists"
  /\ IF profile[P(r)].exists /\ FilesOf(req[r].s) = {} THEN Go(r, "write") ELSE End(r, "failed")
  /\ UNCHANGED <<profile, file, handle, cache, sandboxBusy, mutex, holder, env, old, tools, loaded, overlap, switched>>
CreateWrite(r) ==
  /\ req[r].at = "write"
  /\ IF profile[P(r)].exists
     THEN file' = [file EXCEPT ![r] = [session |-> req[r].s, turns |-> <<>>]] /\ End(r, "done")
     ELSE file' = file /\ End(r, "failed")
  /\ UNCHANGED <<profile, handle, cache, sandboxBusy, mutex, holder, env, old, tools, loaded, overlap, switched>>

(* deleteSession and deleteProfile check that nothing is busy, and await;  *)
(* a session then loses its handle and its file.                           *)
HandlesOf(r) == {cache[s] : s \in {t \in Session : ProfileOf[t] = P(r)}} \ {NoHandle}
Drop(r) ==
  /\ req[r].at = "drop"
  /\ LET s == req[r].s
         whole == req[r].op = "deleteProfile"
         refused == \/ ~profile[P(r)].exists
                    \/ ~whole /\ cache[s] # NoHandle /\ handle[cache[s]].busy
                    \/ whole /\ \E h \in HandlesOf(r) : handle[h].busy
                    \/ whole /\ \E t \in sandboxBusy : ProfileOf[t] = P(r)
     IN  IF refused THEN End(r, "failed") /\ UNCHANGED <<cache, tools>>
         ELSE IF whole THEN /\ cache' = [t \in Session |-> IF ProfileOf[t] = P(r) THEN NoHandle ELSE cache[t]]
                            /\ tools' = Forgotten(P(r)) /\ Go(r, "rmdir")
         ELSE Go(r, "unlink") /\ UNCHANGED <<cache, tools>>
  /\ UNCHANGED <<profile, file, handle, sandboxBusy, mutex, holder, env, old, loaded, overlap, switched>>

UncacheNot(s) == cache                                                                   \* mutant
Uncached(s) == [cache EXCEPT ![s] = NoHandle]
Removed(fs) == [f \in File |-> IF f \in fs THEN [session |-> NoRequest, turns |-> <<>>] ELSE file[f]]
Unlink(r) ==
  LET s == req[r].s IN
  /\ req[r].at = "unlink"
  /\ IF FilesOf(s) = {} THEN End(r, "failed") /\ UNCHANGED <<file, cache>>
     ELSE \E f \in FilesOf(s) : file' = Removed({f}) /\ cache' = Uncached(s) /\ End(r, "done")
  /\ UNCHANGED <<profile, handle, sandboxBusy, mutex, holder, env, old, tools, loaded, overlap, switched>>

RemoveDirectory(r) ==
  /\ req[r].at = "rmdir"
  /\ IF profile[P(r)].exists
     THEN /\ profile' = [profile EXCEPT ![P(r)].exists = FALSE]
          /\ file' = Removed({f \in File : file[f].session # NoRequest /\ ProfileOf[file[f].session] = P(r)})
          /\ End(r, "done")
     ELSE End(r, "failed") /\ UNCHANGED <<profile, file>>
  /\ UNCHANGED <<handle, cache, sandboxBusy, mutex, holder, env, old, tools, loaded, overlap, switched>>

(* settings.json is edited: the sandbox is switched; or the profile is     *)
(* created again.                                                          *)
Configure(p) ==
  /\ p \notin switched /\ loaded + Cardinality(switched) < MaxChanges
  /\ profile' = IF profile[p].exists THEN [profile EXCEPT ![p].sandbox = ~@]
                ELSE [profile EXCEPT ![p].exists = TRUE]
  /\ switched' = switched \cup {p}
  /\ UNCHANGED <<file, handle, cache, sandboxBusy, mutex, holder, env, old, tools, loaded, req, overlap>>

-----------------------------------------------------------------------------
Step(r) ==
  \/ Route(r) \/ Lookup(r) \/ List(r) \/ Enter(r) \/ Check(r) \/ Sandbox(r) \/ Find(r)
  \/ Discover(r) \/ Awaited(r) \/ CreateList(r) \/ CreateWrite(r) \/ Drop(r) \/ Unlink(r) \/ RemoveDirectory(r)
  \/ \E ok \in BOOLEAN : Opened(r, ok) \/ Prompted(r, ok) \/ ChildEnds(r, ok) \/ OneShot(r, ok)
Next ==
  \/ \E r \in Request, op \in Ops, s \in Session : Begin(r, op, s)
  \/ \E r \in Request : Step(r)
  \/ Invalidate
  \/ \E p \in Profile : Configure(p)
Spec == Init /\ [][Next]_vars

-----------------------------------------------------------------------------
(* process.env is the host's whenever no operation runs in it, and while   *)
(* one runs it is that profile's own on top of the host's: nothing of an   *)
(* earlier profile or request stays behind (server.ts:161, "finally").     *)
EnvironmentRestored ==
  IF holder = NoRequest THEN env = HostEnv
  ELSE env = IF req[holder].at = "prompting" THEN WithHandoff(holder, Environment(P(holder), HostEnv))
             ELSE Environment(P(holder), HostEnv)

(* No two prompts run on one handle or in two children of one session,     *)
(* whoever waits for the environment meanwhile ("session is busy").        *)
HandleServesOne ==
  \A r, q \in Request : r # q =>
    /\ ~(req[r].at = "prompting" /\ req[q].at = "prompting" /\ req[r].h = req[q].h)
    /\ (req[r].at \in {"find", "child"} /\ req[q].at \in {"find", "child"} /\ req[r].s = req[q].s)
         => "oneshot" \in {req[r].op, req[q].op} \/ "discover" \in {req[r].op, req[q].op}

(* Requests that come one after the other see one conversation: each turn  *)
(* of a session extends the one before it in its file, through deletion,   *)
(* re-creation, failures and handles that are reopened.                    *)
SequentialTurnsExtend ==
  \A s \in Session : (s \notin overlap /\ ProfileOf[s] \notin switched) =>
    \A f \in FilesOf(s) : \A i \in DOMAIN file[f].turns : file[f].turns[i] = i - 1

(* While a finished discovery is remembered, so are the tools it found:    *)
(* no caller is told "discovered" over an empty list.                      *)
DiscoveredToolsAreKept ==
  \A p \in Profile : LET r == tools[p].entry IN
    (r # NoRequest /\ req[r].at = "done") => req[r].gen \in tools[p].known

(* Every request can end: those that wait for the environment are in its   *)
(* chain, once, behind the one that runs, and a caller that waits for a    *)
(* discovery waits for one that is itself under way or has ended.          *)
NobodyIsStuck ==
  /\ Range(mutex) = {r \in Request : req[r].at \in {"opening", "prompting", "oneshot"}} /\ IsInjective(mutex)
  /\ holder # NoRequest => (mutex # <<>> /\ holder = Head(mutex))
  /\ \A r \in Request : req[r].at = "await" => req[req[r].h].at \notin {"new", "join", "await"}

(* The types hold, the record of discovered tools agrees with the running  *)
(* discoveries, and no request is left behind.                             *)
Inv == TypeOK /\ DiscoveredToolsAreKept /\ NobodyIsStuck
=============================================================================
