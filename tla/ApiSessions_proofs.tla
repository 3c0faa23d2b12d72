--------------------------- MODULE ApiSessions_proofs ---------------------------
(***************************************************************************)
(* Theorems about ApiSessions, for any requests, profiles, sessions,       *)
(* variables and number of changes.                                        *)
(***************************************************************************)
EXTENDS ApiSessions, SequenceTheorems, FiniteSetTheorems, TLAPS

(* A request that has arrived names a session; discoveries join.           *)
Asked == \A r \in Request : /\ req[r].at # "new" => req[r].s \in Session
                            /\ req[r].at = "join" => req[r].op = "discover"

(* A handle that is cached or worked with has been opened: the request     *)
(* that opened it is past that, so it is not opened again.                 *)
Past == {"check", "prompting"} \cup Ended
HandlesAreOpen ==
  /\ \A s \in Session : cache[s] # NoHandle => req[cache[s]].at \in Past
  /\ \A r \in Request : req[r].at \in {"check", "prompting"} =>
       req[r].h \in Request /\ req[req[r].h].at \in Past

(* One prompt per handle, which is busy meanwhile.                         *)
PromptsAreAlone ==
  \A r \in Request : req[r].at = "prompting" =>
    /\ handle[req[r].h].busy
    /\ \A q \in Request \ {r} : ~(req[q].at = "prompting" /\ req[q].h = req[r].h)

(* One child per session, which is in sandboxBusy meanwhile.               *)
InChild(r) == req[r].at \in {"find", "child"} /\ req[r].op \notin {"oneshot", "discover"}
ChildrenAreAlone ==
  /\ \A r \in Request : req[r].at \in {"sandbox", "find"} => req[r].op \notin {"oneshot", "discover"}
  /\ \A r \in Request : InChild(r) =>
       req[r].s \in sandboxBusy /\ \A q \in Request \ {r} : ~(InChild(q) /\ req[q].s = req[r].s)

(* What the holder of the environment will restore is the host's.          *)
HostIsKept == EnvironmentRestored /\ (holder # NoRequest => old = HostEnv)

(* The discovery on record runs, or has ended and left its tools.          *)
DiscoveryOnRecord ==
  \A p \in Profile : LET r == tools[p].entry IN
    r # NoRequest => /\ req[r].op = "discover" /\ P(r) = p
                     /\ req[r].at \in {"route", "child", "oneshot"} \cup Ended
                     /\ req[r].at = "done" => req[r].gen \in tools[p].known

AwaitsOther == \A r \in Request : req[r].at = "await" => req[r].h \in Request

ApiInv ==
  /\ TypeOK /\ IsFiniteSet(switched)
  /\ Asked /\ HandlesAreOpen /\ PromptsAreAlone /\ ChildrenAreAlone
  /\ HostIsKept /\ DiscoveryOnRecord /\ AwaitsOther /\ NobodyIsStuck
-----------------------------------------------------------------------------
(* The records of the variables' types, and what the operators on them     *)
(* return.                                                                 *)
Req == [op : Ops, s : Session \cup {NoRequest}, at : At, h : Request \cup {NoHandle},
        f : File, child : Environments, gen : 0..MaxChanges]
HandleRec == [session : Session \cup {NoRequest}, file : File, leaf : Nat, busy : BOOLEAN]
FileRec == [session : Session \cup {NoRequest}, turns : Seq(Nat)]

LEMMA HostEnvType == HostEnv \in Environments
BY ApiAssumption DEF HostEnv, Environments, Value

LEMMA EnvironmentType ==
  ASSUME NEW p \in Profile, NEW e \in Environments
  PROVE  Environment(p, e) \in Environments
<1>1. Defines[p] \subseteq Var
  BY ApiAssumption
<1>2. e.value \in [Var -> Value] /\ e.keys \in SUBSET Var
  BY DEF Environments
<1>3. p \in Value /\ Unset \in Value
  BY DEF Value
<1>4. [v \in Var |-> IF v \in Defines[p] THEN p ELSE IF v \in e.keys THEN Unset ELSE e.value[v]]
        \in [Var -> Value]
  BY <1>2, <1>3
<1> QED
  BY <1>1, <1>4 DEF Environment, Environments

LEMMA HandoffType ==
  ASSUME NEW r \in Request, NEW e \in Environments
  PROVE  WithHandoff(r, e) \in Environments
<1>1. e.value \in [Var -> Value] /\ e.keys \in SUBSET Var
  BY DEF Environments
<1>2. r \in Value
  BY DEF Value
<1>3. [e EXCEPT !.value[Handoff] = r] \in Environments
  BY <1>1, <1>2 DEF Environments
<1> QED
  BY <1>3 DEF WithHandoff

LEMMA RequestType ==
  ASSUME TypeOK, NEW r \in Request
  PROVE  /\ req \in [Request -> Req] /\ req[r] \in Req
         /\ req[r].op \in Ops /\ req[r].s \in Session \cup {NoRequest} /\ req[r].at \in At
         /\ req[r].h \in Request \cup {NoHandle} /\ req[r].f \in File
         /\ req[r].child \in Environments /\ req[r].gen \in 0..MaxChanges
         /\ r \in File
BY DEF TypeOK, Req, File

LEMMA ProfileType ==
  ASSUME TypeOK, Asked, NEW r \in Request, req[r].at # "new"
  PROVE  req[r].s \in Session /\ P(r) \in Profile
BY ApiAssumption DEF Asked, P

-----------------------------------------------------------------------------
(* What a step does to its request: it goes on, and keeps what it asked    *)
(* for.                                                                    *)
Moves(r, to) ==
  /\ req' \in [Request -> Req]
  /\ req'[r].at = to /\ req'[r].op = req[r].op /\ req'[r].s = req[r].s
  /\ \A q \in Request \ {r} : req'[q] = req[q]
Holds(r) == req'[r].h = req[r].h /\ req'[r].gen = req[r].gen

LEMMA GoMoves ==
  ASSUME TypeOK, NEW r \in Request, NEW to \in At, Go(r, to)
  PROVE  Moves(r, to) /\ Holds(r)
BY RequestType DEF Go, Moves, Holds, Req

LEMMA EndMoves ==
  ASSUME TypeOK, NEW r \in Request, NEW to \in At, End(r, to)
  PROVE  Moves(r, to) /\ Holds(r)
BY RequestType, HostEnvType DEF End, Moves, Holds, Req

(* Where a request may go from where it is; Enter leaves it there.         *)
Arrow(a, b) ==
  \/ a = "route" /\ b \in {"failed", "child", "oneshot", "sandbox", "lookup"}
  \/ a = "lookup" /\ b \in {"list", "check"}
  \/ a = "list" /\ b \in {"failed", "opening"}
  \/ a = "opening" /\ b \in {"opening", "check", "failed"}
  \/ a = "check" /\ b \in {"failed", "prompting"}
  \/ a = "prompting" /\ b \in {"prompting", "done", "failed"}
  \/ a = "sandbox" /\ b \in {"failed", "find"}
  \/ a = "find" /\ b \in {"failed", "child"}
  \/ a = "child" /\ b \in {"done", "failed"}
  \/ a = "oneshot" /\ b \in {"oneshot", "done", "failed"}
  \/ a = "join" /\ b \in {"route", "await"}
  \/ a = "await" /\ b \in {"done", "failed"}
  \/ a \in {"exists", "write", "drop", "unlink", "rmdir"}
     /\ b \in {"write", "unlink", "rmdir", "done", "failed"}

(* The steps that take or leave the environment, or a place in its chain.  *)
Waiting == {"opening", "prompting", "oneshot"}
Chains(r) ==
  \/ /\ req[r].at \notin Waiting /\ req'[r].at \in Waiting /\ Join(r)
     /\ UNCHANGED <<holder, env, old>>
  \/ /\ req[r].at \in Waiting /\ req'[r].at \notin Waiting /\ holder = r /\ Leave(r)
  \/ /\ (req[r].at \in Waiting <=> req'[r].at \in Waiting)
     /\ UNCHANGED <<mutex, holder, env, old>>
  \/ Enter(r)

(* What a step of a request does to the requests and to the chain.         *)
Effect(r) ==
  /\ Moves(r, req'[r].at) /\ Arrow(req[r].at, req'[r].at) /\ Chains(r)
  /\ req[r].at \notin {"lookup", "opening", "join"} => req'[r].h = req[r].h
  /\ req[r].at \notin {"route"} \cup Waiting => req'[r].gen = req[r].gen
  /\ Enter(r) \/ (req[r].at \in Waiting => req'[r].gen = req[r].gen)
  /\ UNCHANGED <<loaded, switched, overlap>>

LEMMA EnterWaits ==
  ASSUME ApiInv, NEW r \in Request, Enter(r)
  PROVE  req[r].at \in Waiting
<1>1. mutex \in Seq(Request) /\ mutex # <<>> /\ Head(mutex) = r
  BY DEF Enter, ApiInv, TypeOK
<1>2. r \in Range(mutex)
  BY <1>1, LenProperties, EmptySeq DEF Range
<1> QED BY <1>2 DEF ApiInv, NobodyIsStuck, Waiting

LEMMA StepEffect ==
  ASSUME ApiInv, NEW r \in Request, Step(r)
  PROVE  Effect(r)
<1> USE DEF ApiInv
<1>1. /\ req \in [Request -> Req] /\ req[r] \in Req
      /\ \A to \in At : (Go(r, to) \/ End(r, to)) => Moves(r, to) /\ Holds(r)
  BY GoMoves, EndMoves, RequestType
<1>2. CASE Route(r)
  <2>1. CASE End(r, "failed") /\ mutex' = mutex
    BY <1>1, <1>2, <2>1 DEF Route, Effect, Chains, Moves, Holds, Arrow, At, Ended, Waiting
  <2>2. CASE req' = [req EXCEPT ![r].at = "child", ![r].child = Environment(P(r), env), ![r].gen = loaded] /\ mutex' = mutex
    <3>1. P(r) \in Profile /\ env \in Environments /\ loaded \in 0..MaxChanges
      BY <1>2, ProfileType DEF Route, TypeOK
    <3>2. Environment(P(r), env) \in Environments
      BY <3>1, EnvironmentType
    <3>3. Moves(r, "child") /\ req'[r].h = req[r].h
      BY <1>1, <2>2, <3>1, <3>2 DEF Moves, Req, At
    <3> QED
      BY <1>2, <2>2, <3>3 DEF Route, Effect, Chains, Moves, Arrow, Waiting
  <2>3. CASE Go(r, "oneshot") /\ Join(r)
    BY <1>1, <1>2, <2>3 DEF Route, Effect, Chains, Moves, Holds, Arrow, At, Waiting
  <2>4. ASSUME NEW to \in {"sandbox", "lookup"}, Go(r, to), mutex' = mutex PROVE Effect(r)
    BY <1>1, <1>2, <2>4 DEF Route, Effect, Chains, Moves, Holds, Arrow, At, Waiting
  <2> QED
    BY <1>2, <2>1, <2>2, <2>3, <2>4 DEF Route
<1>3. CASE Lookup(r)
  <2>1. cache[req[r].s] \in Request \cup {NoHandle}
    BY <1>3, ProfileType DEF Lookup, TypeOK
  <2>2. PICK to \in {"list", "check"} : req' = [req EXCEPT ![r].at = to, ![r].h = cache[req[r].s]]
    BY <1>3 DEF Lookup
  <2>3. Moves(r, to) /\ req'[r].gen = req[r].gen
    BY <1>1, <2>1, <2>2 DEF Moves, Req, At
  <2> QED
    BY <1>3, <2>3 DEF Lookup, Effect, Chains, Moves, Arrow, Waiting
<1>4. CASE List(r)
  <2>1. CASE End(r, "failed") /\ UNCHANGED mutex
    BY <1>1, <1>4, <2>1 DEF List, Effect, Chains, Moves, Holds, Arrow, At, Ended, Waiting
  <2>2. CASE Go(r, "opening") /\ Join(r)
    BY <1>1, <1>4, <2>2 DEF List, Effect, Chains, Moves, Holds, Arrow, At, Waiting
  <2> QED
    BY <1>4, <2>1, <2>2 DEF List
<1>5. CASE Enter(r)
  <2>1. req' = [req EXCEPT ![r].gen = loaded] /\ loaded \in 0..MaxChanges
    BY <1>5 DEF Enter, TypeOK
  <2>2. Moves(r, req[r].at) /\ req'[r].h = req[r].h
    BY <1>1, <2>1 DEF Moves, Req
  <2>3. req[r].at \in Waiting
    BY <1>5, EnterWaits
  <2> QED
    BY <1>5, <2>2, <2>3 DEF Enter, Effect, Chains, Moves, Arrow, Waiting
<1>6. CASE Check(r)
  <2>1. CASE End(r, "failed") /\ UNCHANGED mutex
    BY <1>1, <1>6, <2>1 DEF Check, Effect, Chains, Moves, Holds, Arrow, At, Ended, Waiting
  <2>2. CASE Go(r, "prompting") /\ Join(r)
    BY <1>1, <1>6, <2>2 DEF Check, Effect, Chains, Moves, Holds, Arrow, At, Waiting
  <2> QED
    BY <1>6, <2>1, <2>2 DEF Check
<1>7. CASE Sandbox(r)
  <2>1. PICK to \in {"failed", "find"} : Go(r, to) \/ End(r, to)
    BY <1>7 DEF Sandbox
  <2> QED
    BY <1>1, <1>7, <2>1 DEF Sandbox, Effect, Chains, Moves, Holds, Arrow, At, Ended, Waiting
<1>8. CASE Find(r)
  <2>0. req[r].at = "find" /\ UNCHANGED <<mutex, holder, env, old, loaded, switched, overlap>>
    BY <1>8 DEF Find
  <2>1. CASE End(r, "failed")
    BY <1>1, <2>0, <2>1 DEF Effect, Chains, Moves, Holds, Arrow, At, Ended, Waiting
  <2>2. CASE \E f \in FilesOf(req[r].s) :
               req' = [req EXCEPT ![r].at = "child", ![r].f = f,
                                  ![r].child = WithHandoff(r, Environment(P(r), env))]
    <3>1. P(r) \in Profile /\ env \in Environments
      BY <1>8, ProfileType DEF Find, TypeOK
    <3>2. WithHandoff(r, Environment(P(r), env)) \in Environments
      BY <3>1, EnvironmentType, HandoffType
    <3>3. PICK f \in File :
               req' = [req EXCEPT ![r].at = "child", ![r].f = f,
                                  ![r].child = WithHandoff(r, Environment(P(r), env))]
      BY <2>2 DEF FilesOf
    <3>4. Moves(r, "child") /\ Holds(r)
      BY <1>1, <3>2, <3>3 DEF Moves, Holds, Req, At
    <3> QED
      BY <1>8, <3>4 DEF Find, Effect, Chains, Moves, Holds, Arrow, Waiting
  <2> QED
    BY <1>8, <2>1, <2>2 DEF Find
<1>9. CASE Discover(r)
  <2>1. CASE Go(r, "route")
    BY <1>1, <1>9, <2>1 DEF Discover, Effect, Chains, Moves, Holds, Arrow, At, Waiting
  <2>2. CASE req' = [req EXCEPT ![r].at = "await", ![r].h = tools[P(r)].entry]
    <3>1. tools[P(r)].entry \in Request \cup {NoHandle}
      BY <1>9, ProfileType DEF Discover, TypeOK, NoHandle
    <3>2. Moves(r, "await") /\ req'[r].gen = req[r].gen
      BY <1>1, <2>2, <3>1 DEF Moves, Req, At
    <3> QED
      BY <1>9, <3>2 DEF Discover, Effect, Chains, Moves, Arrow, Waiting
  <2> QED
    BY <1>9, <2>1, <2>2 DEF Discover
<1>10. CASE Awaited(r)
  <2>1. PICK to \in Ended : End(r, to)
    BY <1>10 DEF Awaited
  <2> QED
    BY <1>1, <1>10, <2>1 DEF Awaited, Effect, Chains, Moves, Holds, Arrow, At, Ended, Waiting
<1>11. CASE CreateList(r) \/ CreateWrite(r) \/ Drop(r) \/ Unlink(r) \/ RemoveDirectory(r)
  <2>1. PICK to \in {"write", "unlink", "rmdir", "done", "failed"} : Go(r, to) \/ End(r, to)
    BY <1>11 DEF CreateList, CreateWrite, Drop, Unlink, RemoveDirectory
  <2>2. /\ req[r].at \in {"exists", "write", "drop", "unlink", "rmdir"}
        /\ UNCHANGED <<mutex, holder, env, old, loaded, switched, overlap>>
    BY <1>11 DEF CreateList, CreateWrite, Drop, Unlink, RemoveDirectory
  <2> QED
    BY <1>1, <2>1, <2>2 DEF Effect, Chains, Moves, Holds, Arrow, At, Ended, Waiting
<1>12. ASSUME NEW ok \in BOOLEAN, Opened(r, ok) PROVE Effect(r)
  <2>1. CASE End(r, "failed")
    BY <1>1, <1>12, <2>1 DEF Opened, Effect, Chains, Moves, Holds, Arrow, At, Ended, Waiting
  <2>2. CASE req' = [req EXCEPT ![r].at = "check", ![r].h = r]
    <3>1. Moves(r, "check") /\ req'[r].gen = req[r].gen
      BY <1>1, <2>2 DEF Moves, Req, At
    <3> QED
      BY <1>12, <3>1 DEF Opened, Effect, Chains, Moves, Arrow, Waiting
  <2> QED
    BY <1>12, <2>1, <2>2 DEF Opened
<1>13. ASSUME NEW ok \in BOOLEAN, Prompted(r, ok) \/ OneShot(r, ok) PROVE Effect(r)
  <2>1. PICK to \in Ended : End(r, to)
    BY <1>13 DEF Prompted, OneShot, Ended
  <2> QED
    BY <1>1, <1>13, <2>1 DEF Prompted, OneShot, Effect, Chains, Moves, Holds, Arrow, At, Ended, Waiting
<1>14. ASSUME NEW ok \in BOOLEAN, ChildEnds(r, ok) PROVE Effect(r)
  <2>1. PICK to \in Ended : End(r, to)
    BY <1>14 DEF ChildEnds, Ended
  <2> QED
    BY <1>1, <1>14, <2>1 DEF ChildEnds, Effect, Chains, Moves, Holds, Arrow, At, Ended, Waiting
<1> QED
  BY <1>2, <1>3, <1>4, <1>5, <1>6, <1>7, <1>8, <1>9, <1>10, <1>11, <1>12, <1>13, <1>14 DEF Step

-----------------------------------------------------------------------------
(* The chain of the environment: joining and leaving it.                   *)
LEMMA ChainRange ==
  ASSUME NEW m \in Seq(Request)
  PROVE  /\ \A r : r \in Range(m) <=> \E i \in 1..Len(m) : m[i] = r
         /\ IsInjective(m) <=> \A i, j \in 1..Len(m) : m[i] = m[j] => i = j
         /\ DOMAIN m = 1..Len(m) /\ Len(m) \in Nat
BY LenProperties DEF Range, IsInjective

LEMMA JoinChain ==
  ASSUME NEW m \in Seq(Request), IsInjective(m), NEW r \in Request, r \notin Range(m)
  PROVE  LET n == Append(m, r)
         IN  /\ n \in Seq(Request) /\ n # <<>> /\ IsInjective(n)
             /\ \A q : q \in Range(n) <=> q \in Range(m) \/ q = r
             /\ m # <<>> => Head(n) = Head(m)
<1> DEFINE n == Append(m, r)
<1>1. /\ n \in Seq(Request) /\ n # <<>> /\ Len(n) = Len(m) + 1 /\ Len(m) \in Nat
      /\ \A i \in 1..Len(m) : n[i] = m[i]
      /\ n[Len(m) + 1] = r
  BY AppendProperties, LenProperties
<1> HIDE DEF n
<1>2. ASSUME NEW i \in 1..Len(n)
      PROVE  (i \in 1..Len(m) /\ n[i] = m[i]) \/ (i = Len(m) + 1 /\ n[i] = r)
  BY <1>1
<1>3. \A q : q \in Range(n) <=> q \in Range(m) \/ q = r
  <2>1. ASSUME NEW q \in Range(n) PROVE q \in Range(m) \/ q = r
    BY <1>1, <1>2, ChainRange
  <2>2. ASSUME NEW q \in Range(m) PROVE q \in Range(n)
    <3>1. PICK i \in 1..Len(m) : m[i] = q
      BY ChainRange
    <3>2. i \in 1..Len(n) /\ n[i] = q
      BY <1>1, <3>1
    <3> QED BY <1>1, <3>2, ChainRange
  <2>3. r \in Range(n)
    <3>1. Len(m) + 1 \in 1..Len(n)
      BY <1>1
    <3> QED BY <1>1, <3>1, ChainRange
  <2> QED BY <2>1, <2>2, <2>3
<1>4. IsInjective(n)
  <2>1. \A i, j \in 1..Len(n) : n[i] = n[j] => i = j
    BY <1>2, ChainRange
  <2> QED BY <1>1, <2>1, ChainRange
<1>5. m # <<>> => Head(n) = Head(m)
  BY HeadTailAppend DEF n
<1> QED
  BY <1>1, <1>3, <1>4, <1>5 DEF n

LEMMA LeaveChain ==
  ASSUME NEW m \in Seq(Request), IsInjective(m), m # <<>>
  PROVE  LET n == Tail(m)
         IN  /\ n \in Seq(Request) /\ IsInjective(n)
             /\ \A q : q \in Range(n) <=> q \in Range(m) /\ q # Head(m)
<1> DEFINE n == Tail(m)
<1>1. /\ n \in Seq(Request) /\ Len(n) = Len(m) - 1 /\ Len(m) \in Nat \ {0}
      /\ \A i \in 1..Len(n) : n[i] = m[i + 1]
      /\ Head(m) = m[1]
  BY HeadTailProperties, EmptySeq
<1> HIDE DEF n
<1>2. ASSUME NEW i \in 1..Len(n) PROVE i + 1 \in 1..Len(m) /\ n[i] = m[i + 1]
  BY <1>1
<1>3. IsInjective(n)
  <2>1. \A i, j \in 1..Len(n) : n[i] = n[j] => i = j
    BY <1>1, <1>2, ChainRange
  <2> QED BY <1>1, <2>1, ChainRange
<1>4. ASSUME NEW q \in Range(n) PROVE q \in Range(m) /\ q # Head(m)
  <2>1. PICK i \in 1..Len(n) : n[i] = q
    BY <1>1, ChainRange
  <2>2. i + 1 \in 1..Len(m) /\ m[i + 1] = q /\ i + 1 # 1 /\ 1 \in 1..Len(m)
    BY <1>1, <1>2, <2>1
  <2> QED BY <1>1, <2>2, ChainRange
<1>5. ASSUME NEW q \in Range(m), q # Head(m) PROVE q \in Range(n)
  <2>1. PICK i \in 1..Len(m) : m[i] = q
    BY ChainRange
  <2>2. i # 1
    BY <1>1, <1>5, <2>1
  <2>3. i - 1 \in 1..Len(n) /\ n[i - 1] = q
    BY <1>1, <2>1, <2>2
  <2> QED BY <1>1, <2>3, ChainRange
<1> QED
  BY <1>1, <1>3, <1>4, <1>5 DEF n

LEMMA HolderWaits ==
  ASSUME ApiInv
  PROVE  /\ \A r \in Request : r \in Range(mutex) <=> req[r].at \in Waiting
         /\ \A r \in Range(mutex) : r \in Request
         /\ holder # NoRequest => /\ mutex # <<>> /\ holder = Head(mutex) /\ holder \in Request
                                  /\ req[holder].at \in Waiting
         /\ mutex \in Seq(Request) /\ IsInjective(mutex)
<1>1. mutex \in Seq(Request) /\ IsInjective(mutex) /\ Range(mutex) = {r \in Request : req[r].at \in Waiting}
  BY DEF ApiInv, TypeOK, NobodyIsStuck, Waiting
<1>2. ASSUME holder # NoRequest
      PROVE  mutex # <<>> /\ holder = Head(mutex) /\ Head(mutex) \in Range(mutex)
  <2>1. mutex # <<>> /\ holder = Head(mutex)
    BY <1>2 DEF ApiInv, NobodyIsStuck
  <2>2. Len(mutex) \in Nat \ {0} /\ Head(mutex) = mutex[1]
    BY <1>1, <2>1, EmptySeq
  <2>3. 1 \in 1..Len(mutex)
    BY <2>2
  <2> QED BY <1>1, <2>1, <2>2, <2>3, ChainRange
<1> QED
  BY <1>1, <1>2

LEMMA KeepsChain ==
  ASSUME ApiInv, NEW r \in Request, Effect(r)
  PROVE  /\ mutex' \in Seq(Request) /\ IsInjective(mutex')
         /\ Range(mutex') = {q \in Request : req'[q].at \in Waiting}
         /\ holder' # NoRequest => mutex' # <<>> /\ holder' = Head(mutex')
<1>1. \A q \in Request : q \in Range(mutex) <=> req[q].at \in Waiting
  BY HolderWaits
<1>2. /\ mutex \in Seq(Request) /\ IsInjective(mutex) /\ \A q \in Range(mutex) : q \in Request
      /\ holder # NoRequest => mutex # <<>> /\ holder = Head(mutex)
  BY HolderWaits
<1>3. \A q \in Request \ {r} : req'[q] = req[q]
  BY DEF Effect, Moves
<1>4. NoRequest \notin Request
  BY ApiAssumption
<1>5. CASE req[r].at \notin Waiting /\ req'[r].at \in Waiting /\ Join(r) /\ UNCHANGED <<holder, env, old>>
  <2>1. r \notin Range(mutex) /\ mutex' = Append(mutex, r)
    BY <1>1, <1>5 DEF Join
  <2>2. /\ mutex' \in Seq(Request) /\ mutex' # <<>> /\ IsInjective(mutex')
        /\ \A q : q \in Range(mutex') <=> q \in Range(mutex) \/ q = r
        /\ mutex # <<>> => Head(mutex') = Head(mutex)
    BY <1>2, <2>1, JoinChain
  <2>3. \A q : q \in Range(mutex') <=> q \in Request /\ req'[q].at \in Waiting
    BY <1>1, <1>2, <1>3, <1>5, <2>2
  <2> QED BY <1>2, <1>5, <2>2, <2>3
<1>6. CASE req[r].at \in Waiting /\ req'[r].at \notin Waiting /\ holder = r /\ Leave(r)
  <2>1. mutex' = Tail(mutex) /\ holder' = NoRequest /\ mutex # <<>> /\ Head(mutex) = r
    BY <1>2, <1>4, <1>6 DEF Leave
  <2>2. /\ mutex' \in Seq(Request) /\ IsInjective(mutex')
        /\ \A q : q \in Range(mutex') <=> q \in Range(mutex) /\ q # r
    BY <1>2, <2>1, LeaveChain
  <2>3. \A q : q \in Range(mutex') <=> q \in Request /\ req'[q].at \in Waiting
    BY <1>1, <1>2, <1>3, <1>6, <2>2
  <2> QED BY <2>1, <2>2, <2>3
<1>7. CASE (req[r].at \in Waiting <=> req'[r].at \in Waiting) /\ UNCHANGED <<mutex, holder, env, old>>
  <2>1. \A q : q \in Range(mutex) <=> q \in Request /\ req'[q].at \in Waiting
    BY <1>1, <1>2, <1>3, <1>7
  <2> QED BY <1>2, <1>7, <2>1
<1>8. CASE Enter(r)
  <2>1. /\ mutex' = mutex /\ holder' = r /\ mutex # <<>> /\ r = Head(mutex)
        /\ req' = [req EXCEPT ![r].gen = loaded]
    BY <1>8 DEF Enter
  <2>2. req'[r].at = req[r].at
    BY <2>1, RequestType DEF ApiInv, Req
  <2>3. \A q : q \in Range(mutex) <=> q \in Request /\ req'[q].at \in Waiting
    BY <1>1, <1>2, <1>3, <2>2
  <2> QED BY <1>2, <2>1, <2>3
<1> QED
  BY <1>5, <1>6, <1>7, <1>8 DEF Effect, Chains

(* The environment: only its holder's request decides what it is.          *)
EnvironmentOf(r) ==
  IF req[r].at = "prompting" THEN WithHandoff(r, Environment(P(r), HostEnv)) ELSE Environment(P(r), HostEnv)

LEMMA KeepsEnvironment ==
  ASSUME ApiInv, NEW r \in Request, Effect(r)
  PROVE  HostIsKept' /\ env' \in Environments /\ old' \in Environments /\ holder' \in Request \cup {NoRequest}
<1>1. /\ env \in Environments /\ old \in Environments /\ holder \in Request \cup {NoRequest}
      /\ NoRequest \notin Request
  BY ApiAssumption DEF ApiInv, TypeOK
<1>2. /\ holder = NoRequest => env = HostEnv
      /\ holder # NoRequest => old = HostEnv /\ env = EnvironmentOf(holder)
  BY DEF ApiInv, HostIsKept, EnvironmentRestored, EnvironmentOf
<1>3. /\ \A q \in Request \ {r} : req'[q] = req[q]
      /\ req'[r].s = req[r].s /\ req'[r].op = req[r].op
  BY DEF Effect, Moves
<1>4. \A q \in Request \ {r} : EnvironmentOf(q)' = EnvironmentOf(q)
  BY <1>3 DEF EnvironmentOf, P, WithHandoff
<1>5. req'[r].at = req[r].at => EnvironmentOf(r)' = EnvironmentOf(r)
  BY <1>3 DEF EnvironmentOf, P, WithHandoff
<1>6. ASSUME holder' \in Request \cup {NoRequest}, holder' = NoRequest => env' = HostEnv,
             \A q \in Request : holder' = q => old' = HostEnv /\ env' = EnvironmentOf(q)'
      PROVE  HostIsKept'
  BY <1>1, <1>6 DEF HostIsKept, EnvironmentRestored, EnvironmentOf
<1>7. CASE req[r].at \notin Waiting /\ req'[r].at \in Waiting /\ Join(r) /\ UNCHANGED <<holder, env, old>>
  <2>1. holder # r
    BY <1>1, <1>7, HolderWaits
  <2> QED BY <1>1, <1>2, <1>4, <1>6, <1>7, <2>1
<1>8. CASE req[r].at \in Waiting /\ req'[r].at \notin Waiting /\ holder = r /\ Leave(r)
  <2>1. holder' = NoRequest /\ env' = old /\ old' = HostEnv /\ old = HostEnv
    BY <1>1, <1>2, <1>8 DEF Leave
  <2> QED BY <1>1, <1>6, <2>1
<1>9. CASE (req[r].at \in Waiting <=> req'[r].at \in Waiting) /\ UNCHANGED <<mutex, holder, env, old>>
  <2>1. holder = r => req'[r].at = req[r].at
    <3>1. holder = r => req[r].at \in Waiting
      BY <1>1, HolderWaits
    <3> QED BY <1>9, <3>1 DEF Effect, Arrow, Waiting, Ended
  <2> QED BY <1>1, <1>2, <1>4, <1>5, <1>6, <1>9, <2>1
<1>10. CASE Enter(r)
  <2>1. /\ holder = NoRequest /\ holder' = r /\ old' = env
        /\ env' = LET e == Environment(P(r), env)
                  IN  IF req[r].at = "prompting" THEN WithHandoff(r, e) ELSE e
        /\ req' = [req EXCEPT ![r].gen = loaded]
    BY <1>10 DEF Enter
  <2>2. req'[r].at = req[r].at
    BY <2>1, RequestType DEF ApiInv, Req
  <2>3. env' = EnvironmentOf(r) /\ old' = HostEnv
    BY <1>2, <2>1 DEF EnvironmentOf
  <2>4. env' \in Environments
    <3>1. P(r) \in Profile /\ HostEnv \in Environments
      <4>1. req[r].at # "new"
        BY DEF Effect, Arrow
      <4> QED BY <4>1, ProfileType, HostEnvType DEF ApiInv
    <3>2. Environment(P(r), HostEnv) \in Environments
      BY <3>1, EnvironmentType
    <3> QED BY <2>3, <3>2, HandoffType DEF EnvironmentOf
  <2> QED BY <1>1, <1>5, <1>6, <2>1, <2>2, <2>3, <2>4
<1> QED
  BY <1>7, <1>8, <1>9, <1>10 DEF Effect, Chains

(* What a request has asked for stays, and a wait goes on only for another *)
(* request that is under way or has ended.                                 *)
LEMMA KeepsAsked ==
  ASSUME ApiInv, NEW r \in Request, Effect(r)
  PROVE  Asked' /\ req' \in [Request -> Req]
BY DEF ApiInv, Asked, Effect, Moves, Arrow

(* What has been entered is never left again.                              *)
LEMMA NeverBack ==
  ASSUME ApiInv, NEW r \in Request, Effect(r), NEW q \in Request
  PROVE  /\ req[q].at \in Past => req'[q].at \in Past
         /\ req[q].at \notin {"new", "join", "await"} => req'[q].at \notin {"new", "join", "await"}
         /\ req[q].at \in Ended => req'[q] = req[q]
<1>1. CASE q # r
  BY <1>1 DEF Effect, Moves
<1>2. CASE q = r
  BY <1>2 DEF Effect, Arrow, Past, Ended
<1> QED BY <1>1, <1>2
-----------------------------------------------------------------------------
(* The cache changes by the handle a request has just opened, or loses     *)
(* handles; a request works with its own handle or with one it found.      *)
CacheStep(r) ==
  /\ \A s \in Session : cache'[s] \in {NoHandle, cache[s]} \/ (cache'[s] = r /\ req'[r].at \in Past)
  /\ req'[r].at \in {"check", "prompting"} =>
       \/ req[r].at \in {"check", "prompting"} /\ req'[r].h = req[r].h
       \/ req'[r].h = r
       \/ \E s \in Session : cache[s] # NoHandle /\ req'[r].h = cache[s]

LEMMA StepCache ==
  ASSUME ApiInv, NEW r \in Request, Step(r)
  PROVE  CacheStep(r) /\ cache' \in [Session -> Request \cup {NoHandle}]
<1>1. Effect(r)
  BY StepEffect
<1>2. req[r].at # "new" /\ req[r].s \in Session
  BY <1>1, ProfileType DEF Effect, Arrow, ApiInv
<1>3. /\ Moves(r, req'[r].at) /\ Arrow(req[r].at, req'[r].at)
      /\ req[r].at \notin {"lookup", "opening", "join"} => req'[r].h = req[r].h
      /\ cache \in [Session -> Request \cup {NoHandle}]
  BY <1>1 DEF Effect, ApiInv, TypeOK
<1>4. CASE Lookup(r)
  BY <1>2, <1>3, <1>4, RequestType DEF Lookup, CacheStep, Past, ApiInv, Req
<1>5. ASSUME NEW ok \in BOOLEAN, Opened(r, ok) PROVE CacheStep(r) /\ cache' \in [Session -> Request \cup {NoHandle}]
  <2>1. CASE cache' = [cache EXCEPT ![req[r].s] = r] /\ req' = [req EXCEPT ![r].at = "check", ![r].h = r]
    BY <1>2, <1>3, <2>1, RequestType DEF CacheStep, Past, ApiInv, Req
  <2>2. CASE End(r, "failed") /\ cache' = cache
    <3>1. req'[r].at = "failed"
      BY <2>2, EndMoves DEF Moves, At, Ended, ApiInv
    <3> QED BY <1>3, <2>2, <3>1 DEF CacheStep
  <2> QED BY <1>5, <2>1, <2>2 DEF Opened
<1>6. CASE Drop(r) \/ Unlink(r)
  <2>1. /\ cache' \in [Session -> Request \cup {NoHandle}]
        /\ \A s \in Session : cache'[s] \in {NoHandle, cache[s]}
    BY <1>2, <1>3, <1>6 DEF Drop, Unlink, Uncached
  <2>2. req[r].at \in {"drop", "unlink"}
    BY <1>6 DEF Drop, Unlink
  <2>3. req'[r].at \notin {"check", "prompting"}
    BY <1>3, <2>2 DEF Arrow
  <2> QED BY <2>1, <2>3 DEF CacheStep
<1>7. CASE cache' = cache /\ req[r].at \notin {"lookup", "opening"}
  <2>1. req'[r].at \in {"check", "prompting"} => req[r].at \in {"check", "prompting"} /\ req'[r].h = req[r].h
    BY <1>3, <1>7 DEF Arrow
  <2> QED BY <1>3, <1>7, <2>1 DEF CacheStep
<1>8. CASE Enter(r)
  <2>1. req'[r].at = req[r].at /\ req'[r].h = req[r].h
    BY <1>8, RequestType DEF Enter, ApiInv, Req
  <2>2. cache' = cache
    BY <1>8 DEF Enter
  <2> QED BY <1>3, <2>1, <2>2 DEF CacheStep
<1>9. \/ Lookup(r) \/ Drop(r) \/ Unlink(r) \/ Enter(r) \/ \E ok \in BOOLEAN : Opened(r, ok)
      \/ cache' = cache /\ req[r].at \notin {"lookup", "opening"}
  <2>1. CASE Route(r) \/ List(r) \/ Check(r) \/ Sandbox(r) \/ Find(r) \/ Discover(r) \/ Awaited(r)
    BY <2>1 DEF Route, List, Check, Sandbox, Find, Discover, Awaited
  <2>2. CASE CreateList(r) \/ CreateWrite(r) \/ RemoveDirectory(r)
    BY <2>2 DEF CreateList, CreateWrite, RemoveDirectory
  <2>3. ASSUME NEW ok \in BOOLEAN, Prompted(r, ok) \/ ChildEnds(r, ok) \/ OneShot(r, ok)
        PROVE  cache' = cache /\ req[r].at \notin {"lookup", "opening"}
    BY <2>3 DEF Prompted, ChildEnds, OneShot
  <2> QED BY <2>1, <2>2, <2>3 DEF Step
<1> QED
  BY <1>4, <1>5, <1>6, <1>7, <1>8, <1>9

LEMMA KeepsHandles ==
  ASSUME ApiInv, NEW r \in Request, Step(r)
  PROVE  HandlesAreOpen'
<1>1. Effect(r) /\ CacheStep(r) /\ cache \in [Session -> Request \cup {NoHandle}]
  BY StepEffect, StepCache DEF ApiInv, TypeOK
<1>2. /\ \A q \in Request : req[q].at \in Past => req'[q].at \in Past
      /\ \A q \in Request \ {r} : req'[q] = req[q]
  BY <1>1, NeverBack DEF Effect, Moves
<1>3. /\ \A s \in Session : cache[s] # NoHandle => cache[s] \in Request /\ req[cache[s]].at \in Past
      /\ \A q \in Request : req[q].at \in {"check", "prompting"} =>
           req[q].h \in Request /\ req[req[q].h].at \in Past
  BY <1>1 DEF ApiInv, HandlesAreOpen
<1>4. \A s \in Session : cache'[s] # NoHandle => req'[cache'[s]].at \in Past
  BY <1>1, <1>2, <1>3 DEF CacheStep
<1>5. ASSUME NEW q \in Request, req'[q].at \in {"check", "prompting"}
      PROVE  req'[q].h \in Request /\ req'[req'[q].h].at \in Past
  <2>1. CASE q # r
    BY <1>2, <1>3, <1>5, <2>1
  <2>2. CASE q = r
    BY <1>1, <1>2, <1>3, <1>5, <2>2 DEF CacheStep, Past
  <2> QED BY <2>1, <2>2
<1> QED
  BY <1>4, <1>5 DEF HandlesAreOpen

(* The handles' busy flags: List makes a handle that nobody works with,    *)
(* Check takes one that is free, and Prompted frees the request's own.     *)
LEMMA KeepsPrompts ==
  ASSUME ApiInv, NEW r \in Request, Step(r)
  PROVE  PromptsAreAlone'
<1>1. Effect(r) /\ HandlesAreOpen /\ handle \in [Request -> HandleRec] /\ PromptsAreAlone
  BY StepEffect DEF ApiInv, TypeOK, HandleRec
<1>2. /\ \A q \in Request \ {r} : req'[q] = req[q]
      /\ Arrow(req[r].at, req'[r].at)
      /\ req[r].at \notin {"lookup", "opening", "join"} => req'[r].h = req[r].h
  BY <1>1 DEF Effect, Moves
<1>3. CASE handle' = handle /\ req'[r].at # "prompting"
  <2>1. ASSUME NEW q \in Request, req'[q].at = "prompting" PROVE q # r /\ req'[q] = req[q]
    BY <1>2, <1>3, <2>1
  <2> QED BY <1>1, <1>3, <2>1 DEF PromptsAreAlone
<1>4. CASE handle' = handle /\ req[r].at = "prompting"
  <2>1. ASSUME NEW q \in Request, req'[q].at = "prompting" PROVE req[q].at = "prompting" /\ req'[q].h = req[q].h
    BY <1>2, <1>4, <2>1
  <2> QED BY <1>1, <1>4, <2>1 DEF PromptsAreAlone
<1>5. CASE List(r)
  <2>1. req[r].at = "list" /\ \A h \in Request \ {r} : handle'[h] = handle[h]
    BY <1>1, <1>5 DEF List
  <2>2. ASSUME NEW q \in Request, req'[q].at = "prompting" PROVE q # r /\ req'[q] = req[q] /\ req[q].h # r
    BY <1>1, <1>2, <2>1, <2>2 DEF HandlesAreOpen, Arrow, Past, Ended
  <2>3. ASSUME NEW q \in Request, req'[q].at = "prompting" PROVE handle'[req'[q].h].busy /\ req'[q].h = req[q].h
    BY <1>1, <2>1, <2>2, <2>3 DEF PromptsAreAlone, HandlesAreOpen
  <2> QED BY <1>1, <2>2, <2>3 DEF PromptsAreAlone
<1>6. CASE Check(r)
  <2>1. req[r].at = "check" /\ req'[r].h = req[r].h /\ req[r].h \in Request
    BY <1>1, <1>2, <1>6 DEF Check, HandlesAreOpen
  <2>2. CASE End(r, "failed") /\ UNCHANGED <<handle, mutex>>
    <3>1. req'[r].at = "failed"
      BY <2>2, EndMoves DEF Moves, At, Ended, ApiInv
    <3> QED BY <1>3, <2>2, <3>1
  <2>3. CASE ~handle[req[r].h].busy /\ handle' = [handle EXCEPT ![req[r].h].busy = TRUE]
    <3>1. /\ handle'[req[r].h].busy /\ \A h \in Request \ {req[r].h} : handle'[h] = handle[h]
      BY <1>1, <2>1, <2>3 DEF HandleRec
    <3>2. ASSUME NEW q \in Request \ {r}, req'[q].at = "prompting"
          PROVE  req[q].at = "prompting" /\ req'[q].h = req[q].h /\ req[q].h # req[r].h /\ req[q].h \in Request
                 /\ handle'[req'[q].h].busy
      BY <1>1, <1>2, <2>3, <3>1, <3>2 DEF PromptsAreAlone, HandlesAreOpen
    <3> QED BY <1>1, <2>1, <3>1, <3>2 DEF PromptsAreAlone
  <2> QED BY <1>6, <2>2, <2>3 DEF Check, Busy
<1>7. ASSUME NEW ok \in BOOLEAN, Prompted(r, ok) PROVE PromptsAreAlone'
  <2>1. /\ req[r].at = "prompting" /\ req[r].h \in Request
        /\ \A h \in Request \ {req[r].h} : handle'[h] = handle[h]
    BY <1>1, <1>7 DEF Prompted, HandlesAreOpen
  <2>2. req'[r].at \in Ended
    BY <1>7, EndMoves DEF Prompted, Moves, At, Ended, ApiInv
  <2>3. ASSUME NEW q \in Request, req'[q].at = "prompting"
        PROVE  /\ q # r /\ req[q].at = "prompting" /\ req'[q].h = req[q].h /\ req[q].h # req[r].h
               /\ req[q].h \in Request /\ handle'[req'[q].h].busy
    BY <1>1, <1>2, <2>1, <2>2, <2>3 DEF PromptsAreAlone, HandlesAreOpen, Ended
  <2> QED BY <1>1, <2>3 DEF PromptsAreAlone
<1>8. CASE Enter(r)
  <2>1. req'[r].at = req[r].at /\ handle' = handle
    BY <1>8, RequestType DEF Enter, ApiInv, Req
  <2> QED BY <1>3, <1>4, <2>1
<1>9. \/ List(r) \/ Check(r) \/ Enter(r) \/ \E ok \in BOOLEAN : Prompted(r, ok)
      \/ handle' = handle /\ req[r].at \notin {"check", "prompting"}
  <2>1. CASE Route(r) \/ Lookup(r) \/ Sandbox(r) \/ Find(r) \/ Discover(r) \/ Awaited(r)
    BY <2>1 DEF Route, Lookup, Sandbox, Find, Discover, Awaited
  <2>2. CASE CreateList(r) \/ CreateWrite(r) \/ Drop(r) \/ Unlink(r) \/ RemoveDirectory(r)
    BY <2>2 DEF CreateList, CreateWrite, Drop, Unlink, RemoveDirectory
  <2>3. ASSUME NEW ok \in BOOLEAN, Opened(r, ok) \/ ChildEnds(r, ok) \/ OneShot(r, ok)
        PROVE  handle' = handle /\ req[r].at \notin {"check", "prompting"}
    BY <2>3 DEF Opened, ChildEnds, OneShot
  <2> QED BY <2>1, <2>2, <2>3 DEF Step
<1>10. req[r].at \notin {"check", "prompting"} => req'[r].at # "prompting"
  BY <1>2 DEF Arrow, Ended
<1> QED
  BY <1>3, <1>5, <1>6, <1>7, <1>8, <1>9, <1>10
(* The children: Sandbox takes a session that has none, and the end of the *)
(* child, or not finding its file, gives it back.                          *)
LEMMA KeepsChildren ==
  ASSUME ApiInv, NEW r \in Request, Step(r)
  PROVE  ChildrenAreAlone'
<1>1. Effect(r) /\ ChildrenAreAlone
  BY StepEffect DEF ApiInv
<1>2. /\ \A q \in Request \ {r} : req'[q] = req[q]
      /\ req'[r].op = req[r].op /\ req'[r].s = req[r].s
      /\ Arrow(req[r].at, req'[r].at)
  BY <1>1 DEF Effect, Moves
<1>3. \A q \in Request \ {r} : InChild(q)' = InChild(q)
  BY <1>2 DEF InChild
<1>4. ASSUME ~InChild(r)', sandboxBusy \ {req[r].s} \subseteq sandboxBusy',
             InChild(r) \/ sandboxBusy \subseteq sandboxBusy',
             req'[r].at = "sandbox" => req[r].op \notin {"oneshot", "discover"}, req'[r].at # "find"
      PROVE  ChildrenAreAlone'
  <2>1. ASSUME NEW q \in Request, InChild(q)'
        PROVE  q # r /\ InChild(q) /\ req'[q].s = req[q].s /\ req'[q].s \in sandboxBusy'
    BY <1>1, <1>2, <1>3, <1>4, <2>1 DEF ChildrenAreAlone
  <2>2. \A q \in Request : req'[q].at \in {"sandbox", "find"} => req'[q].op \notin {"oneshot", "discover"}
    BY <1>1, <1>2, <1>4 DEF ChildrenAreAlone
  <2> QED BY <1>1, <2>1, <2>2 DEF ChildrenAreAlone
<1>5. CASE Route(r)
  <2>0. sandboxBusy' = sandboxBusy /\ req[r].at = "route"
    BY <1>5 DEF Route
  <2>1. CASE req[r].op \in {"oneshot", "discover"}
    <3>1. req'[r].at \in {"failed", "child", "oneshot"}
      <4>1. \/ End(r, "failed") \/ Go(r, "oneshot")
            \/ req' = [req EXCEPT ![r].at = "child", ![r].child = Environment(P(r), env), ![r].gen = loaded]
        BY <1>5, <2>1 DEF Route
      <4> QED BY <4>1, RequestType DEF Go, End, ApiInv, Req
    <3> QED BY <1>2, <1>4, <2>0, <2>1, <3>1 DEF InChild
  <2>2. CASE req[r].op \notin {"oneshot", "discover"}
    <3>1. req'[r].at \in {"failed", "sandbox", "lookup"}
      <4>1. \/ End(r, "failed") \/ Go(r, "sandbox") \/ Go(r, "lookup")
        BY <1>5, <2>2 DEF Route
      <4> QED BY <4>1, RequestType DEF Go, End, ApiInv, Req
    <3> QED BY <1>2, <1>4, <2>0, <2>2, <3>1 DEF InChild
  <2> QED BY <2>1, <2>2
<1>6. CASE Sandbox(r)
  <2>1. CASE End(r, "failed") /\ UNCHANGED sandboxBusy
    <3>1. req'[r].at = "failed"
      BY <2>1, EndMoves DEF Moves, At, Ended, ApiInv
    <3> QED BY <1>4, <2>1, <3>1 DEF InChild
  <2>2. CASE req[r].s \notin sandboxBusy /\ Go(r, "find") /\ sandboxBusy' = sandboxBusy \cup {req[r].s}
    <3>1. req'[r].at = "find"
      BY <2>2, GoMoves DEF Moves, At, ApiInv
    <3>2. req[r].at = "sandbox" /\ req[r].op \notin {"oneshot", "discover"}
      BY <1>1, <1>6 DEF Sandbox, ChildrenAreAlone
    <3>3. \A q \in Request : req'[q].at \in {"sandbox", "find"} => req'[q].op \notin {"oneshot", "discover"}
      BY <1>1, <1>2, <3>2 DEF ChildrenAreAlone
    <3>4. \A q \in Request \ {r} : InChild(q)' => req'[q].s \in sandboxBusy' /\ req'[q].s # req[r].s
      BY <1>1, <1>2, <1>3, <2>2 DEF ChildrenAreAlone
    <3> QED BY <1>1, <1>2, <1>3, <2>2, <3>1, <3>3, <3>4 DEF ChildrenAreAlone
  <2> QED BY <1>6, <2>1, <2>2 DEF Sandbox, InSandbox
<1>7. CASE Find(r)
  <2>1. req[r].at = "find" /\ InChild(r)
    BY <1>1, <1>7 DEF Find, InChild, ChildrenAreAlone
  <2>2. CASE End(r, "failed") /\ sandboxBusy' = sandboxBusy \ {req[r].s}
    <3>1. req'[r].at = "failed"
      BY <2>2, EndMoves DEF Moves, At, Ended, ApiInv
    <3> QED BY <1>4, <2>1, <2>2, <3>1 DEF InChild
  <2>3. CASE UNCHANGED sandboxBusy /\ \E f \in FilesOf(req[r].s) :
               req' = [req EXCEPT ![r].at = "child", ![r].f = f,
                                  ![r].child = WithHandoff(r, Environment(P(r), env))]
    <3>1. req'[r].at = "child" /\ InChild(r)' = InChild(r)
      BY <1>2, <2>1, <2>3, RequestType DEF InChild, ApiInv, Req
    <3>2. \A q \in Request : InChild(q)' = InChild(q) /\ req'[q].s = req[q].s
      BY <1>2, <1>3, <3>1
    <3>3. \A q \in Request : req'[q].at \in {"sandbox", "find"} => req'[q].op \notin {"oneshot", "discover"}
      BY <1>1, <1>2, <3>1 DEF ChildrenAreAlone
    <3> QED BY <1>1, <2>3, <3>2, <3>3 DEF ChildrenAreAlone
  <2> QED BY <1>7, <2>2, <2>3 DEF Find
<1>8. ASSUME NEW ok \in BOOLEAN, ChildEnds(r, ok) PROVE ChildrenAreAlone'
  <2>1. req[r].at = "child" /\ req'[r].at \in Ended
    BY <1>8, EndMoves DEF ChildEnds, Moves, At, Ended, ApiInv
  <2>2. /\ sandboxBusy \ {req[r].s} \subseteq sandboxBusy'
        /\ InChild(r) \/ sandboxBusy \subseteq sandboxBusy'
    BY <1>8, <2>1 DEF ChildEnds, InChild
  <2> QED BY <1>4, <2>1, <2>2 DEF InChild, Ended
<1>9. CASE Enter(r)
  <2>1. req'[r].at = req[r].at /\ sandboxBusy' = sandboxBusy
    BY <1>9, RequestType DEF Enter, ApiInv, Req
  <2>2. req[r].at \in Waiting
    BY <1>9, EnterWaits
  <2> QED BY <1>4, <2>1, <2>2 DEF InChild, Waiting
<1>10. \/ Route(r) \/ Sandbox(r) \/ Find(r) \/ Enter(r) \/ \E ok \in BOOLEAN : ChildEnds(r, ok)
       \/ sandboxBusy' = sandboxBusy /\ req[r].at \notin {"route", "sandbox", "find", "child"}
  <2>1. CASE Lookup(r) \/ List(r) \/ Check(r) \/ Discover(r) \/ Awaited(r)
    BY <2>1 DEF Lookup, List, Check, Discover, Awaited
  <2>2. CASE CreateList(r) \/ CreateWrite(r) \/ Drop(r) \/ Unlink(r) \/ RemoveDirectory(r)
    BY <2>2 DEF CreateList, CreateWrite, Drop, Unlink, RemoveDirectory
  <2>3. ASSUME NEW ok \in BOOLEAN, Opened(r, ok) \/ Prompted(r, ok) \/ OneShot(r, ok)
        PROVE  sandboxBusy' = sandboxBusy /\ req[r].at \notin {"route", "sandbox", "find", "child"}
    BY <2>3 DEF Opened, Prompted, OneShot
  <2> QED BY <2>1, <2>2, <2>3 DEF Step
<1>11. CASE sandboxBusy' = sandboxBusy /\ req[r].at \notin {"route", "sandbox", "find", "child"}
  <2>1. req'[r].at \notin {"sandbox", "find", "child"}
    BY <1>2, <1>11 DEF Arrow, Ended
  <2> QED BY <1>4, <1>11, <2>1 DEF InChild
<1> QED
  BY <1>5, <1>6, <1>7, <1>8, <1>9, <1>10, <1>11

(* The record of discoveries.                                              *)
LEMMA KeepsDiscovery ==
  ASSUME ApiInv, NEW r \in Request, Step(r)
  PROVE  DiscoveryOnRecord'
<1>1. Effect(r) /\ DiscoveryOnRecord /\ tools \in [Profile -> [entry : Request \cup {NoRequest}, known : SUBSET (0..MaxChanges)]]
  BY StepEffect DEF ApiInv, TypeOK
<1>2. /\ \A q \in Request \ {r} : req'[q] = req[q]
      /\ req'[r].op = req[r].op /\ req'[r].s = req[r].s
      /\ Arrow(req[r].at, req'[r].at)
      /\ \A q \in Request : P(q)' = P(q) /\ req'[q].op = req[q].op
  BY <1>1 DEF Effect, Moves, P
<1>3. req[r].s \in Session /\ P(r) \in Profile /\ NoRequest \notin Request
  BY <1>1, ProfileType, ApiAssumption DEF Effect, Arrow, ApiInv
<1> DEFINE Good(p) == LET q == tools[p].entry IN
      q # NoRequest => /\ req[q].op = "discover" /\ P(q) = p
                       /\ req[q].at \in {"route", "child", "oneshot"} \cup Ended
                       /\ req[q].at = "done" => req[q].gen \in tools[p].known
<1>4. /\ \A p \in Profile : Good(p)
      /\ (\A p \in Profile : Good(p)') => DiscoveryOnRecord'
  BY <1>1 DEF DiscoveryOnRecord
<1>5. ASSUME NEW p \in Profile, tools'[p].entry \in {tools[p].entry, NoRequest}, tools[p].known \subseteq tools'[p].known,
             tools'[p].entry # r
      PROVE  Good(p)'
  BY <1>1, <1>2, <1>4, <1>5
<1>6. CASE tools' = tools /\ req[r].at \notin {"route", "child", "oneshot"}
  <2>1. ASSUME NEW p \in Profile PROVE tools'[p].entry # r
    BY <1>1, <1>2, <1>3, <1>4, <1>6, <2>1 DEF Arrow, Ended
  <2> QED BY <1>4, <1>5, <1>6, <2>1
<1>7. CASE Route(r)
  <2>1. CASE req[r].op # "discover"
    BY <1>3, <1>4, <1>5, <1>7, <2>1 DEF Route
  <2>2. CASE req[r].op = "discover"
    <3>1. req'[r].at \in {"failed", "child", "oneshot"}
      <4>1. \/ End(r, "failed") \/ Go(r, "oneshot")
            \/ req' = [req EXCEPT ![r].at = "child", ![r].child = Environment(P(r), env), ![r].gen = loaded]
        BY <1>7, <2>2 DEF Route
      <4> QED BY <4>1, RequestType DEF Go, End, ApiInv, Req
    <3>2. ASSUME NEW p \in Profile, tools'[p].entry = r PROVE Good(p)'
      BY <1>2, <1>3, <1>4, <1>7, <3>1, <3>2 DEF Route, Ended
    <3> QED BY <1>4, <1>5, <1>7, <3>2 DEF Route
  <2> QED BY <2>1, <2>2
<1>8. CASE Enter(r)
  <2>1. req'[r].at = req[r].at /\ tools' = tools
    BY <1>8, RequestType DEF Enter, ApiInv, Req
  <2>2. req'[r].at \notin {"done"}
    BY <1>2, <2>1 DEF Arrow
  <2>3. ASSUME NEW p \in Profile, tools'[p].entry = r PROVE Good(p)'
    BY <1>2, <1>3, <1>4, <2>1, <2>2, <2>3
  <2> QED BY <1>4, <1>5, <2>1, <2>3
<1>9. CASE Discover(r)
  <2>1. CASE Go(r, "route") /\ tools' = [tools EXCEPT ![P(r)].entry = r]
    <3>1. req'[r].at = "route" /\ req[r].at = "join"
      BY <1>9, <2>1, GoMoves DEF Discover, Moves, At, ApiInv
    <3>2. ASSUME NEW p \in Profile, p # P(r) PROVE Good(p)'
      <4>1. tools'[p] = tools[p] /\ tools[p].entry # r
        BY <1>1, <1>3, <1>4, <2>1, <3>2
      <4> QED BY <1>5, <4>1
    <3>3. ASSUME NEW p \in Profile, p = P(r) PROVE Good(p)'
      <4>1. tools'[p].entry = r
        BY <1>1, <1>3, <2>1, <3>3
      <4>2. req[r].op = "discover"
        BY <1>9 DEF Discover, ApiInv, Asked
      <4> QED BY <1>2, <1>3, <3>1, <3>3, <4>1, <4>2 DEF Ended
    <3> QED BY <1>4, <3>2, <3>3
  <2>2. CASE tools' = tools
    BY <1>6, <1>9, <2>2 DEF Discover
  <2> QED BY <1>9, <2>1, <2>2 DEF Discover
<1>10. CASE Drop(r)
  <2>1. /\ req[r].at = "drop"
        /\ tools' = tools \/ tools' = Forgotten(P(r))
    BY <1>10 DEF Drop
  <2>2. CASE tools' = tools
    BY <1>6, <2>1, <2>2
  <2>3. CASE tools' = Forgotten(P(r))
    <3>1. ASSUME NEW p \in Profile PROVE Good(p)'
      <4>1. CASE p = P(r)
        BY <1>1, <1>3, <2>3, <4>1 DEF Forgotten
      <4>2. CASE p # P(r)
        <5>1. tools'[p] = tools[p] /\ tools[p].entry # r
          BY <1>1, <1>3, <1>4, <2>1, <2>3, <4>2 DEF Forgotten, Ended
        <5> QED BY <1>5, <5>1
      <4> QED BY <4>1, <4>2
    <3> QED BY <1>4, <3>1
  <2> QED BY <2>1, <2>2, <2>3
<1>11. ASSUME NEW ok \in BOOLEAN, ChildEnds(r, ok) \/ OneShot(r, ok) PROVE DiscoveryOnRecord'
  <2>1. /\ End(r, IF ok THEN "done" ELSE "failed") /\ tools' = Learned(r, ok)
        /\ req[r].at \in {"child", "oneshot"}
    BY <1>11 DEF ChildEnds, OneShot
  <2>2. /\ req'[r].gen = req[r].gen /\ req'[r].at = (IF ok THEN "done" ELSE "failed")
    <3>1. PICK to \in At : End(r, to) /\ to = IF ok THEN "done" ELSE "failed"
      BY <2>1 DEF At, Ended
    <3> QED BY <3>1, EndMoves DEF Moves, Holds, ApiInv
  <2>3. CASE req[r].op # "discover"
    <3>1. tools' = tools
      BY <2>1, <2>3 DEF Learned
    <3>2. ASSUME NEW p \in Profile PROVE tools'[p].entry # r
      BY <1>3, <1>4, <2>3, <3>1
    <3> QED BY <1>4, <1>5, <3>1, <3>2
  <2>4. CASE req[r].op = "discover" /\ ok
    <3>1. tools' = [tools EXCEPT ![P(r)].known = @ \cup {req[r].gen}]
      BY <2>1, <2>4 DEF Learned
    <3>2. ASSUME NEW p \in Profile
          PROVE  /\ tools'[p].entry = tools[p].entry /\ tools[p].known \subseteq tools'[p].known
                 /\ p = P(r) => req[r].gen \in tools'[p].known
      BY <1>1, <1>3, <3>1
    <3>3. ASSUME NEW p \in Profile, tools'[p].entry = r PROVE Good(p)'
      BY <1>2, <1>3, <1>4, <2>2, <2>4, <3>2, <3>3 DEF Ended
    <3> QED BY <1>4, <1>5, <3>2, <3>3
  <2>5. CASE req[r].op = "discover" /\ ~ok
    <3>1. tools' = [tools EXCEPT ![P(r)].entry = NoRequest]
      BY <2>1, <2>5 DEF Learned
    <3>2. ASSUME NEW p \in Profile
          PROVE  /\ tools'[p].entry \in {tools[p].entry, NoRequest} /\ tools'[p].known = tools[p].known
                 /\ tools'[p].entry # r
      BY <1>1, <1>3, <1>4, <3>1
    <3> QED BY <1>4, <1>5, <3>2
  <2> QED BY <2>3, <2>4, <2>5
<1>12. \/ Route(r) \/ Enter(r) \/ Discover(r) \/ Drop(r) \/ \E ok \in BOOLEAN : ChildEnds(r, ok) \/ OneShot(r, ok)
       \/ tools' = tools /\ req[r].at \notin {"route", "child", "oneshot"}
  <2>1. CASE Lookup(r) \/ List(r) \/ Check(r) \/ Awaited(r) \/ Sandbox(r) \/ Find(r)
    BY <2>1 DEF Lookup, List, Check, Awaited, Sandbox, Find
  <2>2. CASE CreateList(r) \/ CreateWrite(r) \/ Unlink(r) \/ RemoveDirectory(r)
    BY <2>2 DEF CreateList, CreateWrite, Unlink, RemoveDirectory
  <2>3. ASSUME NEW ok \in BOOLEAN, Opened(r, ok) \/ Prompted(r, ok)
        PROVE  tools' = tools /\ req[r].at \notin {"route", "child", "oneshot"}
    BY <2>3 DEF Opened, Prompted
  <2> QED BY <2>1, <2>2, <2>3 DEF Step
<1> QED
  BY <1>6, <1>7, <1>8, <1>9, <1>10, <1>11, <1>12
-----------------------------------------------------------------------------
(* The types of what a step writes.                                        *)
LEMMA TurnType ==
  ASSUME TypeOK, NEW f \in File, NEW s \in Session, NEW leaf \in Nat
  PROVE  Turn(f, s, leaf) \in [File -> FileRec]
<1>1. file \in [File -> FileRec] /\ file[f].turns \in Seq(Nat)
  BY DEF TypeOK, FileRec
<1> DEFINE before == IF file[f].session = s THEN file[f].turns ELSE <<>>
<1>2. before \in Seq(Nat)
  BY <1>1, EmptySeq
<1>3. Append(before, leaf) \in Seq(Nat)
  BY <1>2, AppendProperties
<1>4. Turn(f, s, leaf) = [file EXCEPT ![f] = [session |-> s, turns |-> Append(before, leaf)]]
  BY DEF Turn
<1> HIDE DEF before
<1> QED BY <1>1, <1>3, <1>4 DEF FileRec

LEMMA RemovedType ==
  ASSUME TypeOK, NEW fs
  PROVE  Removed(fs) \in [File -> FileRec]
BY EmptySeq DEF TypeOK, Removed, FileRec

LEMMA LeafType ==
  ASSUME NEW fl \in [File -> FileRec], NEW f \in File
  PROVE  Len(fl[f].turns) \in Nat
<1>1. fl[f].turns \in Seq(Nat)
  BY DEF FileRec
<1> QED BY <1>1, LenProperties

LEMMA KeepsFiles ==
  ASSUME ApiInv, NEW r \in Request, Step(r)
  PROVE  file' \in [File -> FileRec] /\ handle' \in [Request -> HandleRec]
<1>1. /\ file \in [File -> FileRec] /\ handle \in [Request -> HandleRec]
      /\ req[r].s \in Session /\ req[r].f \in File /\ r \in File
      /\ \A q \in Request : req[q].at \in {"check", "prompting"} => req[q].h \in Request
  <2>1. req[r].at # "new"
    BY StepEffect DEF Effect, Arrow
  <2> QED BY <2>1, RequestType, ProfileType DEF ApiInv, TypeOK, FileRec, HandleRec, HandlesAreOpen
<1>2. CASE List(r)
  <2>1. ASSUME NEW f \in File
        PROVE  [handle EXCEPT ![r] = [session |-> req[r].s, file |-> f, leaf |-> Len(file[f].turns), busy |-> FALSE]]
                 \in [Request -> HandleRec]
    <3>1. Len(file[f].turns) \in Nat
      BY <1>1, LeafType
    <3> QED BY <1>1, <3>1 DEF HandleRec
  <2>2. file' = file
    BY <1>2 DEF List
  <2>3. \/ handle' = handle
        \/ \E f \in File : handle' = [handle EXCEPT ![r] = [session |-> req[r].s, file |-> f, leaf |-> Len(file[f].turns), busy |-> FALSE]]
    BY <1>1, <1>2 DEF List, FilesOf
  <2> QED BY <1>1, <2>1, <2>2, <2>3
<1>3. CASE Check(r)
  <2>1. file' = file /\ req[r].h \in Request
    BY <1>1, <1>3 DEF Check
  <2>2. handle' = handle \/ handle' = [handle EXCEPT ![req[r].h] = [handle[req[r].h] EXCEPT !.busy = TRUE]]
    BY <1>3 DEF Check
  <2>3. [handle[req[r].h] EXCEPT !.busy = TRUE] \in HandleRec
    BY <1>1, <2>1 DEF HandleRec
  <2> QED BY <1>1, <2>1, <2>2, <2>3
<1>4. ASSUME NEW ok \in BOOLEAN, Prompted(r, ok)
      PROVE  file' \in [File -> FileRec] /\ handle' \in [Request -> HandleRec]
  <2> DEFINE h == req[r].h
             f == handle[h].file
  <2>1. h \in Request /\ f \in File /\ handle[h] \in HandleRec /\ handle[h].leaf \in Nat
    BY <1>1, <1>4 DEF Prompted, HandleRec
  <2>2. CASE ok
    <3>1. file' = Turn(f, req[r].s, handle[h].leaf)
      BY <1>4, <2>2 DEF Prompted
    <3>2. file' \in [File -> FileRec]
      BY <1>1, <2>1, <3>1, TurnType DEF ApiInv
    <3>3. Len(file'[f].turns) \in Nat
      BY <2>1, <3>2, LeafType
    <3>4. handle' = [handle EXCEPT ![h] = [[handle[h] EXCEPT !.leaf = Len(file'[f].turns)] EXCEPT !.busy = FALSE]]
      BY <1>4, <2>2 DEF Prompted, Idle
    <3>5. [[handle[h] EXCEPT !.leaf = Len(file'[f].turns)] EXCEPT !.busy = FALSE] \in HandleRec
      BY <2>1, <3>3 DEF HandleRec
    <3> QED BY <1>1, <3>2, <3>4, <3>5
  <2>3. CASE ~ok
    <3>1. file' = file /\ handle' = [handle EXCEPT ![h] = [handle[h] EXCEPT !.busy = FALSE]]
      BY <1>4, <2>3 DEF Prompted, Idle
    <3> QED BY <1>1, <2>1, <3>1 DEF HandleRec
  <2> QED BY <2>2, <2>3
<1>5. ASSUME NEW ok \in BOOLEAN, ChildEnds(r, ok)
      PROVE  file' \in [File -> FileRec] /\ handle' = handle
  <2>1. Turn(req[r].f, req[r].s, Len(file[req[r].f].turns)) \in [File -> FileRec]
    BY <1>1, LeafType, TurnType DEF ApiInv
  <2> QED BY <1>1, <1>5, <2>1 DEF ChildEnds
<1>6. CASE CreateWrite(r)
  <2>1. [session |-> req[r].s, turns |-> <<>>] \in FileRec
    BY <1>1, EmptySeq DEF FileRec
  <2>2. handle' = handle /\ (file' = file \/ file' = [file EXCEPT ![r] = [session |-> req[r].s, turns |-> <<>>]])
    BY <1>6 DEF CreateWrite
  <2> QED BY <1>1, <2>1, <2>2
<1>7. CASE Unlink(r) \/ RemoveDirectory(r)
  <2>1. handle' = handle /\ (file' = file \/ \E fs : file' = Removed(fs))
    BY <1>7 DEF Unlink, RemoveDirectory
  <2> QED BY <1>1, <2>1, RemovedType DEF ApiInv
<1>8. \/ List(r) \/ Check(r) \/ CreateWrite(r) \/ Unlink(r) \/ RemoveDirectory(r)
      \/ \E ok \in BOOLEAN : Prompted(r, ok) \/ ChildEnds(r, ok)
      \/ UNCHANGED <<file, handle>>
  <2>1. CASE Route(r) \/ Lookup(r) \/ Enter(r) \/ Sandbox(r) \/ Find(r) \/ Discover(r) \/ Awaited(r)
    BY <2>1 DEF Route, Lookup, Enter, Sandbox, Find, Discover, Awaited
  <2>2. CASE CreateList(r) \/ Drop(r)
    BY <2>2 DEF CreateList, Drop
  <2>3. ASSUME NEW ok \in BOOLEAN, Opened(r, ok) \/ OneShot(r, ok) PROVE UNCHANGED <<file, handle>>
    BY <2>3 DEF Opened, OneShot
  <2> QED BY <2>1, <2>2, <2>3 DEF Step
<1> QED
  BY <1>1, <1>2, <1>3, <1>4, <1>5, <1>6, <1>7, <1>8

ProfileRec == [exists : BOOLEAN, sandbox : BOOLEAN]
ToolsRec == [entry : Request \cup {NoRequest}, known : SUBSET (0..MaxChanges)]

LEMMA KeepsProfiles ==
  ASSUME ApiInv, NEW r \in Request, Step(r)
  PROVE  /\ profile' \in [Profile -> ProfileRec] /\ tools' \in [Profile -> ToolsRec]
         /\ sandboxBusy' \in SUBSET Session
<1>1. /\ profile \in [Profile -> ProfileRec] /\ tools \in [Profile -> ToolsRec]
      /\ sandboxBusy \in SUBSET Session
      /\ req[r].s \in Session /\ P(r) \in Profile /\ req[r].gen \in 0..MaxChanges
  <2>1. req[r].at # "new"
    BY StepEffect DEF Effect, Arrow
  <2> QED BY <2>1, RequestType, ProfileType DEF ApiInv, TypeOK, ProfileRec, ToolsRec
<1>2. CASE RemoveDirectory(r)
  <2>1. profile' = profile \/ profile' = [profile EXCEPT ![P(r)].exists = FALSE]
    BY <1>2 DEF RemoveDirectory
  <2>2. tools' = tools /\ sandboxBusy' = sandboxBusy
    BY <1>2 DEF RemoveDirectory
  <2> QED BY <1>1, <2>1, <2>2 DEF ProfileRec
<1>3. CASE Discover(r)
  BY <1>1, <1>3 DEF Discover, ToolsRec
<1>4. CASE Drop(r)
  <2>1. tools' = tools \/ tools' = Forgotten(P(r))
    BY <1>4 DEF Drop
  <2>2. profile' = profile /\ sandboxBusy' = sandboxBusy
    BY <1>4 DEF Drop
  <2> QED BY <1>1, <2>1, <2>2 DEF Forgotten, ToolsRec
<1>5. ASSUME NEW ok \in BOOLEAN, ChildEnds(r, ok) \/ OneShot(r, ok)
      PROVE  /\ profile' \in [Profile -> ProfileRec] /\ tools' \in [Profile -> ToolsRec]
             /\ sandboxBusy' \in SUBSET Session
  <2>1. Learned(r, ok) \in [Profile -> ToolsRec]
    BY <1>1 DEF Learned, ToolsRec
  <2>2. tools' = Learned(r, ok) /\ profile' = profile /\ sandboxBusy' \subseteq sandboxBusy
    BY <1>5 DEF ChildEnds, OneShot
  <2> QED BY <1>1, <2>1, <2>2
<1>6. \/ RemoveDirectory(r) \/ Discover(r) \/ Drop(r) \/ \E ok \in BOOLEAN : ChildEnds(r, ok) \/ OneShot(r, ok)
      \/ UNCHANGED <<profile, tools>> /\ sandboxBusy' \subseteq sandboxBusy \cup {req[r].s}
  <2>1. CASE Route(r) \/ Lookup(r) \/ List(r) \/ Enter(r) \/ Check(r) \/ Sandbox(r) \/ Find(r) \/ Awaited(r)
    BY <2>1 DEF Route, Lookup, List, Enter, Check, Sandbox, Find, Awaited
  <2>2. CASE CreateList(r) \/ CreateWrite(r) \/ Unlink(r)
    BY <2>2 DEF CreateList, CreateWrite, Unlink
  <2>3. ASSUME NEW ok \in BOOLEAN, Opened(r, ok) \/ Prompted(r, ok)
        PROVE  UNCHANGED <<profile, tools>> /\ sandboxBusy' \subseteq sandboxBusy \cup {req[r].s}
    BY <2>3 DEF Opened, Prompted
  <2> QED BY <2>1, <2>2, <2>3 DEF Step
<1> QED
  BY <1>1, <1>2, <1>3, <1>4, <1>5, <1>6

(* Who waits for a discovery waits for one that is under way or has ended. *)
LEMMA KeepsAwaits ==
  ASSUME ApiInv, NEW r \in Request, Step(r)
  PROVE  /\ AwaitsOther'
         /\ \A q \in Request : req'[q].at = "await" => req'[req'[q].h].at \notin {"new", "join", "await"}
<1>1. Effect(r)
  BY StepEffect
<1>2. /\ \A q \in Request \ {r} : req'[q] = req[q]
      /\ Arrow(req[r].at, req'[r].at)
  BY <1>1 DEF Effect, Moves
<1>3. \A q \in Request : req[q].at = "await" =>
        req[q].h \in Request /\ req[req[q].h].at \notin {"new", "join", "await"}
  BY DEF ApiInv, AwaitsOther, NobodyIsStuck
<1>4. ASSUME NEW q \in Request \ {r}, req'[q].at = "await"
      PROVE  req'[q].h \in Request /\ req'[req'[q].h].at \notin {"new", "join", "await"}
  BY <1>1, <1>2, <1>3, <1>4, NeverBack
<1>5. ASSUME req'[r].at = "await"
      PROVE  req'[r].h \in Request /\ req'[req'[r].h].at \notin {"new", "join", "await"}
  <2>1. req[r].at = "join"
    BY <1>2, <1>5 DEF Arrow, Ended
  <2>2. Discover(r)
    <3>1. ~Enter(r)
      BY <2>1, EnterWaits DEF Waiting
    <3> QED
      BY <2>1, <3>1 DEF Step, Route, Lookup, List, Check, Sandbox, Find, Awaited, CreateList, CreateWrite, Drop,
            Unlink, RemoveDirectory, Opened, Prompted, ChildEnds, OneShot
  <2>3. P(r) \in Profile /\ tools \in [Profile -> ToolsRec]
    BY <2>1, ProfileType DEF ApiInv, TypeOK, ToolsRec
  <2>4. ~Go(r, "route")
    BY <1>5, GoMoves DEF Moves, At, ApiInv
  <2>5. tools[P(r)].entry # NoRequest /\ req' = [req EXCEPT ![r].at = "await", ![r].h = tools[P(r)].entry]
    BY <2>2, <2>4 DEF Discover
  <2>6. tools[P(r)].entry \in Request /\ req'[r].h = tools[P(r)].entry
    BY <2>3, <2>5, RequestType DEF ToolsRec, ApiInv, Req
  <2>7. req[tools[P(r)].entry].at \in {"route", "child", "oneshot"} \cup Ended
    BY <2>3, <2>5, <2>6 DEF ApiInv, DiscoveryOnRecord
  <2> QED BY <1>1, <2>6, <2>7, NeverBack DEF Ended
<1> QED
  BY <1>4, <1>5 DEF AwaitsOther

LEMMA StepKeeps ==
  ASSUME ApiInv, NEW r \in Request, Step(r)
  PROVE  ApiInv'
<1>1. Effect(r)
  BY StepEffect
<1>2. UNCHANGED <<loaded, overlap, switched>>
  BY <1>1 DEF Effect
<1>3. TypeOK' /\ IsFiniteSet(switched')
  BY <1>1, <1>2, KeepsAsked, KeepsChain, KeepsEnvironment, KeepsFiles, KeepsProfiles, StepCache
     DEF ApiInv, TypeOK, Req, HandleRec, FileRec, ProfileRec, ToolsRec
<1>4. Asked' /\ HandlesAreOpen' /\ PromptsAreAlone' /\ ChildrenAreAlone' /\ HostIsKept' /\ DiscoveryOnRecord' /\ AwaitsOther'
  BY <1>1, KeepsAsked, KeepsHandles, KeepsPrompts, KeepsChildren, KeepsEnvironment, KeepsDiscovery, KeepsAwaits
<1>5. NobodyIsStuck'
  BY <1>1, KeepsChain, KeepsAwaits DEF NobodyIsStuck, Waiting
<1> QED
  BY <1>3, <1>4, <1>5 DEF ApiInv
-----------------------------------------------------------------------------
LEMMA BeginKeeps ==
  ASSUME ApiInv, NEW r \in Request, NEW op \in Ops, NEW s \in Session, Begin(r, op, s)
  PROVE  ApiInv'
<1>1. PICK to \in {"join", "exists", "drop", "route"} :
        /\ req' = [req EXCEPT ![r].op = op, ![r].s = s, ![r].at = to]
        /\ to = "join" => op = "discover"
  BY DEF Begin
<1>2. /\ req[r].at = "new" /\ overlap' \in SUBSET Session
      /\ UNCHANGED <<profile, file, handle, cache, sandboxBusy, mutex, holder, env, old, tools, loaded, switched>>
  BY DEF Begin, ApiInv, TypeOK
<1>3. /\ req' \in [Request -> Req]
      /\ req'[r].op = op /\ req'[r].s = s /\ req'[r].at = to /\ req'[r].h = req[r].h
      /\ \A q \in Request \ {r} : req'[q] = req[q]
  BY <1>1, RequestType DEF ApiInv, Req, At
<1>4. TypeOK' /\ IsFiniteSet(switched')
  BY <1>2, <1>3 DEF ApiInv, TypeOK, Req
<1>5. Asked'
  BY <1>1, <1>3 DEF ApiInv, Asked
<1>6. HandlesAreOpen'
  <2>1. \A q \in Request : req[q].at \in Past => q # r /\ req'[q].at \in Past
    BY <1>2, <1>3 DEF Past, Ended
  <2>2. \A q \in Request : req'[q].at \in {"check", "prompting"} => q # r /\ req'[q] = req[q]
    BY <1>1, <1>3
  <2>3. \A t \in Session : cache[t] # NoHandle => cache[t] \in Request
    BY DEF ApiInv, TypeOK
  <2> QED BY <1>2, <2>1, <2>2, <2>3 DEF ApiInv, HandlesAreOpen
<1>7. PromptsAreAlone'
  BY <1>1, <1>2, <1>3 DEF ApiInv, PromptsAreAlone
<1>8. ChildrenAreAlone'
  <2>1. \A q \in Request : req'[q].at \in {"sandbox", "find", "child"} => q # r /\ req'[q] = req[q]
    BY <1>1, <1>3
  <2> QED BY <1>2, <2>1 DEF ApiInv, ChildrenAreAlone, InChild
<1>9. HostIsKept'
  <2>1. holder # NoRequest => holder \in Request \ {r}
    BY <1>2, HolderWaits DEF Waiting
  <2> QED BY <1>2, <1>3, <2>1 DEF ApiInv, HostIsKept, EnvironmentRestored, P, WithHandoff
<1>10. DiscoveryOnRecord'
  <2>1. \A p \in Profile : tools[p].entry # NoRequest => tools[p].entry \in Request \ {r}
    BY <1>2 DEF ApiInv, TypeOK, DiscoveryOnRecord, Ended
  <2> QED BY <1>2, <1>3, <2>1 DEF ApiInv, DiscoveryOnRecord, P
<1>11. AwaitsOther' /\ \A q \in Request : req'[q].at = "await" => req'[req'[q].h].at \notin {"new", "join", "await"}
  <2>1. \A q \in Request : req'[q].at = "await" => q # r /\ req'[q] = req[q]
    BY <1>1, <1>3
  <2>2. \A q \in Request : req[q].at = "await" => req[q].h \in Request \ {r} /\ req[req[q].h].at \notin {"new", "join", "await"}
    BY <1>2 DEF ApiInv, AwaitsOther, NobodyIsStuck
  <2> QED BY <1>3, <2>1, <2>2 DEF AwaitsOther
<1>12. {q \in Request : req'[q].at \in Waiting} = {q \in Request : req[q].at \in Waiting}
  BY <1>1, <1>2, <1>3 DEF Waiting
<1>13. NobodyIsStuck'
  BY <1>2, <1>11, <1>12 DEF ApiInv, NobodyIsStuck, Waiting
<1> QED
  BY <1>4, <1>5, <1>6, <1>7, <1>8, <1>9, <1>10, <1>11, <1>13 DEF ApiInv

LEMMA ChangesKeep ==
  ASSUME ApiInv, Invalidate \/ \E p \in Profile : Configure(p)
  PROVE  ApiInv'
<1>1. /\ UNCHANGED <<file, handle, cache, sandboxBusy, mutex, holder, env, old, req, overlap>>
      /\ loaded \in 0..MaxChanges /\ MaxChanges \in Nat /\ Cardinality(switched) \in Nat
  BY ApiAssumption, FS_CardinalityType DEF Invalidate, Configure, ApiInv, TypeOK
<1>2. CASE Invalidate
  <2>1. loaded' \in 0..MaxChanges
    BY <1>1, <1>2 DEF Invalidate
  <2>2. profile' = profile /\ switched' = switched
    BY <1>2 DEF Invalidate
  <2>3. \A p \in Profile : tools'[p] = [entry |-> NoRequest, known |-> {}]
    BY <1>2 DEF Invalidate, Forgotten, ApiInv, TypeOK
  <2>4. tools' \in [Profile -> ToolsRec]
    BY <1>2, <2>3 DEF Invalidate, ToolsRec
  <2>5. TypeOK' /\ IsFiniteSet(switched')
    BY <1>1, <2>1, <2>2, <2>4 DEF ApiInv, TypeOK, ToolsRec
  <2>6. DiscoveryOnRecord'
    BY <2>3 DEF DiscoveryOnRecord
  <2> QED
    BY <1>1, <2>2, <2>5, <2>6 DEF ApiInv, Asked, HandlesAreOpen, PromptsAreAlone, ChildrenAreAlone, InChild,
       HostIsKept, EnvironmentRestored, P, WithHandoff, AwaitsOther, NobodyIsStuck
<1>3. ASSUME NEW p \in Profile, Configure(p) PROVE ApiInv'
  <2>1. loaded' = loaded /\ tools' = tools /\ switched' = switched \cup {p}
    BY <1>3 DEF Configure
  <2>2. profile' \in [Profile -> ProfileRec]
    <3>1. profile \in [Profile -> ProfileRec]
      BY DEF ApiInv, TypeOK, ProfileRec
    <3>2. \/ profile' = [profile EXCEPT ![p].sandbox = ~profile[p].sandbox]
          \/ profile' = [profile EXCEPT ![p].exists = TRUE]
      BY <1>3 DEF Configure
    <3> QED BY <3>1, <3>2 DEF ProfileRec
  <2>3. IsFiniteSet(switched') /\ switched' \in SUBSET Profile
    BY <2>1, FS_AddElement DEF ApiInv, TypeOK
  <2>4. TypeOK'
    BY <1>1, <2>1, <2>2, <2>3 DEF ApiInv, TypeOK, ProfileRec
  <2> QED
    BY <1>1, <2>1, <2>3, <2>4 DEF ApiInv, Asked, HandlesAreOpen, PromptsAreAlone, ChildrenAreAlone, InChild,
       HostIsKept, EnvironmentRestored, P, WithHandoff, AwaitsOther, NobodyIsStuck, DiscoveryOnRecord
<1> QED
  BY <1>2, <1>3

LEMMA InitApi == Init => ApiInv
<1> SUFFICES ASSUME Init PROVE ApiInv
  OBVIOUS
<1> USE DEF Init
<1>1. PICK s \in Session : file = [f \in File |-> IF f = First THEN [session |-> s, turns |-> <<0>>]
                                               ELSE [session |-> NoRequest, turns |-> <<>>]]
  OBVIOUS
<1>2. <<0>> \in Seq(Nat) /\ <<>> \in Seq(Nat) /\ mutex \in Seq(Request)
  BY EmptySeq
<1>3. file \in [File -> FileRec]
  BY <1>1, <1>2 DEF FileRec
<1>4. /\ profile \in [Profile -> ProfileRec]
      /\ handle \in [Request -> HandleRec] /\ tools \in [Profile -> ToolsRec] /\ MaxChanges \in Nat
  BY ApiAssumption DEF ProfileRec, HandleRec, ToolsRec, File
<1>5. req \in [Request -> Req] /\ env \in Environments /\ old \in Environments /\ \A r \in Request : req[r].at = "new"
  BY <1>4, HostEnvType DEF Req, Ops, At, File
<1>6. TypeOK /\ IsFiniteSet(switched)
  BY <1>2, <1>3, <1>4, <1>5, FS_EmptySet DEF TypeOK, FileRec, ProfileRec, HandleRec, ToolsRec, Req
<1>7. /\ \A any \in Session : cache[any] = NoHandle
      /\ \A p \in Profile : tools[p].entry = NoRequest
  OBVIOUS
<1>8. Asked /\ HandlesAreOpen /\ PromptsAreAlone /\ ChildrenAreAlone /\ HostIsKept /\ DiscoveryOnRecord /\ AwaitsOther
  BY <1>5, <1>7 DEF Asked, HandlesAreOpen, PromptsAreAlone, ChildrenAreAlone, InChild, HostIsKept, EnvironmentRestored,
     DiscoveryOnRecord, AwaitsOther
<1>9. NobodyIsStuck
  <2>1. DOMAIN mutex = {}
    OBVIOUS
  <2>2. Range(mutex) = {} /\ IsInjective(mutex)
    BY <2>1 DEF Range, IsInjective
  <2> QED BY <1>5, <2>2 DEF NobodyIsStuck
<1> QED
  BY <1>6, <1>8, <1>9 DEF ApiInv

-----------------------------------------------------------------------------
(* The server's invariant holds in every state, for any requests, profiles *)
(* and sessions: environment, cache, busy flags and discoveries in step.   *)
THEOREM ApiInvariant == Spec => []ApiInv
<1>1. Init => ApiInv
  BY InitApi
<1>2. ApiInv /\ [Next]_vars => ApiInv'
  <2> SUFFICES ASSUME ApiInv, [Next]_vars PROVE ApiInv'
    OBVIOUS
  <2>1. CASE UNCHANGED vars
    <3>1. TypeOK' /\ IsFiniteSet(switched')
      BY <2>1 DEF vars, ApiInv, TypeOK
    <3>2. HandlesAreOpen' /\ PromptsAreAlone' /\ ChildrenAreAlone' /\ NobodyIsStuck'
      BY <2>1 DEF vars, ApiInv, HandlesAreOpen, PromptsAreAlone, ChildrenAreAlone, InChild, NobodyIsStuck
    <3>3. Asked' /\ HostIsKept' /\ DiscoveryOnRecord' /\ AwaitsOther'
      BY <2>1 DEF vars, ApiInv, Asked, HostIsKept, EnvironmentRestored, P, WithHandoff, AwaitsOther, DiscoveryOnRecord
    <3> QED BY <3>1, <3>2, <3>3 DEF ApiInv
  <2> QED
    BY <2>1, BeginKeeps, StepKeeps, ChangesKeep DEF Next
<1> QED
  BY <1>1, <1>2, PTL DEF Spec

(* Nobody is left waiting for the environment or for a discovery, and no   *)
(* caller is told of a finished discovery whose tools are not on record,   *)
(* whatever the requests ask for (Inv of the run api_sessions).            *)
THEOREM SessionsAreServed == Spec => []Inv
<1>1. ApiInv => Inv
  BY DEF ApiInv, Inv, DiscoveredToolsAreKept, DiscoveryOnRecord
<1> QED
  BY <1>1, ApiInvariant, PTL

(* The host's environment is back whenever no operation runs in it, for    *)
(* any profiles and any variables of theirs: a holder restores what it     *)
(* found, and it found the host's.                                         *)
THEOREM HostEnvironmentReturns == Spec => []EnvironmentRestored
<1>1. ApiInv => EnvironmentRestored
  BY DEF ApiInv, HostIsKept
<1> QED
  BY <1>1, ApiInvariant, PTL

(* "session is busy": the flag of a handle and the set of sandboxed        *)
(* sessions each exclude a second prompt, for any number of requests.      *)
THEOREM PromptsDoNotOverlap == Spec => []HandleServesOne
<1>1. ApiInv => HandleServesOne
  BY DEF ApiInv, HandleServesOne, PromptsAreAlone, ChildrenAreAlone, InChild
<1> QED
  BY <1>1, ApiInvariant, PTL


-----------------------------------------------------------------------------
(* Turns.  A file bears the name of the request that wrote it, or is First *)
(* and belongs to the session s0 of the start: whatever a request reads,   *)
(* keeps open or hands to a child is a file of its own session.            *)
Home(f, s0) == IF f = First THEN s0 ELSE req[f].s
Homed(s0) ==
  /\ \A f \in File : /\ file[f].session # NoRequest => file[f].session = Home(f, s0)
                     /\ file[f].session = NoRequest => file[f].turns = <<>>
  /\ \A h \in Request : handle[h].session # NoRequest =>
       handle[h].session = req[h].s /\ Home(handle[h].file, s0) = req[h].s
  /\ \A r \in Request : (InChild(r) /\ req[r].at = "child") => Home(req[r].f, s0) = req[r].s
  /\ \A s \in Session : cache[s] # NoHandle => handle[cache[s]].session = s
  /\ \A r \in Request : /\ req[r].at = "new" => req[r].s = NoRequest
                        /\ req[r].at = "rmdir" => req[r].op = "deleteProfile"
                        /\ req[r].at = "opening" => handle[r].session = req[r].s
                        /\ req[r].at \in {"check", "prompting"} => handle[req[r].h].session = req[r].s

(* While its sandbox is not switched, a profile's sessions are prompted    *)
(* either in this process or in children, never both.                      *)
InProcess == {"lookup", "list", "opening", "check", "prompting"}
Steady(s) ==
  ProfileOf[s] \notin switched =>
    IF profile[ProfileOf[s]].sandbox
    THEN cache[s] = NoHandle /\ \A r \in Request : req[r].s = s => req[r].at \notin InProcess
    ELSE \A r \in Request : req[r].s = s => ~InChild(r) /\ req[r].at # "sandbox"

(* A handle knows the end of its file, which it writes anew if it is gone. *)
Fits(h, s) ==
  LET f == handle[h].file
  IN  handle[h].session = s /\ handle[h].leaf = IF file[f].session = s THEN Len(file[f].turns) ELSE 0

(* A session whose requests come one after the other has one at work, and  *)
(* what that one holds agrees with the files.                              *)
Extended(f) == \A i \in DOMAIN file[f].turns : file[f].turns[i] = i - 1
Held(r, s) ==
  /\ req[r].at = "opening" => Fits(r, s)
  /\ req[r].at \in {"check", "prompting"} => req[r].h = cache[s]
  /\ (InChild(r) /\ req[r].at = "child") => file[req[r].f].session = s
  /\ req[r].at = "write" => FilesOf(s) = {}
InTurn(s) ==
  /\ \A r, q \in Request : Works(r, s) /\ Works(q, s) => r = q
  /\ \A f \in FilesOf(s) : Extended(f)
  /\ cache[s] # NoHandle => Fits(cache[s], s)
  /\ \A r \in Request : req[r].s = s => Held(r, s)
  /\ \A r \in Request : (req[r].at = "rmdir" /\ P(r) = ProfileOf[s]) => cache[s] = NoHandle
Untouched(s) == s \notin overlap /\ ProfileOf[s] \notin switched

TurnsInv(s0) == Homed(s0) /\ \A s \in Session : Steady(s) /\ (Untouched(s) => InTurn(s))


(* A step of a request changes what it holds; the others keep theirs.      *)
SameHandle(h) ==
  handle'[h].session = handle[h].session /\ handle'[h].file = handle[h].file /\ handle'[h].leaf = handle[h].leaf

LEMMA StepWorks ==
  ASSUME ApiInv, NEW r \in Request, Effect(r)
  PROVE  /\ req[r].s \in Session /\ Works(r, req[r].s) /\ overlap' = overlap /\ switched' = switched
         /\ req'[r].s = req[r].s /\ req'[r].op = req[r].op /\ \A q \in Request \ {r} : req'[q] = req[q]
         /\ \A q \in Request : req'[q].s = req[q].s /\ P(q)' = P(q)
         /\ \A q \in Request, t \in Session : Works(q, t)' => Works(q, t)
         /\ \A f \in File, s0 \in Session : Home(f, s0)' = Home(f, s0)
<1>1. req[r].at \notin Ended \cup {"new"} /\ overlap' = overlap /\ switched' = switched
  BY DEF Effect, Arrow, Ended
<1>2. req'[r].s = req[r].s /\ req'[r].op = req[r].op /\ \A q \in Request \ {r} : req'[q] = req[q]
  BY DEF Effect, Moves
<1>3. req[r].s \in Session
  BY <1>1 DEF ApiInv, Asked
<1>4. \A q \in Request : req'[q].s = req[q].s /\ req'[q].op = req[q].op /\ P(q)' = P(q)
  BY <1>2 DEF P
<1>5. ASSUME NEW q \in Request, NEW t \in Session, Works(q, t)' PROVE Works(q, t)
  BY <1>1, <1>2, <1>4, <1>5 DEF Works, Active
<1>6. \A f \in File, s0 \in Session : Home(f, s0)' = Home(f, s0)
  BY <1>4 DEF Home, File
<1> QED BY <1>1, <1>2, <1>3, <1>4, <1>5, <1>6 DEF Works, Active, P

LEMMA FitsStays ==
  ASSUME NEW h, NEW s, Fits(h, s), SameHandle(h), file'[handle[h].file] = file[handle[h].file]
  PROVE  Fits(h, s)'
BY DEF Fits, SameHandle

(* The request at work on an untouched session is alone.                   *)
LEMMA AloneAtWork ==
  ASSUME ApiInv, NEW s0 \in Session, TurnsInv(s0), NEW r \in Request, Effect(r), NEW s \in Session, Works(r, s), Untouched(s),
         NEW q \in Request \ {r}
  PROVE  /\ req[q].s = s => req'[q].at \in Ended
         /\ ~(req'[q].at = "rmdir" /\ P(q)' = ProfileOf[s])
<1>1. req'[q] = req[q] /\ P(q)' = P(q)
  BY StepWorks
<1>2. ~Works(q, s)
  BY <1>1 DEF TurnsInv, InTurn
<1>3. req[q].at = "new" => req[q].s = NoRequest
  BY DEF TurnsInv, Homed
<1>4. NoRequest \notin Session
  BY ApiAssumption
<1>5. ASSUME req[q].s = s PROVE req'[q].at \in Ended
  BY <1>1, <1>2, <1>3, <1>4, <1>5 DEF Works, Active, P
<1>6. ASSUME req'[q].at = "rmdir", P(q)' = ProfileOf[s] PROVE FALSE
  <2>1. req[q].op = "deleteProfile" /\ req[q].at = "rmdir"
    BY <1>1, <1>6 DEF TurnsInv, Homed
  <2> QED BY <1>1, <1>2, <1>6, <2>1 DEF Works, Active, Ended
<1> QED BY <1>5, <1>6

LEMMA OwnInTurn ==
  ASSUME ApiInv, NEW s0 \in Session, TurnsInv(s0), NEW r \in Request, Effect(r), NEW s \in Session, Works(r, s), Untouched(s),
         \A f \in File : file'[f].session = s => Extended(f)', cache'[s] # NoHandle => Fits(cache[s], s)',
         Held(r, s)', req'[r].at = "rmdir" => cache'[s] = NoHandle
  PROVE  InTurn(s)'
<1>2. (\A q, p \in Request : Works(q, s) /\ Works(p, s) => q = p)'
  BY StepWorks DEF TurnsInv, InTurn
<1>3. (\A f \in FilesOf(s) : Extended(f))'
  BY DEF FilesOf
<1>4. ASSUME NEW q \in Request, req'[q].s = s PROVE Held(q, s)'
  <2>1. CASE q = r
    BY <2>1
  <2>2. CASE q # r
    <3>1. req'[q].at \in Ended
      BY <1>4, <2>2, StepWorks, AloneAtWork
    <3> QED BY <3>1 DEF Held, Ended
  <2> QED BY <2>1, <2>2
<1>5. ASSUME NEW q \in Request, req'[q].at = "rmdir", P(q)' = ProfileOf[s] PROVE cache'[s] = NoHandle
  BY <1>5, AloneAtWork
<1>6. (\A q \in Request : (req[q].at = "rmdir" /\ P(q) = ProfileOf[s]) => cache[s] = NoHandle)'
  BY <1>5
<1> QED BY <1>2, <1>3, <1>4, <1>6 DEF InTurn

(* A step that does not touch a session's files, handles and cache.        *)
LEMMA OtherInTurn ==
  ASSUME ApiInv, NEW s0 \in Session, TurnsInv(s0), Homed(s0)', NEW r \in Request, Effect(r), NEW s \in Session, Untouched(s),
         \A f \in File : file'[f] = file[f] \/ Home(f, s0) # s, cache'[s] = cache[s] \/ (cache'[s] = NoHandle /\ Works(r, s)),
         \A h \in Request : handle[h].session = s => SameHandle(h),
         req[r].s = s => cache'[s] = cache[s] /\ Held(r, s)',
         (req'[r].at = "rmdir" /\ P(r) = ProfileOf[s]) => cache'[s] = NoHandle
  PROVE  InTurn(s)'
<1>1. /\ \A q \in Request \ {r} : req'[q] = req[q]
      /\ \A q \in Request : req'[q].s = req[q].s /\ P(q)' = P(q)
      /\ \A q \in Request, t \in Session : Works(q, t)' => Works(q, t)
      /\ \A f \in File : Home(f, s0)' = Home(f, s0)
  BY StepWorks
<1>2. InTurn(s) /\ Homed(s0) /\ NoRequest \notin Session
  BY ApiAssumption DEF TurnsInv
<1>3. ASSUME NEW f \in File, file'[f].session = s \/ file[f].session = s PROVE file'[f] = file[f]
  BY <1>1, <1>2, <1>3 DEF Homed
<1>4. FilesOf(s)' = FilesOf(s)
  BY <1>3 DEF FilesOf
<1>5. (\A f \in FilesOf(s) : Extended(f))'
  BY <1>2, <1>3, <1>4 DEF InTurn, FilesOf, Extended
<1>6. ASSUME NEW h \in Request, Fits(h, s) PROVE Fits(h, s)'
  <2>1. handle[h].session = s /\ handle[h].file \in File
    BY <1>6 DEF Fits, ApiInv, TypeOK
  <2>2. SameHandle(h) /\ Home(handle[h].file, s0) = s
    BY <1>2, <2>1 DEF Homed
  <2> QED BY <1>6, <2>1, <2>2, FitsStays
<1>7. cache'[s] # NoHandle => Fits(cache[s], s)'
  <2>1. ASSUME cache'[s] # NoHandle PROVE Fits(cache[s], s)'
    <3>1. PICK h : h = cache[s] /\ h = cache'[s] /\ h # NoHandle
      BY <2>1
    <3>2. h \in Request /\ Fits(h, s)
      BY <1>2, <3>1 DEF InTurn, ApiInv, TypeOK
    <3>3. Fits(h, s)'
      BY <1>6, <3>2
    <3> QED BY <3>1, <3>3 DEF Fits
  <2> QED BY <2>1
<1>8. ASSUME NEW q \in Request \ {r}, req'[q].s = s PROVE Held(q, s)'
  <2>1. req'[q] = req[q] /\ Held(q, s)
    BY <1>1, <1>2, <1>8 DEF InTurn
  <2>2. (req[q].at = "opening" => Fits(q, s))'
    BY <1>6, <2>1 DEF Held
  <2>3. (req[q].at \in {"check", "prompting"} => req[q].h = cache[s])'
    <3>1. ASSUME req[q].at \in {"check", "prompting"} PROVE req[q].h = cache[s] /\ cache'[s] = cache[s]
      <4>1. Works(q, s)
        BY <1>8, <2>1, <3>1 DEF Works, Active, Ended, P
      <4>2. ~Works(r, s)
        BY <1>2, <4>1 DEF InTurn
      <4> QED BY <2>1, <3>1, <4>2 DEF Held
    <3> QED BY <2>1, <3>1
  <2>4. ((InChild(q) /\ req[q].at = "child") => file[req[q].f].session = s)'
    <3>1. req[q].f \in File
      BY RequestType DEF ApiInv
    <3> QED BY <1>3, <2>1, <3>1 DEF Held, InChild
  <2>5. (req[q].at = "write" => FilesOf(s) = {})'
    BY <1>4, <2>1 DEF Held
  <2> QED BY <2>2, <2>3, <2>4, <2>5 DEF Held
<1>9. (\A q, p \in Request : Works(q, s) /\ Works(p, s) => q = p)'
  BY <1>1, <1>2 DEF InTurn
<1>10. ASSUME NEW q \in Request, req'[q].at = "rmdir", P(q)' = ProfileOf[s] PROVE cache'[s] = NoHandle
  BY <1>1, <1>2, <1>10 DEF InTurn
<1>11. (\A q \in Request : (req[q].at = "rmdir" /\ P(q) = ProfileOf[s]) => cache[s] = NoHandle)'
  BY <1>10
<1> QED BY <1>1, <1>5, <1>7, <1>8, <1>9, <1>11 DEF InTurn


(* The names of files and handles, and the sandbox, after a step.          *)
LEMMA HomedThen ==
  ASSUME ApiInv, NEW s0 \in Session, Homed(s0), NEW r \in Request, Effect(r), NEW s, s = req[r].s,
         \A f \in File : \/ file'[f] = file[f]
                         \/ file'[f].session = NoRequest /\ file'[f].turns = <<>>
                         \/ file'[f].session = s /\ Home(f, s0) = s,
         \A h \in Request : \/ handle'[h].session = handle[h].session /\ handle'[h].file = handle[h].file
                            \/ h = r /\ handle'[h].session = s /\ handle'[h].file \in File /\ Home(handle'[h].file, s0) = s,
         (InChild(r)' /\ req'[r].at = "child") => Home(req'[r].f, s0) = s,
         \A t \in Session : cache'[t] \in {NoHandle, cache[t]} \/ (cache'[t] = r /\ handle'[r].session = t),
         req'[r].at = "rmdir" => req'[r].op = "deleteProfile",
         req'[r].at = "opening" => handle'[r].session = s,
         req'[r].at \in {"check", "prompting"} => handle'[req'[r].h].session = s
  PROVE  Homed(s0)'
<1>1. /\ s \in Session /\ \A q \in Request \ {r} : req'[q] = req[q]
      /\ \A q \in Request : req'[q].s = req[q].s
      /\ \A f \in File : Home(f, s0)' = Home(f, s0)
      /\ req'[r].at # "new" /\ NoRequest \notin Session
  <2>1. req'[r].at # "new"
    BY DEF Effect, Arrow
  <2> QED BY <2>1, StepWorks, ApiAssumption
<1>2. (\A f \in File : /\ file[f].session # NoRequest => file[f].session = Home(f, s0)
                       /\ file[f].session = NoRequest => file[f].turns = <<>>)'
  BY <1>1 DEF Homed
<1>3. (\A h \in Request : handle[h].session # NoRequest =>
         handle[h].session = req[h].s /\ Home(handle[h].file, s0) = req[h].s)'
  <2>1. \A h \in Request : handle[h].file \in File
    BY DEF ApiInv, TypeOK
  <2>2. ASSUME NEW h \in Request, handle'[h].session # NoRequest
        PROVE  handle'[h].session = req'[h].s /\ Home(handle[h].file, s0)' = req'[h].s
    <3>1. CASE handle'[h].session = handle[h].session /\ handle'[h].file = handle[h].file
      <4>1. handle[h].session = req[h].s /\ Home(handle[h].file, s0) = req[h].s
        BY <2>2, <3>1 DEF Homed
      <4> QED BY <1>1, <2>1, <3>1, <4>1 DEF Home, File
    <3>2. CASE h = r /\ handle'[h].session = s /\ handle'[h].file \in File /\ Home(handle'[h].file, s0) = s
      BY <1>1, <3>2 DEF Home, File
    <3> QED BY <3>1, <3>2
  <2> QED BY <2>2
<1>4. (\A q \in Request : (InChild(q) /\ req[q].at = "child") => Home(req[q].f, s0) = req[q].s)'
  <2>1. \A q \in Request : req[q].f \in File
    BY RequestType DEF ApiInv
  <2>2. \A q \in Request : req'[q].f \in File
    BY <2>1, RequestType DEF Effect, Moves, Req
  <2>3. ASSUME NEW q \in Request, InChild(q)', req'[q].at = "child" PROVE Home(req'[q].f, s0) = req[q].s
    BY <1>1, <2>3 DEF Homed, InChild
  <2> QED BY <1>1, <2>2, <2>3 DEF Home, File
<1>5. (\A t \in Session : cache[t] # NoHandle => handle[cache[t]].session = t)'
  <2>1. ASSUME NEW t \in Session, cache'[t] # NoHandle, cache'[t] = cache[t] PROVE handle'[cache'[t]].session = t
    <3>1. cache[t] \in Request /\ handle[cache[t]].session = t
      BY <2>1 DEF Homed, ApiInv, TypeOK
    <3>2. handle[cache[t]].session = req[cache[t]].s
      BY <1>1, <3>1 DEF Homed
    <3> QED BY <1>1, <2>1, <3>1, <3>2
  <2> QED BY <2>1
<1>6. (\A q \in Request : /\ req[q].at = "new" => req[q].s = NoRequest
                          /\ req[q].at = "rmdir" => req[q].op = "deleteProfile"
                          /\ req[q].at = "opening" => handle[q].session = req[q].s
                          /\ req[q].at \in {"check", "prompting"} => handle[req[q].h].session = req[q].s)'
  <2>1. ASSUME NEW q \in Request \ {r}, req'[q].at = "opening" PROVE handle'[q].session = req'[q].s
    BY <1>1, <2>1 DEF Homed
  <2>2. ASSUME NEW q \in Request
        PROVE  /\ req'[q].at = "new" => req'[q].s = NoRequest
               /\ req'[q].at = "rmdir" => req'[q].op = "deleteProfile"
    BY <1>1 DEF Homed
  <2>3. ASSUME NEW q \in Request \ {r}, req'[q].at \in {"check", "prompting"} PROVE handle'[req'[q].h].session = req'[q].s
    <3>1. req'[q] = req[q] /\ req[q].h \in Request /\ handle[req[q].h].session = req[q].s /\ req[q].s \in Session
      BY <1>1, <2>3 DEF Homed, ApiInv, HandlesAreOpen, Asked
    <3>2. handle[req[q].h].session = req[req[q].h].s
      BY <1>1, <3>1 DEF Homed
    <3> QED BY <1>1, <3>1, <3>2
  <2> QED BY <1>1, <2>1, <2>2, <2>3
<1> QED BY <1>2, <1>3, <1>4, <1>5, <1>6 DEF Homed

LEMMA SteadyThen ==
  ASSUME ApiInv, NEW s0 \in Session, TurnsInv(s0), NEW r \in Request, Step(r), NEW s \in Session,
         profile'[ProfileOf[s]].sandbox = profile[ProfileOf[s]].sandbox,
         cache'[s] \in {NoHandle, cache[s]} \/ (req[r].at = "opening" /\ req[r].s = s)
  PROVE  Steady(s)'
<1>1. Effect(r)
  BY StepEffect
<1>2. /\ switched' = switched /\ \A q \in Request \ {r} : req'[q] = req[q]
      /\ \A q \in Request : req'[q].s = req[q].s
      /\ req'[r].op = req[r].op /\ Arrow(req[r].at, req'[r].at)
  BY <1>1, StepWorks DEF Effect
<1>3. ASSUME req[r].s = s, req[r].at = "route"
      PROVE  /\ req'[r].at \in InProcess => ~profile[ProfileOf[s]].sandbox
             /\ InChild(r)' \/ req'[r].at = "sandbox" => profile[ProfileOf[s]].sandbox
  <2>1. Route(r)
    <3>1. ~Enter(r)
      BY <1>3, EnterWaits DEF Waiting
    <3> QED
      BY <1>3, <3>1 DEF Step, Discover, Lookup, List, Check, Sandbox, Find, Awaited, CreateList, CreateWrite, Drop,
            Unlink, RemoveDirectory, Opened, Prompted, ChildEnds, OneShot
  <2>2. ASSUME NEW to \in At, Go(r, to) \/ End(r, to) PROVE req'[r].at = to
    BY <2>2, GoMoves, EndMoves DEF Moves, ApiInv
  <2>3. {"failed", "child", "oneshot", "sandbox", "lookup"} \subseteq At
    BY DEF At, Ended
  <2>4. CASE ~profile[P(r)].exists
    <3>1. req'[r].at = "failed"
      BY <2>1, <2>2, <2>3, <2>4 DEF Route
    <3> QED BY <3>1 DEF InProcess, InChild
  <2>5. CASE profile[P(r)].exists /\ req[r].op \in {"oneshot", "discover"}
    <3>1. req'[r].at \in {"child", "oneshot"}
      <4>1. CASE profile[P(r)].sandbox
        <5>1. req' = [req EXCEPT ![r].at = "child", ![r].child = Environment(P(r), env), ![r].gen = loaded]
          BY <2>1, <2>5, <4>1 DEF Route
        <5> QED BY <5>1, RequestType DEF ApiInv, Req
      <4>2. CASE ~profile[P(r)].sandbox
        BY <2>1, <2>2, <2>3, <2>5, <4>2 DEF Route
      <4> QED BY <4>1, <4>2
    <3> QED BY <1>2, <2>5, <3>1 DEF InProcess, InChild
  <2>6. CASE profile[P(r)].exists /\ req[r].op \notin {"oneshot", "discover"}
    <3>1. req'[r].at = IF profile[P(r)].sandbox THEN "sandbox" ELSE "lookup"
      BY <2>1, <2>2, <2>3, <2>6 DEF Route
    <3> QED BY <1>3, <3>1 DEF InProcess, InChild, P
  <2> QED BY <2>4, <2>5, <2>6
<1>4. ASSUME req[r].s = s
      PROVE  /\ req'[r].at \in InProcess => req[r].at \in InProcess \/ ~profile[ProfileOf[s]].sandbox
             /\ InChild(r)' \/ req'[r].at = "sandbox" =>
                  InChild(r) \/ req[r].at = "sandbox" \/ profile[ProfileOf[s]].sandbox
  <2>1. CASE req[r].at = "route"
    BY <1>3, <1>4, <2>1
  <2>2. CASE req[r].at # "route"
    <3>1. req'[r].at \in InProcess => req[r].at \in InProcess
      BY <1>2, <2>2 DEF Arrow, InProcess
    <3>2. req'[r].at \in {"find", "child"} => req[r].at \in {"sandbox", "find"}
      BY <1>2, <2>2 DEF Arrow
    <3>3. req'[r].at # "sandbox"
      BY <1>2, <2>2 DEF Arrow
    <3> QED BY <1>2, <3>1, <3>2, <3>3 DEF InChild
  <2> QED BY <2>1, <2>2
<1>5. Steady(s)
  BY DEF TurnsInv
<1>6. CASE profile[ProfileOf[s]].sandbox /\ ProfileOf[s] \notin switched
  <2>1. cache'[s] = NoHandle
    BY <1>5, <1>6 DEF Steady, InProcess
  <2>2. \A q \in Request : req'[q].s = s => req'[q].at \notin InProcess
    BY <1>2, <1>4, <1>5, <1>6 DEF Steady
  <2> QED BY <1>2, <1>6, <2>1, <2>2 DEF Steady
<1>7. CASE ~profile[ProfileOf[s]].sandbox /\ ProfileOf[s] \notin switched
  <2>1. ASSUME NEW q \in Request, req'[q].s = s PROVE ~InChild(q)' /\ req'[q].at # "sandbox"
    <3>1. CASE q = r
      BY <1>2, <1>4, <1>5, <1>7, <2>1, <3>1 DEF Steady
    <3>2. CASE q # r
      BY <1>2, <1>5, <1>7, <2>1, <3>2 DEF Steady, InChild
    <3> QED BY <3>1, <3>2
  <2> QED BY <1>2, <1>7, <2>1 DEF Steady
<1> QED BY <1>2, <1>6, <1>7 DEF Steady


(* Steps that change neither files nor handles, only what the request      *)
(* holds: all of them but those of the lemmas that follow.                 *)
LEMMA QuietTurns ==
  ASSUME ApiInv, NEW s0 \in Session, TurnsInv(s0), NEW r \in Request, Step(r), UNCHANGED <<file, cache, profile>>,
         \A h \in Request : SameHandle(h), NEW s, s = req[r].s, Untouched(s) => Held(r, s)',
         (InChild(r)' /\ req'[r].at = "child") => Home(req'[r].f, s0) = s,
         req'[r].at # "rmdir", req'[r].at = "opening" => req[r].at = "opening",
         req'[r].at \in {"check", "prompting"} => handle'[req'[r].h].session = s
  PROVE  TurnsInv(s0)'
<1>1. Effect(r) /\ Homed(s0) /\ s \in Session /\ overlap' = overlap /\ switched' = switched
  BY StepEffect, StepWorks DEF TurnsInv
<1>2. Homed(s0)'
  <2>1. req'[r].at = "opening" => handle'[r].session = s
    BY <1>1 DEF Homed, SameHandle
  <2> QED BY <1>1, <2>1, HomedThen DEF SameHandle
<1>3. \A t \in Session : Steady(t)'
  BY SteadyThen
<1>4. ASSUME NEW t \in Session, Untouched(t) PROVE InTurn(t)'
  BY <1>1, <1>2, <1>4, OtherInTurn
<1> QED BY <1>1, <1>2, <1>3, <1>4 DEF TurnsInv, Untouched

(* A handle is opened at the end of its session's file, or on a name that  *)
(* no file has.                                                            *)
LEMMA ListTurns ==
  ASSUME ApiInv, NEW s0 \in Session, TurnsInv(s0), NEW r \in Request, List(r), NEW s, s = req[r].s
  PROVE  TurnsInv(s0)'
<1>1. Step(r) /\ Effect(r) /\ Homed(s0)
  BY StepEffect DEF TurnsInv, Step
<1>2. UNCHANGED <<profile, file, cache>> /\ req[r].at = "list"
  BY DEF List
<1>3. /\ s \in Session /\ r \in File /\ NoRequest \notin Session /\ overlap' = overlap /\ switched' = switched
      /\ \A f \in File : Home(f, s0)' = Home(f, s0)
  BY <1>1, StepWorks, ApiAssumption DEF File
<1>4. CASE ~profile[P(r)].exists
  <2>1. req'[r].at = "failed" /\ handle' = handle
    BY <1>4, EndMoves DEF List, Moves, At, Ended, ApiInv
  <2> QED BY <1>1, <1>2, <2>1, QuietTurns DEF Held, InChild, SameHandle
<1>5. CASE profile[P(r)].exists
  <2>1. PICK f \in File :
          /\ handle' = [handle EXCEPT ![r] = [session |-> s, file |-> f, leaf |-> Len(file[f].turns), busy |-> FALSE]]
          /\ f \in IF FilesOf(s) = {} THEN {r} ELSE FilesOf(s)
    BY <1>3, <1>5 DEF List, FilesOf
  <2>2. /\ handle'[r].session = s /\ handle'[r].file = f /\ handle'[r].leaf = Len(file[f].turns)
        /\ \A h \in Request \ {r} : SameHandle(h)
    BY <2>1 DEF ApiInv, TypeOK, SameHandle
  <2>3. req'[r].at = "opening"
    BY <1>5, GoMoves DEF List, Moves, At, ApiInv
  <2>4. Home(f, s0) = s /\ (file[f].session = s \/ file[f].turns = <<>>)
    <3>1. CASE FilesOf(s) = {}
      <4>1. f = r /\ Home(f, s0) = s
        BY <2>1, <3>1, ApiAssumption DEF Home
      <4>2. file[f].session = NoRequest
        BY <1>1, <1>3, <3>1, <4>1 DEF FilesOf, Homed
      <4> QED BY <1>1, <4>1, <4>2 DEF Homed
    <3>2. CASE FilesOf(s) # {}
      BY <1>1, <1>3, <2>1, <3>2 DEF FilesOf, Homed
    <3> QED BY <3>1, <3>2
  <2>5. Homed(s0)'
    <3>1. \A h \in Request : \/ handle'[h].session = handle[h].session /\ handle'[h].file = handle[h].file
                             \/ h = r /\ handle'[h].session = s /\ handle'[h].file \in File /\ Home(handle'[h].file, s0) = s
      BY <2>2, <2>4 DEF SameHandle
    <3>2. (InChild(r)' /\ req'[r].at = "child") => Home(req'[r].f, s0) = s
      BY <2>3
    <3> QED BY <1>1, <1>2, <2>2, <2>3, <3>1, <3>2, HomedThen
  <2>6. \A t \in Session : Steady(t)'
    BY <1>1, <1>2, SteadyThen
  <2>7. Fits(r, s)'
    <3>1. Len(<<>>) = 0
      OBVIOUS
    <3> QED BY <1>2, <2>2, <2>4, <3>1 DEF Fits
  <2>8. ASSUME NEW t \in Session, Untouched(t) PROVE InTurn(t)'
    <3>1. CASE t = s
      <4>1. cache[t] # r
        BY <1>2, ApiAssumption DEF ApiInv, HandlesAreOpen, Past, Ended, NoHandle
      <4>2. cache'[t] # NoHandle => Fits(cache[t], t)'
        <5>1. ASSUME NEW h, h = cache[t], h # NoHandle PROVE Fits(h, t)'
          <6>1. h \in Request \ {r} /\ Fits(h, t)
            BY <2>8, <4>1, <5>1 DEF ApiInv, TypeOK, TurnsInv, InTurn
          <6> QED BY <1>2, <2>2, <6>1, FitsStays
        <5>2. cache'[t] = cache[t]
          BY <1>2
        <5> QED BY <5>1, <5>2 DEF Fits
      <4>3. \A g \in File : file'[g].session = t => Extended(g)'
        BY <1>2, <2>8 DEF TurnsInv, InTurn, FilesOf, Extended
      <4>4. Held(r, t)'
        BY <2>3, <2>7, <3>1 DEF Held
      <4> QED BY <1>1, <2>3, <2>8, <3>1, <4>2, <4>3, <4>4, OwnInTurn, StepWorks
    <3>2. CASE t # s
      <4>1. \A h \in Request : handle[h].session = t => SameHandle(h)
        BY <1>1, <1>3, <2>2, <3>2 DEF Homed
      <4> QED BY <1>1, <1>2, <2>3, <2>5, <2>8, <3>2, <4>1, OtherInTurn
    <3> QED BY <3>1, <3>2
  <2> QED BY <1>3, <2>5, <2>6, <2>8 DEF TurnsInv, Untouched
<1> QED BY <1>4, <1>5


LEMMA OpenedTurns ==
  ASSUME ApiInv, NEW s0 \in Session, TurnsInv(s0), NEW r \in Request, NEW ok \in BOOLEAN, Opened(r, ok), NEW s, s = req[r].s
  PROVE  TurnsInv(s0)'
<1>1. Step(r) /\ Effect(r) /\ Homed(s0)
  BY StepEffect DEF TurnsInv, Step
<1>2. UNCHANGED <<profile, file, handle>> /\ req[r].at = "opening" /\ \A h \in Request : SameHandle(h)
  BY DEF Opened, SameHandle
<1>3. s \in Session /\ overlap' = overlap /\ switched' = switched /\ r # NoHandle
  BY <1>1, StepWorks, ApiAssumption DEF NoHandle
<1>4. CASE ~ok
  <2>1. req'[r].at = "failed" /\ cache' = cache
    BY <1>4, EndMoves DEF Opened, Moves, At, Ended, ApiInv
  <2> QED BY <1>1, <1>2, <2>1, QuietTurns DEF Held, InChild
<1>5. CASE ok
  <2>1. cache' = [cache EXCEPT ![s] = r] /\ req' = [req EXCEPT ![r].at = "check", ![r].h = r]
    BY <1>5 DEF Opened
  <2>2. req'[r].at = "check" /\ req'[r].h = r
    BY <2>1, RequestType DEF ApiInv, Req
  <2>3. cache'[s] = r /\ \A t \in Session \ {s} : cache'[t] = cache[t]
    BY <1>3, <2>1 DEF ApiInv, TypeOK
  <2>4. handle[r].session = s
    BY <1>1, <1>2 DEF Homed
  <2>5. Homed(s0)'
    <3>1. \A t \in Session : cache'[t] \in {NoHandle, cache[t]} \/ (cache'[t] = r /\ handle'[r].session = t)
      BY <1>2, <2>3, <2>4
    <3>2. ~InChild(r)'
      BY <2>2 DEF InChild
    <3> QED BY <1>1, <1>2, <2>2, <2>4, <3>1, <3>2, HomedThen
  <2>6. \A t \in Session : Steady(t)'
    BY <1>1, <1>2, <2>3, SteadyThen
  <2>7. ASSUME NEW t \in Session, Untouched(t) PROVE InTurn(t)'
    <3>1. CASE t = s
      <4>1. Fits(r, s)
        BY <1>2, <2>7, <3>1 DEF TurnsInv, InTurn, Held
      <4>2. Fits(r, s)'
        BY <1>2, <4>1, FitsStays
      <4>3. cache'[t] # NoHandle => Fits(cache[t], t)'
        BY <2>3, <3>1, <4>2 DEF Fits
      <4>4. \A g \in File : file'[g].session = t => Extended(g)'
        BY <1>2, <2>7 DEF TurnsInv, InTurn, FilesOf, Extended
      <4>5. Held(r, t)'
        BY <2>2, <2>3, <3>1 DEF Held, InChild
      <4> QED BY <1>1, <2>2, <2>7, <3>1, <4>3, <4>4, <4>5, OwnInTurn, StepWorks
    <3>2. CASE t # s
      BY <1>1, <1>2, <2>2, <2>3, <2>5, <2>7, <3>2, OtherInTurn
    <3> QED BY <3>1, <3>2
  <2> QED BY <1>3, <2>5, <2>6, <2>7 DEF TurnsInv, Untouched
<1> QED BY <1>4, <1>5

(* The turn that is written is the one after the last of its file.         *)
LEMMA TurnExtends ==
  ASSUME TypeOK, NEW f \in File, NEW s \in Session, NEW leaf, file[f].session = s => Extended(f),
         leaf = IF file[f].session = s THEN Len(file[f].turns) ELSE 0
  PROVE  /\ Turn(f, s, leaf)[f].session = s
         /\ \A i \in DOMAIN Turn(f, s, leaf)[f].turns : Turn(f, s, leaf)[f].turns[i] = i - 1
         /\ \A e \in File \ {f} : Turn(f, s, leaf)[e] = file[e]
<1>1. file \in [File -> FileRec] /\ file[f].turns \in Seq(Nat)
  BY DEF TypeOK, FileRec
<1> DEFINE before == IF file[f].session = s THEN file[f].turns ELSE <<>>
<1>2. before \in Seq(Nat) /\ leaf = Len(before) /\ \A i \in DOMAIN before : before[i] = i - 1
  BY <1>1 DEF Extended
<1>3. Turn(f, s, leaf) = [file EXCEPT ![f] = [session |-> s, turns |-> Append(before, leaf)]]
  BY DEF Turn
<1> HIDE DEF before
<1>4. \A i \in DOMAIN Append(before, leaf) : Append(before, leaf)[i] = i - 1
  <2>1. leaf \in Nat
    BY <1>2, LenProperties
  <2>2. DOMAIN Append(before, leaf) = 1..Len(before) + 1 /\ DOMAIN before = 1..Len(before)
    BY <1>2, <2>1
  <2>3. Append(before, leaf)[Len(before) + 1] = leaf /\ \A i \in 1..Len(before) : Append(before, leaf)[i] = before[i]
    BY <1>2, <2>1, AppendProperties
  <2> QED BY <1>2, <2>1, <2>2, <2>3
<1>5. Turn(f, s, leaf)[f] = [session |-> s, turns |-> Append(before, leaf)] /\ \A e \in File \ {f} : Turn(f, s, leaf)[e] = file[e]
  BY <1>1, <1>3
<1>6. Turn(f, s, leaf)[f].session = s /\ Turn(f, s, leaf)[f].turns = Append(before, leaf)
  BY <1>5
<1> QED BY <1>4, <1>5, <1>6

(* A prompt that ends well writes the next turn of the handle's file.      *)
LEMMA PromptedTurns ==
  ASSUME ApiInv, NEW s0 \in Session, TurnsInv(s0), NEW r \in Request, NEW ok \in BOOLEAN, Prompted(r, ok), NEW s, s = req[r].s,
         NEW h, h = req[r].h, NEW f, f = handle[h].file
  PROVE  TurnsInv(s0)'
<1>1. Step(r) /\ Effect(r) /\ Homed(s0)
  BY StepEffect DEF TurnsInv, Step
<1>2. UNCHANGED <<profile, cache>> /\ req[r].at = "prompting" /\ End(r, IF ok THEN "done" ELSE "failed")
  BY DEF Prompted
<1>3. req'[r].at \in Ended
  BY <1>2, EndMoves DEF Moves, At, Ended, ApiInv
<1>4. s \in Session /\ overlap' = overlap /\ switched' = switched /\ h \in Request /\ f \in File /\ NoRequest \notin Session
  BY <1>1, <1>2, StepWorks, ApiAssumption DEF ApiInv, HandlesAreOpen, TypeOK
<1>5. CASE ~ok
  <2>1. file' = file /\ handle' = [handle EXCEPT ![h] = [handle[h] EXCEPT !.busy = FALSE]]
    BY <1>5 DEF Prompted, Idle
  <2>2. \A g \in Request : SameHandle(g)
    BY <1>4, <2>1 DEF ApiInv, TypeOK, SameHandle
  <2> QED BY <1>1, <1>2, <1>3, <2>1, <2>2, QuietTurns DEF Held, InChild, Ended
<1>6. CASE ok
  <2>1. /\ file' = Turn(f, s, handle[h].leaf)
        /\ handle' = [handle EXCEPT ![h] = [[handle[h] EXCEPT !.leaf = Len(file'[f].turns)] EXCEPT !.busy = FALSE]]
    BY <1>6 DEF Prompted, Idle
  <2>2. /\ handle'[h].session = handle[h].session /\ handle'[h].file = f /\ handle'[h].leaf = Len(file'[f].turns)
        /\ \A g \in Request \ {h} : SameHandle(g)
    <3>1. handle \in [Request -> HandleRec] /\ handle[h] \in HandleRec
      BY <1>4 DEF ApiInv, TypeOK, HandleRec
    <3>2. /\ handle'[h] = [[handle[h] EXCEPT !.leaf = Len(file'[f].turns)] EXCEPT !.busy = FALSE]
          /\ \A g \in Request \ {h} : handle'[g] = handle[g]
      BY <1>4, <2>1, <3>1
    <3> QED BY <3>1, <3>2 DEF HandleRec, SameHandle
  <2>3. file'[f].session = s /\ \A e \in File \ {f} : file'[e] = file[e]
    BY <1>4, <2>1 DEF Turn, ApiInv, TypeOK
  <2>4. handle[h].session = s /\ Home(f, s0) = s
    BY <1>1, <1>2, <1>4 DEF Homed
  <2>5. Homed(s0)'
    <3>1. \A g \in Request : handle'[g].session = handle[g].session /\ handle'[g].file = handle[g].file
      BY <2>2 DEF SameHandle
    <3> QED BY <1>1, <1>2, <1>3, <2>3, <2>4, <3>1, HomedThen DEF InChild, Ended
  <2>6. \A t \in Session : Steady(t)'
    BY <1>1, <1>2, SteadyThen
  <2>7. ASSUME NEW t \in Session, Untouched(t) PROVE InTurn(t)'
    <3>1. CASE t = s
      <4>1. h = cache[s] /\ Fits(h, s)
        BY <1>2, <1>4, <2>7, <3>1, ApiAssumption DEF TurnsInv, InTurn, Held, NoHandle
      <4>2. \A e \in File : file[e].session = s => Extended(e)
        BY <2>7, <3>1 DEF TurnsInv, InTurn, FilesOf
      <4>3. handle[h].leaf = IF file[f].session = s THEN Len(file[f].turns) ELSE 0
        BY <4>1 DEF Fits
      <4>4. Extended(f)'
        <5>1. \A i \in DOMAIN Turn(f, s, handle[h].leaf)[f].turns : Turn(f, s, handle[h].leaf)[f].turns[i] = i - 1
          <6>1. TypeOK /\ (file[f].session = s => Extended(f)) /\ f \in File /\ s \in Session
            BY <1>4, <4>2 DEF ApiInv
          <6>2. ASSUME NEW leaf, leaf = IF file[f].session = s THEN Len(file[f].turns) ELSE 0
                PROVE  /\ Turn(f, s, leaf)[f].session = s
                       /\ \A i \in DOMAIN Turn(f, s, leaf)[f].turns : Turn(f, s, leaf)[f].turns[i] = i - 1
                       /\ \A e \in File \ {f} : Turn(f, s, leaf)[e] = file[e]
            BY ONLY <6>1, <6>2, TurnExtends
          <6> QED BY <4>3, <6>2
        <5> QED BY <2>1, <5>1 DEF Extended
      <4>5. \A e \in File : file'[e].session = t => Extended(e)'
        BY <2>3, <3>1, <4>2, <4>4 DEF Extended
      <4>6. Fits(cache[t], t)'
        BY <1>2, <2>2, <2>3, <2>4, <3>1, <4>1 DEF Fits
      <4>7. Held(r, t)'
        BY <1>3 DEF Held, InChild, Ended
      <4>8. req'[r].at # "rmdir"
        BY <1>3 DEF Ended
      <4> QED BY <1>1, <1>4, <2>7, <3>1, <4>5, <4>6, <4>7, <4>8, OwnInTurn, StepWorks
    <3>2. CASE t # s
      <4>1. \A g \in Request : handle[g].session = t => SameHandle(g)
        BY <2>2, <2>4, <3>2
      <4>2. \A e \in File : file'[e] = file[e] \/ Home(e, s0) # t
        BY <2>3, <2>4, <3>2
      <4> QED BY <1>1, <1>2, <1>3, <2>5, <2>7, <3>2, <4>1, <4>2, OtherInTurn DEF Ended
    <3> QED BY <3>1, <3>2
  <2> QED BY <1>4, <2>5, <2>6, <2>7 DEF TurnsInv, Untouched
<1> QED BY <1>5, <1>6

(* A child writes the next turn of the file it was given.                  *)
LEMMA ChildTurns ==
  ASSUME ApiInv, NEW s0 \in Session, TurnsInv(s0), NEW r \in Request, NEW ok \in BOOLEAN, ChildEnds(r, ok), NEW s, s = req[r].s,
         NEW f, f = req[r].f
  PROVE  TurnsInv(s0)'
<1>1. Step(r) /\ Effect(r) /\ Homed(s0)
  BY StepEffect DEF TurnsInv, Step
<1>2. UNCHANGED <<profile, cache, handle>> /\ req[r].at = "child" /\ End(r, IF ok THEN "done" ELSE "failed")
  BY DEF ChildEnds
<1>3. req'[r].at \in Ended /\ \A h \in Request : SameHandle(h)
  BY <1>2, EndMoves DEF Moves, At, Ended, ApiInv, SameHandle
<1>4. s \in Session /\ overlap' = overlap /\ switched' = switched /\ f \in File /\ NoRequest \notin Session
  BY <1>1, <1>2, StepWorks, ApiAssumption, RequestType DEF ApiInv
<1>5. CASE ~InChild(r) \/ ~ok
  <2>1. file' = file
    BY <1>2, <1>5 DEF ChildEnds, InChild
  <2> QED BY <1>1, <1>2, <1>3, <2>1, QuietTurns DEF Held, InChild, Ended
<1>6. CASE InChild(r) /\ ok
  <2>1. file' = Turn(f, s, Len(file[f].turns))
    BY <1>6 DEF ChildEnds, InChild
  <2>2. file'[f].session = s /\ \A e \in File \ {f} : file'[e] = file[e]
    BY <1>4, <2>1 DEF Turn, ApiInv, TypeOK
  <2>3. Home(f, s0) = s
    BY <1>1, <1>2, <1>6 DEF Homed
  <2>4. Homed(s0)'
    BY <1>1, <1>2, <1>3, <2>2, <2>3, HomedThen DEF InChild, Ended
  <2>5. \A t \in Session : Steady(t)'
    BY <1>1, <1>2, SteadyThen
  <2>6. ASSUME NEW t \in Session, Untouched(t) PROVE InTurn(t)'
    <3>1. CASE t = s
      <4>1. file[f].session = s
        BY <1>2, <1>6, <2>6, <3>1 DEF TurnsInv, InTurn, Held
      <4>2. \A e \in File : file[e].session = s => Extended(e)
        BY <2>6, <3>1 DEF TurnsInv, InTurn, FilesOf
      <4>3. Extended(f)'
        <5>1. \A i \in DOMAIN Turn(f, s, Len(file[f].turns))[f].turns : Turn(f, s, Len(file[f].turns))[f].turns[i] = i - 1
          BY <1>4, <4>1, <4>2, TurnExtends DEF ApiInv
        <5> QED BY <2>1, <5>1 DEF Extended
      <4>4. \A e \in File : file'[e].session = t => Extended(e)'
        BY <2>2, <3>1, <4>2, <4>3 DEF Extended
      <4>5. cache'[t] = NoHandle
        <5>1. Steady(s)
          BY <1>4 DEF TurnsInv
        <5> QED BY <1>2, <1>6, <2>6, <3>1, <5>1 DEF Steady, Untouched
      <4>6. Held(r, t)' /\ req'[r].at # "rmdir"
        BY <1>3 DEF Held, InChild, Ended
      <4> QED BY <1>1, <1>4, <2>6, <3>1, <4>4, <4>5, <4>6, OwnInTurn, StepWorks
    <3>2. CASE t # s
      <4>1. \A e \in File : file'[e] = file[e] \/ Home(e, s0) # t
        BY <2>2, <2>3, <3>2
      <4> QED BY <1>1, <1>2, <1>3, <2>4, <2>6, <3>2, <4>1, OtherInTurn DEF Ended
    <3> QED BY <3>1, <3>2
  <2> QED BY <1>4, <2>4, <2>5, <2>6 DEF TurnsInv, Untouched
<1> QED BY <1>5, <1>6

(* A session is created only while it has no file.                         *)
LEMMA CreateWriteTurns ==
  ASSUME ApiInv, NEW s0 \in Session, TurnsInv(s0), NEW r \in Request, CreateWrite(r), NEW s, s = req[r].s
  PROVE  TurnsInv(s0)'
<1>1. Step(r) /\ Effect(r) /\ Homed(s0)
  BY StepEffect DEF TurnsInv, Step
<1>2. UNCHANGED <<profile, cache, handle>> /\ req[r].at = "write" /\ \E to \in Ended : End(r, to)
  BY DEF CreateWrite, Ended
<1>3. req'[r].at \in Ended /\ \A h \in Request : SameHandle(h)
  BY <1>2, EndMoves DEF Moves, At, ApiInv, SameHandle
<1>4. /\ s \in Session /\ overlap' = overlap /\ switched' = switched /\ r \in File /\ NoRequest \notin Session
      /\ Home(r, s0) = s
  BY <1>1, StepWorks, ApiAssumption DEF File, Home
<1>5. CASE ~profile[P(r)].exists
  <2>1. file' = file
    BY <1>5 DEF CreateWrite
  <2> QED BY <1>1, <1>2, <1>3, <2>1, QuietTurns DEF Held, InChild, Ended
<1>6. CASE profile[P(r)].exists
  <2>1. file' = [file EXCEPT ![r] = [session |-> s, turns |-> <<>>]]
    BY <1>6 DEF CreateWrite
  <2>2. file'[r].session = s /\ file'[r].turns = <<>> /\ \A e \in File \ {r} : file'[e] = file[e]
    BY <1>4, <2>1 DEF ApiInv, TypeOK
  <2>3. Homed(s0)'
    BY <1>1, <1>2, <1>3, <1>4, <2>2, HomedThen DEF InChild, Ended
  <2>4. \A t \in Session : Steady(t)'
    BY <1>1, <1>2, SteadyThen
  <2>5. ASSUME NEW t \in Session, Untouched(t) PROVE InTurn(t)'
    <3>1. CASE t = s
      <4>1. \A e \in File : file[e].session # s
        BY <1>2, <2>5, <3>1 DEF TurnsInv, InTurn, Held, FilesOf
      <4>2. Extended(r)'
        BY <2>2 DEF Extended
      <4>3. \A e \in File : file'[e].session = t => Extended(e)'
        BY <2>2, <3>1, <4>1, <4>2
      <4>4. ASSUME NEW h, h = cache[t], h # NoHandle PROVE Fits(h, t)'
        <5>1. Fits(h, t) /\ h \in Request
          BY <2>5, <4>4 DEF TurnsInv, InTurn, ApiInv, TypeOK
        <5>2. handle[h].leaf = 0 /\ handle[h].file \in File
          BY <3>1, <4>1, <5>1 DEF Fits, ApiInv, TypeOK
        <5>3. file'[handle[h].file].session = s => Len(file'[handle[h].file].turns) = 0
          <6>1. Len(<<>>) = 0
            OBVIOUS
          <6> QED BY <2>2, <4>1, <5>2, <6>1
        <5> QED BY <1>2, <3>1, <5>1, <5>2, <5>3 DEF Fits
      <4>5. cache'[t] # NoHandle => Fits(cache[t], t)'
        BY <1>2, <4>4 DEF Fits
      <4>6. Held(r, t)' /\ req'[r].at # "rmdir"
        BY <1>3 DEF Held, InChild, Ended
      <4> QED BY <1>1, <1>4, <2>5, <3>1, <4>3, <4>5, <4>6, OwnInTurn, StepWorks
    <3>2. CASE t # s
      <4>1. \A e \in File : file'[e] = file[e] \/ Home(e, s0) # t
        BY <1>4, <2>2, <3>2
      <4> QED BY <1>1, <1>2, <1>3, <2>3, <2>5, <3>2, <4>1, OtherInTurn DEF Ended
    <3> QED BY <3>1, <3>2
  <2> QED BY <1>4, <2>3, <2>4, <2>5 DEF TurnsInv, Untouched
<1> QED BY <1>5, <1>6

(* A profile about to be removed loses all its handles.                    *)
LEMMA DropTurns ==
  ASSUME ApiInv, NEW s0 \in Session, TurnsInv(s0), NEW r \in Request, Drop(r), NEW s, s = req[r].s
  PROVE  TurnsInv(s0)'
<1>1. Step(r) /\ Effect(r) /\ Homed(s0)
  BY StepEffect DEF TurnsInv, Step
<1>2. UNCHANGED <<profile, file, handle>> /\ req[r].at = "drop" /\ \A h \in Request : SameHandle(h)
  BY DEF Drop, SameHandle
<1>3. s \in Session /\ overlap' = overlap /\ switched' = switched /\ req'[r].op = req[r].op
  BY <1>1, StepWorks
<1>4. ASSUME NEW to \in {"failed", "unlink"}, req'[r].at = to, cache' = cache PROVE TurnsInv(s0)'
  BY <1>1, <1>2, <1>4, QuietTurns DEF Held, InChild
<1>5. CASE /\ cache' = [t \in Session |-> IF ProfileOf[t] = P(r) THEN NoHandle ELSE cache[t]]
           /\ Go(r, "rmdir") /\ req[r].op = "deleteProfile"
  <2>1. req'[r].at = "rmdir"
    BY <1>5, GoMoves DEF Moves, At, ApiInv
  <2>2. Homed(s0)'
    <3>1. \A t \in Session : cache'[t] \in {NoHandle, cache[t]}
      BY <1>5
    <3> QED BY <1>1, <1>2, <1>3, <1>5, <2>1, <3>1, HomedThen DEF InChild, SameHandle
  <2>3. \A t \in Session : Steady(t)'
    <3>1. \A t \in Session : cache'[t] \in {NoHandle, cache[t]}
      BY <1>5
    <3> QED BY <1>1, <1>2, <3>1, SteadyThen
  <2>4. ASSUME NEW t \in Session, Untouched(t) PROVE InTurn(t)'
    <3>1. CASE ProfileOf[t] = P(r)
      <4>1. cache'[t] = NoHandle /\ Works(r, t)
        BY <1>2, <1>5, <3>1 DEF Works, Active, Ended
      <4>2. \A e \in File : file'[e].session = t => Extended(e)'
        BY <1>2, <2>4 DEF TurnsInv, InTurn, FilesOf, Extended
      <4>3. Held(r, t)'
        BY <2>1 DEF Held, InChild
      <4> QED BY <1>1, <2>4, <4>1, <4>2, <4>3, OwnInTurn
    <3>2. CASE ProfileOf[t] # P(r)
      <4>1. cache'[t] = cache[t] /\ t # s /\ P(r)' # ProfileOf[t]
        BY <1>1, <1>5, <3>2, StepWorks DEF P
      <4> QED BY <1>1, <1>2, <2>2, <2>4, <3>2, <4>1, OtherInTurn
    <3> QED BY <3>1, <3>2
  <2> QED BY <1>3, <2>2, <2>3, <2>4 DEF TurnsInv, Untouched
<1>6. CASE End(r, "failed") /\ cache' = cache
  <2>1. req'[r].at = "failed"
    BY <1>6, EndMoves DEF Moves, At, Ended, ApiInv
  <2> QED BY <1>4, <1>6, <2>1
<1>7. CASE Go(r, "unlink") /\ cache' = cache
  <2>1. req'[r].at = "unlink"
    BY <1>7, GoMoves DEF Moves, At, ApiInv
  <2> QED BY <1>4, <1>7, <2>1
<1> QED BY <1>5, <1>6, <1>7 DEF Drop

(* A session that is deleted loses its file and its handle in one step.    *)
LEMMA UnlinkTurns ==
  ASSUME ApiInv, NEW s0 \in Session, TurnsInv(s0), NEW r \in Request, Unlink(r), NEW s, s = req[r].s
  PROVE  TurnsInv(s0)'
<1>1. Step(r) /\ Effect(r) /\ Homed(s0)
  BY StepEffect DEF TurnsInv, Step
<1>2. UNCHANGED <<profile, handle>> /\ (\E to \in Ended : End(r, to)) /\ \A h \in Request : SameHandle(h)
  BY DEF Unlink, SameHandle, Ended
<1>3. /\ s \in Session /\ overlap' = overlap /\ switched' = switched /\ NoRequest \notin Session
      /\ req'[r].at \in Ended
  <2>1. PICK to \in Ended : End(r, to)
    BY <1>2
  <2>2. req'[r].at = to
    BY <2>1, EndMoves DEF Moves, At, ApiInv
  <2> QED BY <1>1, <2>2, StepWorks, ApiAssumption
<1>4. CASE FilesOf(s) = {}
  <2>1. file' = file /\ cache' = cache
    BY <1>4 DEF Unlink
  <2> QED BY <1>1, <1>2, <1>3, <2>1, QuietTurns DEF Held, InChild, Ended
<1>5. CASE FilesOf(s) # {}
  <2>1. PICK f \in FilesOf(s) : file' = Removed({f}) /\ cache' = Uncached(s)
    BY <1>5 DEF Unlink
  <2>2. f \in File /\ Home(f, s0) = s
    BY <1>1, <1>3 DEF FilesOf, Homed
  <2>3. /\ file'[f].session = NoRequest /\ file'[f].turns = <<>> /\ \A e \in File \ {f} : file'[e] = file[e]
        /\ cache'[s] = NoHandle /\ \A t \in Session \ {s} : cache'[t] = cache[t]
    BY <1>3, <2>1, <2>2 DEF Removed, Uncached, ApiInv, TypeOK
  <2>4. \A t \in Session : cache'[t] \in {NoHandle, cache[t]}
    BY <2>3
  <2>5. Homed(s0)'
    BY <1>1, <1>2, <1>3, <2>2, <2>3, <2>4, HomedThen DEF InChild, Ended, SameHandle
  <2>6. \A t \in Session : Steady(t)'
    BY <1>1, <1>2, <2>4, SteadyThen
  <2>7. ASSUME NEW t \in Session, Untouched(t) PROVE InTurn(t)'
    <3>1. CASE t = s
      <4>1. \A e \in File : file'[e].session = t => Extended(e)'
        BY <1>3, <2>3, <2>7 DEF TurnsInv, InTurn, FilesOf, Extended
      <4>2. Held(r, t)' /\ req'[r].at # "rmdir"
        BY <1>3 DEF Held, InChild, Ended
      <4> QED BY <1>1, <2>3, <2>7, <3>1, <4>1, <4>2, OwnInTurn, StepWorks
    <3>2. CASE t # s
      <4>1. \A e \in File : file'[e] = file[e] \/ Home(e, s0) # t
        BY <2>2, <2>3, <3>2
      <4> QED BY <1>1, <1>2, <1>3, <2>3, <2>5, <2>7, <3>2, <4>1, OtherInTurn DEF Ended
    <3> QED BY <3>1, <3>2
  <2> QED BY <1>3, <2>5, <2>6, <2>7 DEF TurnsInv, Untouched
<1> QED BY <1>4, <1>5

(* A profile that is removed takes all its files with it; its sessions     *)
(* have no handle by then.                                                 *)
LEMMA RemoveDirectoryTurns ==
  ASSUME ApiInv, NEW s0 \in Session, TurnsInv(s0), NEW r \in Request, RemoveDirectory(r), NEW s, s = req[r].s
  PROVE  TurnsInv(s0)'
<1>1. Step(r) /\ Effect(r) /\ Homed(s0)
  BY StepEffect DEF TurnsInv, Step
<1>2. /\ UNCHANGED <<cache, handle>> /\ req[r].at = "rmdir" /\ (\E to \in Ended : End(r, to))
      /\ \A h \in Request : SameHandle(h)
  BY DEF RemoveDirectory, SameHandle, Ended
<1>3. /\ s \in Session /\ overlap' = overlap /\ switched' = switched /\ NoRequest \notin Session
      /\ req'[r].at \in Ended /\ req[r].op = "deleteProfile"
  <2>1. PICK to \in Ended : End(r, to)
    BY <1>2
  <2>2. req'[r].at = to
    BY <2>1, EndMoves DEF Moves, At, ApiInv
  <2> QED BY <1>1, <1>2, <2>2, StepWorks, ApiAssumption DEF Homed
<1>4. CASE ~profile[P(r)].exists
  <2>1. file' = file /\ profile' = profile
    BY <1>4 DEF RemoveDirectory
  <2> QED BY <1>1, <1>2, <1>3, <2>1, QuietTurns DEF Held, InChild, Ended
<1>5. CASE profile[P(r)].exists
  <2> DEFINE gone == {f \in File : file[f].session # NoRequest /\ ProfileOf[file[f].session] = P(r)}
  <2>1. file' = Removed(gone) /\ profile' = [profile EXCEPT ![P(r)].exists = FALSE]
    BY <1>5 DEF RemoveDirectory
  <2>2. \A e \in File : IF e \in gone THEN file'[e].session = NoRequest /\ file'[e].turns = <<>> ELSE file'[e] = file[e]
    BY <2>1 DEF Removed
  <2>3. \A e \in gone : Home(e, s0) = file[e].session /\ ProfileOf[Home(e, s0)] = P(r)
    BY <1>1 DEF Homed
  <2> HIDE DEF gone
  <2>4. Homed(s0)'
    BY <1>1, <1>2, <1>3, <2>2, HomedThen DEF InChild, Ended, SameHandle
  <2>5. \A t \in Session : Steady(t)'
    <3>1. \A t \in Session : profile'[ProfileOf[t]].sandbox = profile[ProfileOf[t]].sandbox
      BY <2>1, ApiAssumption DEF ApiInv, TypeOK
    <3> QED BY <1>1, <1>2, <3>1, SteadyThen
  <2>6. ASSUME NEW t \in Session, Untouched(t) PROVE InTurn(t)'
    <3>1. CASE ProfileOf[t] = P(r)
      <4>1. Works(r, t)
        BY <1>2, <1>3, <3>1 DEF Works, Active, Ended
      <4>2. cache'[t] = NoHandle
        BY <1>2, <2>6, <3>1 DEF TurnsInv, InTurn
      <4>3. \A e \in File : file'[e].session = t => Extended(e)'
        BY <1>3, <2>2, <2>6 DEF TurnsInv, InTurn, FilesOf, Extended
      <4>4. Held(r, t)'
        BY <1>3 DEF Held, InChild, Ended
      <4> QED BY <1>1, <2>6, <4>1, <4>2, <4>3, <4>4, OwnInTurn
    <3>2. CASE ProfileOf[t] # P(r)
      <4>1. \A e \in File : file'[e] = file[e] \/ Home(e, s0) # t
        BY <2>2, <2>3, <3>2
      <4>2. t # s /\ req'[r].at # "rmdir"
        BY <1>3, <3>2 DEF P, Ended
      <4> QED BY <1>1, <1>2, <2>4, <2>6, <4>1, <4>2, OtherInTurn
    <3> QED BY <3>1, <3>2
  <2> QED BY <1>3, <2>4, <2>5, <2>6 DEF TurnsInv, Untouched
<1> QED BY <1>4, <1>5

(* The steps that only move the request on.                                *)
LEMMA RouteTurns ==
  ASSUME ApiInv, NEW s0 \in Session, TurnsInv(s0), NEW r \in Request, NEW s, s = req[r].s,
         Route(r) \/ Discover(r) \/ Awaited(r) \/ Sandbox(r)
  PROVE  TurnsInv(s0)'
<1>1. Step(r) /\ Effect(r) /\ UNCHANGED <<profile, file, handle, cache>> /\ \A h \in Request : SameHandle(h)
  BY StepEffect DEF Step, Route, Discover, Awaited, Sandbox, SameHandle
<1>2. /\ req[r].at \in {"route", "join", "await", "sandbox"} /\ Arrow(req[r].at, req'[r].at) /\ req'[r].op = req[r].op
  BY <1>1 DEF Route, Discover, Awaited, Sandbox, Effect, Moves
<1>3. req'[r].at \in Ended \cup {"child", "oneshot", "sandbox", "lookup", "route", "await", "find"}
  BY <1>2 DEF Arrow, Ended
<1>4. ASSUME req'[r].at = "child" PROVE ~InChild(r)'
  <2>1. req[r].at = "route"
    BY <1>2, <1>4 DEF Arrow
  <2>2. Route(r)
    BY <2>1 DEF Discover, Awaited, Sandbox
  <2>3. \A to \in {"failed", "oneshot", "sandbox", "lookup"} : ~Go(r, to) /\ ~End(r, to)
    BY <1>4, GoMoves, EndMoves DEF Moves, At, Ended, ApiInv
  <2>4. req[r].op \in {"oneshot", "discover"}
    BY <2>2, <2>3 DEF Route
  <2> QED BY <1>2, <2>4 DEF InChild
<1>5. Held(r, s)'
  BY <1>3, <1>4 DEF Held, Ended
<1> QED BY <1>1, <1>3, <1>4, <1>5, QuietTurns DEF Ended

LEMMA LookupTurns ==
  ASSUME ApiInv, NEW s0 \in Session, TurnsInv(s0), NEW r \in Request, Lookup(r), NEW s, s = req[r].s
  PROVE  TurnsInv(s0)'
<1>1. Step(r) /\ Effect(r) /\ UNCHANGED <<profile, file, handle, cache>> /\ Homed(s0) /\ \A h \in Request : SameHandle(h)
  BY StepEffect DEF Step, Lookup, SameHandle, TurnsInv
<1>2. s \in Session /\ req[r] \in Req /\ req \in [Request -> Req]
  BY <1>1, StepWorks, RequestType DEF ApiInv
<1>3. /\ req'[r].at = IF cache[s] = NoHandle THEN "list" ELSE "check"
      /\ req'[r].h = cache[s]
  BY <1>2 DEF Lookup, Req
<1>4. req'[r].at \in {"check", "prompting"} => handle'[req'[r].h].session = s
  BY <1>1, <1>2, <1>3 DEF Homed
<1>5. Held(r, s)' /\ ~InChild(r)'
  BY <1>1, <1>3 DEF Held, InChild
<1> QED BY <1>1, <1>3, <1>4, <1>5, QuietTurns

LEMMA EnterTurns ==
  ASSUME ApiInv, NEW s0 \in Session, TurnsInv(s0), NEW r \in Request, Enter(r), NEW s, s = req[r].s
  PROVE  TurnsInv(s0)'
<1>1. Step(r) /\ Effect(r) /\ UNCHANGED <<profile, file, handle, cache>> /\ Homed(s0) /\ \A h \in Request : SameHandle(h)
  BY StepEffect DEF Step, Enter, SameHandle, TurnsInv
<1>2. req[r].at \in Waiting /\ s \in Session /\ req[r] \in Req /\ req \in [Request -> Req]
  BY <1>1, EnterWaits, StepWorks, RequestType DEF ApiInv
<1>3. req'[r].at = req[r].at /\ req'[r].h = req[r].h
  BY <1>2 DEF Enter, Req
<1>4. ASSUME Untouched(s) PROVE Held(r, s)'
  <2>1. Held(r, s)
    BY <1>2, <1>4 DEF TurnsInv, InTurn
  <2> QED BY <1>1, <1>2, <1>3, <2>1 DEF Held, Fits, InChild, Waiting
<1>5. req'[r].at \in {"check", "prompting"} => handle'[req'[r].h].session = s
  BY <1>1, <1>3 DEF Homed
<1> QED BY <1>1, <1>2, <1>3, <1>4, <1>5, QuietTurns DEF Waiting, InChild

LEMMA CheckTurns ==
  ASSUME ApiInv, NEW s0 \in Session, TurnsInv(s0), NEW r \in Request, Check(r), NEW s, s = req[r].s
  PROVE  TurnsInv(s0)'
<1>1. Step(r) /\ Effect(r) /\ UNCHANGED <<profile, file, cache>> /\ Homed(s0) /\ req[r].at = "check"
  BY StepEffect DEF Step, Check, TurnsInv
<1>2. s \in Session /\ req[r].h \in Request
  BY <1>1, StepWorks DEF ApiInv, HandlesAreOpen
<1>3. \A h \in Request : SameHandle(h)
  <2>1. handle \in [Request -> HandleRec]
    BY DEF ApiInv, TypeOK, HandleRec
  <2>2. handle' = handle \/ handle' = [handle EXCEPT ![req[r].h] = [handle[req[r].h] EXCEPT !.busy = TRUE]]
    BY DEF Check
  <2> QED BY <1>2, <2>1, <2>2 DEF SameHandle, HandleRec
<1>4. req'[r].at \in {"prompting", "failed"} /\ req'[r].h = req[r].h
  <2>1. Go(r, "prompting") \/ End(r, "failed")
    BY DEF Check
  <2> QED BY <2>1, GoMoves, EndMoves DEF Moves, Holds, At, Ended, ApiInv
<1>5. ASSUME Untouched(s) PROVE Held(r, s)'
  <2>1. Held(r, s)
    BY <1>2, <1>5 DEF TurnsInv, InTurn
  <2> QED BY <1>1, <1>4, <2>1 DEF Held, InChild
<1>6. req'[r].at \in {"check", "prompting"} => handle'[req'[r].h].session = s
  BY <1>1, <1>2, <1>3, <1>4 DEF Homed, SameHandle
<1> QED BY <1>1, <1>3, <1>4, <1>5, <1>6, QuietTurns DEF InChild

LEMMA FindTurns ==
  ASSUME ApiInv, NEW s0 \in Session, TurnsInv(s0), NEW r \in Request, Find(r), NEW s, s = req[r].s
  PROVE  TurnsInv(s0)'
<1>1. Step(r) /\ Effect(r) /\ UNCHANGED <<profile, file, handle, cache>> /\ Homed(s0) /\ \A h \in Request : SameHandle(h)
  BY StepEffect DEF Step, Find, SameHandle, TurnsInv
<1>2. s \in Session /\ req[r] \in Req /\ req \in [Request -> Req] /\ NoRequest \notin Session
  BY <1>1, StepWorks, RequestType, ApiAssumption DEF ApiInv
<1>3. CASE FilesOf(s) = {}
  <2>1. req'[r].at = "failed"
    BY <1>3, EndMoves DEF Find, Moves, At, Ended, ApiInv
  <2> QED BY <1>1, <2>1, QuietTurns DEF Held, InChild
<1>4. CASE FilesOf(s) # {}
  <2>1. PICK f \in FilesOf(s) :
          \E e : req' = [req EXCEPT ![r].at = "child", ![r].f = f, ![r].child = e]
    BY <1>4 DEF Find
  <2>2. req'[r].at = "child" /\ req'[r].f = f
    BY <1>2, <2>1 DEF Req
  <2>3. file'[f].session = s /\ Home(f, s0) = s
    BY <1>1, <1>2 DEF FilesOf, Homed
  <2>4. Held(r, s)'
    BY <2>2, <2>3 DEF Held
  <2> QED BY <1>1, <2>2, <2>3, <2>4, QuietTurns
<1> QED BY <1>3, <1>4

LEMMA CreateListTurns ==
  ASSUME ApiInv, NEW s0 \in Session, TurnsInv(s0), NEW r \in Request, CreateList(r), NEW s, s = req[r].s
  PROVE  TurnsInv(s0)'
<1>1. Step(r) /\ Effect(r) /\ UNCHANGED <<profile, file, handle, cache>> /\ \A h \in Request : SameHandle(h)
  BY StepEffect DEF Step, CreateList, SameHandle
<1>2. CASE FilesOf(s) = {} /\ Go(r, "write")
  <2>1. req'[r].at = "write"
    BY <1>2, GoMoves DEF Moves, At, ApiInv
  <2>2. FilesOf(s)' = {}
    BY <1>1, <1>2 DEF FilesOf
  <2> QED BY <1>1, <2>1, <2>2, QuietTurns DEF Held, InChild
<1>3. CASE End(r, "failed")
  <2>1. req'[r].at = "failed"
    BY <1>3, EndMoves DEF Moves, At, Ended, ApiInv
  <2> QED BY <1>1, <2>1, QuietTurns DEF Held, InChild
<1> QED BY <1>2, <1>3 DEF CreateList

LEMMA OneShotTurns ==
  ASSUME ApiInv, NEW s0 \in Session, TurnsInv(s0), NEW r \in Request, NEW ok \in BOOLEAN, OneShot(r, ok)
  PROVE  TurnsInv(s0)'
<1>1. Step(r) /\ Effect(r) /\ UNCHANGED <<profile, file, handle, cache>> /\ \A h \in Request : SameHandle(h)
  BY StepEffect DEF Step, OneShot, SameHandle
<1>2. req'[r].at \in Ended
  BY EndMoves DEF OneShot, Moves, At, Ended, ApiInv
<1> QED BY <1>1, <1>2, QuietTurns DEF Held, InChild, Ended

LEMMA StepTurns ==
  ASSUME ApiInv, NEW s0 \in Session, TurnsInv(s0), NEW r \in Request, Step(r)
  PROVE  TurnsInv(s0)'
<1>1. ASSUME NEW ok \in BOOLEAN, Opened(r, ok) \/ Prompted(r, ok) \/ ChildEnds(r, ok) \/ OneShot(r, ok) PROVE TurnsInv(s0)'
  BY <1>1, OpenedTurns, PromptedTurns, ChildTurns, OneShotTurns
<1> QED
  BY <1>1, RouteTurns, LookupTurns, ListTurns, EnterTurns, CheckTurns, FindTurns, CreateListTurns, CreateWriteTurns,
     DropTurns, UnlinkTurns, RemoveDirectoryTurns DEF Step

(* A request arrives: the name of its file and of its handle is its own,   *)
(* and nobody else has used it.                                            *)
LEMMA BeginTurns ==
  ASSUME ApiInv, NEW s0 \in Session, TurnsInv(s0), NEW r \in Request, NEW op \in Ops, NEW s \in Session, Begin(r, op, s)
  PROVE  TurnsInv(s0)'
<1>1. PICK to \in {"join", "exists", "drop", "route"} : req' = [req EXCEPT ![r].op = op, ![r].s = s, ![r].at = to]
  BY DEF Begin
<1>2. /\ req[r].at = "new" /\ UNCHANGED <<profile, file, handle, cache, switched>>
      /\ Homed(s0) /\ req[r].s = NoRequest /\ NoRequest \notin Session
  BY ApiAssumption DEF Begin, TurnsInv, Homed
<1>3. req'[r].op = op /\ req'[r].s = s /\ req'[r].at = to /\ \A q \in Request \ {r} : req'[q] = req[q]
  BY <1>1, RequestType DEF ApiInv, Req
<1>4. \A f \in File : Home(f, s0) # NoRequest => Home(f, s0)' = Home(f, s0)
  BY <1>2, <1>3 DEF Home, File
<1>5. Homed(s0)'
  <2>1. (\A f \in File : /\ file[f].session # NoRequest => file[f].session = Home(f, s0)
                         /\ file[f].session = NoRequest => file[f].turns = <<>>)'
    BY <1>2, <1>4 DEF Homed
  <2>2. (\A h \in Request : handle[h].session # NoRequest =>
           handle[h].session = req[h].s /\ Home(handle[h].file, s0) = req[h].s)'
    <3>1. \A h \in Request : handle[h].file \in File
      BY DEF ApiInv, TypeOK
    <3>2. ASSUME NEW h \in Request, handle[h].session # NoRequest
          PROVE  handle[h].session = req'[h].s /\ Home(handle[h].file, s0)' = req'[h].s
      <4>1. handle[h].session = req[h].s /\ Home(handle[h].file, s0) = req[h].s /\ h # r
        BY <1>2, <3>2 DEF Homed
      <4> QED BY <1>2, <1>3, <1>4, <3>1, <3>2, <4>1 DEF Home
    <3> QED BY <1>2, <3>2
  <2>3. (\A q \in Request : (InChild(q) /\ req[q].at = "child") => Home(req[q].f, s0) = req[q].s)'
    <3>1. ASSUME NEW q \in Request, InChild(q)', req'[q].at = "child" PROVE Home(req[q].f, s0)' = req'[q].s
      <4>1. q # r /\ req'[q] = req[q] /\ InChild(q) /\ req[q].f \in File
        BY <1>3, <3>1, RequestType DEF InChild, ApiInv
      <4>2. Home(req[q].f, s0) = req[q].s /\ req[q].s \in Session
        BY <1>2, <3>1, <4>1 DEF Homed, ApiInv, Asked
      <4> QED BY <1>2, <1>4, <4>1, <4>2 DEF Home
    <3> QED BY <3>1
  <2>4. (\A t \in Session : cache[t] # NoHandle => handle[cache[t]].session = t)'
    BY <1>2 DEF Homed
  <2>5. (\A q \in Request : /\ req[q].at = "new" => req[q].s = NoRequest
                            /\ req[q].at = "rmdir" => req[q].op = "deleteProfile"
                            /\ req[q].at = "opening" => handle[q].session = req[q].s
                            /\ req[q].at \in {"check", "prompting"} => handle[req[q].h].session = req[q].s)'
    BY <1>2, <1>3 DEF Homed
  <2> QED BY <2>1, <2>2, <2>3, <2>4, <2>5 DEF Homed
<1>6. ASSUME NEW t \in Session PROVE Steady(t)'
  <2>1. ~InChild(r)' /\ req'[r].at # "sandbox" /\ req'[r].at \notin InProcess
    BY <1>3 DEF InChild, InProcess
  <2>2. \A q \in Request : req'[q].s = t /\ q # r => req[q].s = t /\ InChild(q)' = InChild(q) /\ req'[q] = req[q]
    BY <1>3 DEF InChild
  <2>3. Steady(t)
    BY DEF TurnsInv
  <2> QED BY <1>2, <2>1, <2>2, <2>3 DEF Steady
<1>7. ASSUME NEW t \in Session, Untouched(t)' PROVE InTurn(t)'
  <2>1. Untouched(t) /\ InTurn(t) /\ ((t = s \/ (op = "deleteProfile" /\ ProfileOf[t] = ProfileOf[s])) => \A q \in Request : ~Works(q, t))
    BY <1>2, <1>7 DEF Untouched, Begin, TurnsInv
  <2>2. \A q \in Request \ {r} : Works(q, t)' = Works(q, t)
    BY <1>3 DEF Works, Active, P
  <2>3. Works(r, t)' => t = s \/ (op = "deleteProfile" /\ ProfileOf[t] = ProfileOf[s])
    BY <1>3 DEF Works, P
  <2>4. (\A q, p \in Request : Works(q, t) /\ Works(p, t) => q = p)'
    BY <2>1, <2>2, <2>3 DEF InTurn
  <2>5. ASSUME NEW q \in Request, req'[q].s = t PROVE Held(q, t)'
    <3>1. CASE q = r
      BY <1>3, <3>1 DEF Held, InChild
    <3>2. CASE q # r
      BY <1>2, <1>3, <2>1, <2>5, <3>2 DEF InTurn, Held, Fits, InChild, FilesOf
    <3> QED BY <3>1, <3>2
  <2>6. (\A q \in Request : (req[q].at = "rmdir" /\ P(q) = ProfileOf[t]) => cache[t] = NoHandle)'
    BY <1>2, <1>3, <2>1 DEF InTurn, P
  <2>7. (\A f \in FilesOf(t) : Extended(f))' /\ (cache[t] # NoHandle => Fits(cache[t], t))'
    BY <1>2, <2>1 DEF InTurn, FilesOf, Extended, Fits
  <2> QED BY <2>4, <2>5, <2>6, <2>7 DEF InTurn
<1> QED BY <1>5, <1>6, <1>7 DEF TurnsInv

(* Switches, re-created profiles, extensions that come and go.             *)
LEMMA ChangesTurns ==
  ASSUME ApiInv, NEW s0 \in Session, TurnsInv(s0),
         UNCHANGED vars \/ Invalidate \/ \E p \in Profile : Configure(p)
  PROVE  TurnsInv(s0)'
<1>1. UNCHANGED <<file, handle, cache, req, overlap>> /\ switched \subseteq switched'
  BY DEF vars, Invalidate, Configure
<1>2. Homed(s0)'
  <2>1. Homed(s0)
    BY DEF TurnsInv
  <2>2. \A f : Home(f, s0)' = Home(f, s0)
    BY <1>1 DEF Home
  <2> QED BY <1>1, <2>1, <2>2 DEF Homed, InChild
<1>3. ASSUME NEW t \in Session PROVE Steady(t)'
  <2>1. ProfileOf[t] \in switched' \/ profile'[ProfileOf[t]] = profile[ProfileOf[t]]
    BY ApiAssumption DEF vars, Invalidate, Configure, ApiInv, TypeOK
  <2>2. Steady(t)
    BY DEF TurnsInv
  <2> QED BY <1>1, <2>1, <2>2 DEF Steady, InChild
<1>4. ASSUME NEW t \in Session, Untouched(t)' PROVE InTurn(t)'
  <2>1. InTurn(t)
    BY <1>1, <1>4 DEF Untouched, TurnsInv
  <2> QED BY <1>1, <2>1 DEF InTurn, Works, Active, P, FilesOf, Extended, Fits, Held, InChild
<1> QED BY <1>2, <1>3, <1>4 DEF TurnsInv

LEMMA InitTurns ==
  ASSUME Init
  PROVE  \E s0 \in Session : TurnsInv(s0)
<1>1. PICK s0 \in Session : file = [f \in File |-> IF f = First THEN [session |-> s0, turns |-> <<0>>]
                                               ELSE [session |-> NoRequest, turns |-> <<>>]]
  BY DEF Init
<1>2. /\ \A r \in Request : req[r].at = "new" /\ req[r].s = NoRequest /\ handle[r].session = NoRequest
      /\ \A t \in Session : cache[t] = NoHandle
      /\ NoRequest \notin Session
  BY ApiAssumption DEF Init
<1>3. Homed(s0)
  BY <1>1, <1>2 DEF Homed, Home, InChild
<1>4. \A t \in Session : Steady(t)
  BY <1>2 DEF Steady
<1>5. ASSUME NEW t \in Session PROVE InTurn(t)
  <2>1. \A f \in FilesOf(t) : Extended(f)
    <3>1. \A f \in FilesOf(t) : file[f].turns = <<0>>
      BY <1>1, <1>2 DEF FilesOf
    <3>2. DOMAIN <<0>> = 1..1 /\ <<0>>[1] = 1 - 1
      OBVIOUS
    <3> QED BY <3>1, <3>2 DEF Extended
  <2> QED BY <1>2, <2>1 DEF InTurn, Works, Active, Held
<1> QED BY <1>3, <1>4, <1>5 DEF TurnsInv

(* Each turn of a session extends the one before it in its file, for any   *)
(* number of requests one after the other, of sessions and of profiles:    *)
(* through failures, deletion, re-creation and handles opened again.       *)
THEOREM SequentialTurnsHold == Spec => []SequentialTurnsExtend
<1> DEFINE Turns == \E s0 \in Session : TurnsInv(s0)
<1>1. Init => Turns
  BY InitTurns
<1>2. Turns /\ ApiInv /\ [Next]_vars => Turns'
  <2> SUFFICES ASSUME NEW s0 \in Session, TurnsInv(s0), ApiInv, [Next]_vars PROVE TurnsInv(s0)'
    OBVIOUS
  <2> QED BY BeginTurns, StepTurns, ChangesTurns DEF Next
<1>3. Turns => SequentialTurnsExtend
  BY DEF TurnsInv, Untouched, InTurn, Extended, SequentialTurnsExtend
<1> HIDE DEF Turns
<1> QED BY <1>1, <1>2, <1>3, ApiInvariant, PTL DEF Spec
=============================================================================
