----------------------------- MODULE ProfileStore -----------------------------
(***************************************************************************)
(* The settings of profiles (api-server/profile-store.ts) and the          *)
(* processes that share the files without a lock: requests of the API      *)
(* server, the CLI (cli-resources.ts) and launches (profiles.ts).  Each    *)
(* reads settings.json, changes its copy, looks at the skill directories,  *)
(* truncates the file and writes it: calls interleave at every step.       *)
(* Modules that extend this one add steps of their own to the same calls.  *)
(* A definition commented "mutant" is the faulty form of the next.         *)
(***************************************************************************)
EXTENDS FiniteSets

CONSTANTS
  Call, Nobody,
  Profile, Main,   \* Main is "default", the runtime that owns the shared skills
  Skill, Star,     \* Star is "*", which an absent policy means too
  NoFile, Torn,    \* settings.json missing, or truncated and not yet written
  Seed, NoSkill,   \* contents of a skill directory: the first, none
  Asks             \* the calls that may be made together: operation, profile, argument of each

Op == {"details", "model", "workflow", "package", "settings", "memory", "sources", "skill", "cli", "delete skill",
       "create", "clone", "delete", "launch", "turn", "put memory", "sync", "publish", "install", "resync", "upstream"}

ASSUME StoreAssumption ==
  /\ Nobody \notin Call /\ Main \in Profile /\ Star \notin Skill
  /\ NoFile # Torn /\ Seed # NoSkill /\ {Seed, NoSkill} \cap Call = {}
  /\ \A a \in Asks, c \in Call : a[c].op \in Op /\ a[c].p \in Profile

VARIABLES
  dirs,      \* profile directories
  file,      \* settings.json of each
  skills,    \* content of each profile's skill directories; Main's are the shared ones
  nono,      \* nono.json: the sources it lets the sandbox read, NoFile, or an administrator's
  call,
  disturbed  \* history: calls that overlapped another one of their profile

store == <<dirs, file, skills, nono, call, disturbed>>

Source == {"shared", "own"}
Field == {"details", "model", "workflow", "packages", "memory", "shared", "own", "skills"}
Inside == {"details", "memory", "shared", "own", "skills"}   \* those under the key "profile"
Mode == {"unset", "none", "profile", "identity", "handler"}
Content == {Seed, NoSkill} \cup Call
Settings == [by : [Field -> Call \cup {Nobody}],    \* who set each field
             memory : Mode, sources : SUBSET Source, policy : [Source -> SUBSET (Skill \cup {Star})],
             skills : SUBSET (Profile \X Skill), sandbox : BOOLEAN]
Admin == Star   \* a policy file that "ensure" does not manage
Ended == {"done", "failed"}

StoreTypeOK ==
  /\ dirs \in SUBSET Profile
  /\ file \in [Profile -> Settings \cup {NoFile, Torn}]
  /\ skills \in [Profile -> [Skill -> Content]]
  /\ nono \in [Profile -> (SUBSET Source) \cup {NoFile, Admin}]
  /\ \A c \in Call : /\ DOMAIN call[c] = {"at", "op", "p", "arg", "s", "before"}
                     /\ call[c].s \in Settings /\ call[c].p \in Profile /\ call[c].before \subseteq Call
  /\ disturbed \in SUBSET Call
  /\ \A p \in Profile : (p # Main /\ file[p] \notin {NoFile, Torn}) => file[p].by["packages"] = Nobody

Blank == [by |-> [f \in Field |-> Nobody], memory |-> "unset", sources |-> {"shared"},
          policy |-> [x \in Source |-> {Star}], skills |-> {}, sandbox |-> FALSE]

StoreInit ==
  /\ dirs \in {D \in SUBSET Profile : Main \in D}
  /\ \E X \in {{"shared"}, Source} :
       file = [p \in Profile |-> IF p \notin dirs THEN NoFile ELSE IF p = Main THEN Blank
                                 ELSE [Blank EXCEPT !.sandbox = TRUE, !.sources = X]]
  /\ skills \in {S \in [Profile -> [Skill -> {Seed, NoSkill}]] : \A p \in Profile \ dirs, k \in Skill : S[p][k] = NoSkill}
  /\ \E a \in BOOLEAN : nono = [p \in Profile |-> IF p \notin dirs \/ p = Main THEN NoFile
                                                  ELSE IF a THEN Admin ELSE file[p].sources]
  /\ \E a \in Asks : call = [c \in Call |-> [at |-> "new", op |-> a[c].op, p |-> a[c].p, arg |-> a[c].arg,
                                            s |-> Blank, before |-> {}]]
  /\ disturbed = {}

At(c, a) == call[c].at = a
Op_(c) == call[c].op
P(c) == call[c].p
Goes(c, a) == call' = [call EXCEPT ![c].at = a]
Active(c) == call[c].at \notin {"new"} \cup Ended
Readable(p) == file[p] \notin {NoFile, Torn}

(* The step an operation begins with.                                      *)
FirstStep(op) ==
  CASE op \in {"create", "clone"} -> "exists"
    [] op \in {"skill", "delete skill", "cli"} -> "find"
    [] op = "turn" -> "ensure"
    [] op = "put memory" -> "put"
    [] op = "launch" -> "launch"
    [] op = "settings" -> "paths"
    [] op = "sync" -> "fetch"
    [] op \in {"publish", "resync", "install", "upstream"} -> op
    [] OTHER -> "read"

By(s, F, c) == [s EXCEPT !.by = [f \in Field |-> IF f \in F THEN c ELSE @[f]]]
(* The body of PUT settings is the whole new file: what the client thinks  *)
(* of, or what it has read, with another model and workflow.               *)
Bodies(c) ==
  IF Op_(c) # "settings" THEN {call[c].s}
  ELSE {By(s, {"model", "workflow"}, c) : s \in {Blank} \cup (IF Readable(P(c)) THEN {file[P(c)]} ELSE {})}

Begin(c) ==
  /\ At(c, "new")
  /\ LET over == {d \in Call \ {c} : Active(d) /\ P(d) = P(c)} IN
     disturbed' = IF over = {} THEN disturbed ELSE disturbed \cup over \cup {c}
  /\ \E body \in Bodies(c) :
       call' = [call EXCEPT ![c].at = FirstStep(Op_(c)), ![c].s = body, ![c].before = {d \in Call : call[d].at \in Ended}]
  /\ UNCHANGED <<dirs, file, skills, nono>>

-----------------------------------------------------------------------------
(* Which skills a profile sees, and which of them are enabled.             *)
Sources(p, s) == IF p = Main THEN {"shared"} ELSE s.sources
Base(p, x) == IF x = "shared" THEN Main ELSE p
In(p, x) == {k \in Skill : skills[Base(p, x)][k] # NoSkill}
SkillEnabled(s, x, k) == s.policy[x] \cap {Star, k} # {}
SkillPaths(p, s) ==
  UNION {{<<Base(p, x), k>> : k \in {j \in In(p, x) : SkillEnabled(s, x, j)}} : x \in Sources(p, s)}

(* setResource: a wildcard becomes the names that are there now.           *)
Selected(p, s, x) == IF Star \in s.policy[x] THEN In(p, x) ELSE s.policy[x]
Toggled(p, s, x, k, on) == IF on THEN Selected(p, s, x) \cup {k} ELSE Selected(p, s, x) \ {k}
(* The CLI leaves a wildcard alone when it enables.                        *)
CliToggled(p, s, x, k, on) == IF on /\ Star \in s.policy[x] THEN s.policy[x] ELSE Toggled(p, s, x, k, on)

RefreshedAnew(s, c) == [By(s, {"own"}, c) EXCEPT !.sources = {"shared", "own"}, !.by["shared"] = Nobody]   \* mutant
Refreshed(s, c) == [By(s, {"own"}, c) EXCEPT !.sources = @ \cup {"own"}]
Dropped(p, s) == IF p = Main THEN s ELSE [s EXCEPT !.by["packages"] = Nobody]

(* A shared skill is not deleted from a named profile, only disabled.      *)
OnlyDisabled(c) == call[c].arg.x = "shared" /\ P(c) # Main
(* What an operation makes of the settings it read.                        *)
Edited(c, s) ==
  LET op == Op_(c)  a == call[c].arg IN
  CASE op \in {"details", "model", "workflow"} -> By(s, {op}, c)
    [] op = "package" -> By(s, {"packages"}, c)
    [] op = "memory" -> [By(s, {"memory"}, c) EXCEPT !.memory = a]
    [] op = "sources" -> [By(s, Source, c) EXCEPT !.sources = a]
    [] op = "skill" -> [By(s, {"skills"}, c) EXCEPT !.policy[a.x] = Toggled(P(c), s, a.x, a.k, a.on)]
    [] op = "cli" -> [By(s, {"skills"}, c) EXCEPT !.policy[a.x] = CliToggled(P(c), s, a.x, a.k, a.on)]
    [] op = "delete skill" /\ OnlyDisabled(c) ->
         [By(s, {"skills"}, c) EXCEPT !.policy["shared"] = Toggled(P(c), s, "shared", a.k, FALSE)]
    [] op \in {"delete skill", "install", "resync", "publish"} -> IF P(c) = Main THEN s ELSE Refreshed(s, c)
    [] OTHER -> s

(* The skill a call is about must be visible.                              *)
Visible(c, x, k) == Readable(P(c)) /\ x \in Sources(P(c), file[P(c)]) /\ k \in In(P(c), x)
Find(c) ==
  /\ At(c, "find")
  /\ LET a == call[c].arg IN
     IF ~Visible(c, a.x, a.k) THEN Goes(c, "failed")
     ELSE IF Op_(c) # "delete skill" THEN Goes(c, "read")
     ELSE IF OnlyDisabled(c) THEN Goes(c, "read")
     ELSE Goes(c, "rm skill")
  /\ UNCHANGED <<dirs, file, skills, nono, disturbed>>

RemoveSkill(c) ==
  /\ At(c, "rm skill")
  /\ LET b == Base(P(c), call[c].arg.x)  k == call[c].arg.k IN
     IF skills[b][k] = NoSkill THEN Goes(c, "failed") /\ UNCHANGED skills
     ELSE Goes(c, "read") /\ skills' = [skills EXCEPT ![b][k] = NoSkill]
  /\ UNCHANGED <<dirs, file, nono, disturbed>>

(* Read and edit: a truncated file is no JSON, a missing one no profile;   *)
(* the CLI takes a missing one for empty, a deletion only wants it there.  *)
Read(c) ==
  /\ At(c, "read")
  /\ LET p == P(c) IN
     IF file[p] = Torn \/ (file[p] = NoFile /\ Op_(c) # "cli" /\ p # Main) \/ (Op_(c) \in {"sources", "delete"} /\ p = Main)
     THEN Goes(c, "failed")
     ELSE IF Op_(c) = "delete" THEN Goes(c, "rm")
     ELSE call' = [call EXCEPT ![c].at = IF Op_(c) = "cli" THEN "open" ELSE "paths",
                               ![c].s = Edited(c, IF file[p] = NoFile THEN Blank ELSE file[p])]
  /\ UNCHANGED <<dirs, file, skills, nono, disturbed>>

(* A failed creation removes the directory, whoever made it.               *)
Undone(c) ==
  IF Op_(c) \notin {"create", "clone"} THEN UNCHANGED <<dirs, file, skills, nono>>
  ELSE /\ dirs' = dirs \ {P(c)} /\ file' = [file EXCEPT ![P(c)] = NoFile]
       /\ skills' = [skills EXCEPT ![P(c)] = [k \in Skill |-> NoSkill]]
       /\ nono' = [nono EXCEPT ![P(c)] = NoFile]

(* materializeResources, or sharedResources at a launch, which does not    *)
(* mind the default profile's settings.                                    *)
Materialize(c) ==
  /\ At(c, "paths")
  /\ LET p == P(c) IN
     IF p # Main /\ file[Main] = Torn /\ Op_(c) # "launch" THEN Goes(c, "failed") /\ Undone(c)
     ELSE /\ call' = [call EXCEPT ![c].at = "open",
                                  ![c].s = [Dropped(p, call[c].s) EXCEPT !.skills = SkillPaths(p, call[c].s)]]
          /\ UNCHANGED <<dirs, file, skills, nono>>
  /\ UNCHANGED disturbed

(* writeFile truncates first.  The API makes the directory before.         *)
Open(c) ==
  /\ At(c, "open")
  /\ LET p == P(c) IN
     IF Op_(c) \in {"cli", "launch"} /\ p \notin dirs THEN Goes(c, "failed") /\ UNCHANGED <<dirs, file>>
     ELSE Goes(c, "write") /\ dirs' = dirs \cup {p} /\ file' = [file EXCEPT ![p] = Torn]
  /\ UNCHANGED <<skills, nono, disturbed>>

(* A file that another call wrote meanwhile keeps its tail when it is the  *)
(* longer one; one that was deleted stays deleted.                         *)
AfterWrite(op) == IF op \in {"create", "clone", "sources"} THEN "policy" ELSE IF op = "launch" THEN "sandbox" ELSE "done"
Write(c) ==
  /\ At(c, "write")
  /\ LET p == P(c) IN
     IF file[p] = NoFile THEN UNCHANGED file
     ELSE \E f \in {call[c].s} \cup (IF file[p] = Torn THEN {} ELSE {Torn}) : file' = [file EXCEPT ![p] = f]
  /\ Goes(c, AfterWrite(Op_(c)))
  /\ UNCHANGED <<dirs, skills, nono, disturbed>>

(* ensureProfileSandbox asks for nono, takes the sources from the settings *)
(* it finds, or from none, writes the policy unless an administrator did,  *)
(* and has it validated.                                                   *)
Policy(c) ==
  /\ At(c, "policy")
  /\ \/ Goes(c, "failed") /\ Undone(c)
     \/ /\ call' = [call EXCEPT ![c].at = "nono", ![c].s.sources = IF Readable(P(c)) THEN file[P(c)].sources ELSE Blank.sources]
        /\ UNCHANGED <<dirs, file, skills, nono>>
  /\ UNCHANGED disturbed

WritePolicy(c) ==
  /\ At(c, "nono")
  /\ \/ Goes(c, "failed") /\ Undone(c)
     \/ \E end \in IF Op_(c) \in {"create", "clone"} THEN {"done"} ELSE Ended :
          /\ Goes(c, end)
          /\ nono' = [nono EXCEPT ![P(c)] = IF @ = Admin THEN @ ELSE call[c].s.sources]
          /\ dirs' = IF nono[P(c)] = NoFile THEN dirs \cup {P(c)} ELSE dirs
          /\ UNCHANGED <<file, skills>>
  /\ UNCHANGED disturbed

-----------------------------------------------------------------------------
(* Creation looks for the directory; a clone reads its source, a named     *)
(* profile, before it makes anything, a fresh profile the default one's    *)
(* settings, if it can.                                                    *)
Exists(c) ==
  /\ At(c, "exists")
  /\ LET q == call[c].arg IN
     IF P(c) \in dirs \/ (Op_(c) = "clone" /\ (q = Main \/ ~Readable(q))) THEN Goes(c, "failed")
     ELSE call' = [call EXCEPT ![c].at = "mkdir", ![c].s = IF Op_(c) = "clone" THEN file[q] ELSE Blank]
  /\ UNCHANGED <<dirs, file, skills, nono, disturbed>>

Fresh(c) ==
  LET s == IF Readable(Main) THEN file[Main] ELSE Blank IN
  [Blank EXCEPT !.by = [f \in Field |-> IF f \in Inside \cup {"packages"} THEN Nobody ELSE s.by[f]]]

(* The copying of a clone may fail.                                        *)
MakeDirectory(c) ==
  /\ At(c, "mkdir")
  /\ LET q == call[c].arg  clone == Op_(c) = "clone"  s == IF clone THEN call[c].s ELSE Fresh(c) IN
     \/ Goes(c, "failed") /\ Undone(c)
     \/ /\ dirs' = dirs \cup {P(c)}
        /\ skills' = IF ~clone THEN skills
                     ELSE [skills EXCEPT ![P(c)] = [k \in Skill |-> IF @[k] = NoSkill THEN skills[q][k] ELSE @[k]]]
        /\ call' = [call EXCEPT ![c].at = "paths", ![c].s = [By(s, {"details"}, c) EXCEPT !.sandbox = TRUE]]
        /\ UNCHANGED <<file, nono>>
  /\ UNCHANGED disturbed

Remove(c) ==
  /\ At(c, "rm")
  /\ IF P(c) \notin dirs THEN Goes(c, "failed") /\ UNCHANGED <<dirs, file, skills, nono>>
     ELSE /\ Goes(c, "done") /\ dirs' = dirs \ {P(c)} /\ file' = [file EXCEPT ![P(c)] = NoFile]
          /\ skills' = [skills EXCEPT ![P(c)] = [k \in Skill |-> NoSkill]]
          /\ nono' = [nono EXCEPT ![P(c)] = NoFile]
  /\ UNCHANGED disturbed

(* A launch of a named profile rewrites its settings, asks whether it is   *)
(* sandboxed (an unreadable file says no) and refreshes the policy; every  *)
(* launch needs the default profile's settings, if there are any.          *)
Launch(c) ==
  /\ At(c, "launch")
  /\ Goes(c, IF P(c) = Main THEN IF file[Main] = Torn THEN "failed" ELSE "done" ELSE IF file[P(c)] = NoFile THEN "failed" ELSE "read")
  /\ UNCHANGED <<dirs, file, skills, nono, disturbed>>

Sandbox(c) ==
  /\ At(c, "sandbox")
  /\ LET on == Readable(P(c)) /\ file[P(c)].sandbox IN
     call' = [call EXCEPT ![c].at = IF file[Main] = Torn THEN "failed" ELSE IF on THEN "policy" ELSE "done",
                          ![c].s.sandbox = on]
  /\ UNCHANGED <<dirs, file, skills, nono, disturbed>>

StoreStep(c) ==
  \/ Begin(c) \/ Find(c) \/ RemoveSkill(c) \/ Read(c) \/ Materialize(c) \/ Open(c) \/ Write(c)
  \/ Policy(c) \/ WritePolicy(c) \/ Exists(c) \/ MakeDirectory(c) \/ Remove(c) \/ Launch(c) \/ Sandbox(c)
=============================================================================
