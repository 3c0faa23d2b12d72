------------------------------ MODULE MCProfiles ------------------------------
(* What the profiles' files owe their users, and values for the constants. *)
EXTENDS Profiles, TLC

(* The fields each operation is asked to change.                           *)
FieldsOf(c) ==
  CASE Op_(c) \in {"details", "model", "workflow", "memory"} -> {Op_(c)}
    [] Op_(c) = "package" -> {"packages"}
    [] Op_(c) = "settings" -> {"model", "workflow"}
    [] Op_(c) = "sources" -> Source
    [] Op_(c) \in {"skill", "cli"} -> {"skills"}
    [] OTHER -> {}

(* An edit of the settings that was answered, and that no other call of    *)
(* the profile overlapped, stays until a later call changes the same       *)
(* field, replaces the whole file (PUT settings, whose body may lack it)   *)
(* or removes the profile: the other edits, launches, turns, installations *)
(* and the CLI, each with its own code to rewrite the file, keep the rest  *)
(* of it.                                                                  *)
SettledEditsSurvive ==
  \A c \in Call : LET p == P(c) IN
    ( /\ At(c, "done") /\ c \notin disturbed /\ Readable(p) /\ ~(Op_(c) = "package" /\ p # Main)
      /\ \A d \in Call : ~(Op_(d) \in {"create", "clone", "delete"} /\ P(d) = p /\ c \in call[d].before) )
    => \A f \in FieldsOf(c) : file[p].by[f] = c \/ (file[p].by[f] # Nobody /\ c \in call[file[p].by[f]].before)
                              \/ \E d \in Call : Op_(d) = "settings" /\ P(d) = p /\ c \in call[d].before

(* A publication that was answered "published" or "unchanged" did reach    *)
(* the repository, whatever other publications of the source were under    *)
(* way: they share one clone.  (A plain synchronization may reset it.)     *)
PublishedIsPushed ==
  \A c \in Call : (work[c].answer \in {"published", "unchanged"} /\ c \notin reset) => work[c].v \in pushed[G(c)][K(c)]

(* What a person's session stored under that person's identity is shown to *)
(* no other person, however the configuration is switched meanwhile.       *)
PersonalFactsStayPersonal ==
  \A c \in Call, d \in Call :
    (Op_(c) = "turn" /\ Op_(d) = "turn" /\ d \in turn[c].snapshot.personal /\ turn[d].target = "identity") => Who(d) = Who(c)

(* OPERATIONAL.md and PROFILE.md keep within their limits.                 *)
KeptWithinLimits ==
  \A x \in Path : x[1] # "user" => Cardinality(memory[x]) <= Limit[x[1]]

(* "Profile and identity memory are limited to 1,375 characters"           *)
(* (README.md:345).                                                        *)
MemoryWithinLimits == \A x \in Path : Cardinality(memory[x]) <= Limit[x[1]]

(* A launch that nothing disturbs runs with the sandbox, the policy file   *)
(* and the skills that the profile's settings name, whatever edits that    *)
(* refresh only a part of them came before.                                *)
LaunchFollowsSettings ==
  \A c \in Call : LET p == P(c) IN
    ( /\ Op_(c) = "launch" /\ At(c, "done") /\ p # Main /\ Readable(p)
      /\ \A d \in Call \ {c} : At(d, "new") \/ d \in call[c].before )
    => /\ call[c].s.sandbox = file[p].sandbox
       /\ file[p].sandbox => nono[p] \in {Admin, file[p].sources}
       /\ file[p].skills = SkillPaths(p, file[p])

(* The types hold, memory keeps within its limits and with its owner,      *)
(* launches obey the settings, and what was published was pushed.          *)
Inv == TypeOK /\ KeptWithinLimits /\ PersonalFactsStayPersonal /\ LaunchFollowsSettings /\ PublishedIsPushed

CONSTANTS main, p1, p2, k1, g1, r1, r2, r3, app1, app2, key
People == {<<app1, key>>, <<app2, key>>}
Limits == [operational |-> 1, profile |-> 1, user |-> 1]
On(op, p, arg) == [op |-> op, p |-> p, arg |-> arg]
Set(field, arg) == On(field, p1, arg)
AtSkill(op, p, x, on) == On(op, p, [k |-> k1, x |-> x, on |-> on])
Off(op) == AtSkill(op, p1, "shared", FALSE)
Turned(who, tool, action) == On("turn", p1, [who |-> who, tool |-> tool, action |-> action, fresh |-> action # "none"])
OfRepo(op, p, edit, confirm) == On(op, p, [g |-> g1, k |-> k1, edit |-> edit, confirm |-> confirm])
From(op, p) == OfRepo(op, p, FALSE, TRUE)
a1 == <<app1, key>>
a2 == <<app2, key>>
Three(a, b, c) == (r1 :> a) @@ (r2 :> b) @@ (r3 :> c)
Launching == Set("launch", {})

(* Groups of calls that are made together, one per meeting worth checking. *)
Mixed == {
  Three(Set("sources", {"shared", "own"}), Off("skill"), Launching),
  Three(Set("sources", {"own"}), AtSkill("delete skill", p1, "own", FALSE), Launching),
  Three(Set("model", {}), Off("cli"), Launching),
  Three(On("package", main, {}), Set("workflow", {}), Launching),
  Three(AtSkill("cli", p1, "shared", TRUE), Off("delete skill"), AtSkill("delete skill", main, "shared", FALSE)),
  Three(Set("create", {}), On("clone", p1, p2), Set("delete", {})),
  Three(On("clone", p1, p2), Set("details", {}), On("delete", p2, {})),
  Three(Set("settings", {}), Set("workflow", {}), Set("delete", {})),
  Three(Set("create", {}), Set("details", {}), On("details", main, {})),
  Three(Set("delete", {}), Set("delete", {}), Launching),
  Three(Set("settings", {}), Set("sources", {"own"}), Turned(a1, "none", "insert")),
  Three(Set("memory", "identity"), Turned(a1, "personal", "insert"), Turned(a2, "none", "insert")),
  Three(Set("memory", "handler"), Turned(a1, "personal", "insert"), Turned(Stranger, "none", "insert")),
  Three(Set("put memory", "operational"), Turned(a1, "operational", "insert"), Turned(a1, "operational", "delete")),
  Three(Set("put memory", "profile"), Turned(a1, "personal", "insert"), Turned(a2, "personal", "replace")),
  Three(OfRepo("publish", p1, FALSE, FALSE), OfRepo("publish", p1, TRUE, TRUE), From("publish", p1)),
  Three(OfRepo("publish", p1, TRUE, TRUE), From("sync", p1), From("upstream", p1)),
  Three(From("sync", p1), From("install", p1), From("resync", p1)),
  Three(From("resync", p1), OfRepo("publish", p1, TRUE, TRUE), AtSkill("delete skill", p1, "own", FALSE)),
  Three(AtSkill("delete skill", main, "shared", FALSE), AtSkill("delete skill", main, "shared", FALSE), From("publish", main)),
  Three(From("publish", main), From("resync", main), From("upstream", main))}

(* What no call of a group looks at starts in one state only: repositories *)
(* without calls about them, a profile to clone, and in turns skills and an administrator's    *)
(* policy.                                                                 *)
Start ==
  LET ops == {Op_(c) : c \in Call} IN
  /\ Init
  /\ p2 \in dirs <=> "clone" \in ops
  /\ ops \cap {"sync", "publish", "install", "resync", "upstream"} = {} => \A g \in Repo, k \in Skill : remote[g][k] = Seed
  /\ ops \cap {"turn", "put memory"} # {} =>
       \A p \in Profile : nono[p] # Admin /\ \A k \in Skill : skills[p][k] = Seed <=> p \in dirs
MCSpec == Start /\ [][Next]_vars

(* One person's sessions store two facts while the profile keeps memory    *)
(* by identity.                                                            *)
Remembered == {Three(Set("memory", "identity"), Turned(a1, "personal", "insert"), Turned(a1, "personal", "insert"))}
=============================================================================
