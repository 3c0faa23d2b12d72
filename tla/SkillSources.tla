----------------------------- MODULE SkillSources -----------------------------
(***************************************************************************)
(* Skill sources (skill-sources/store.ts): Git repositories that are       *)
(* mirrored, and whose skills are installed into profiles, updated there   *)
(* and published back.  Publications of one source take turns; plain       *)
(* synchronizations of it do not, and reset the clone they share.  The     *)
(* calls are those of ProfileStore.                                        *)
(* A definition commented "mutant" is the faulty form of the next.         *)
(***************************************************************************)
EXTENDS ProfileStore

CONSTANT Repo

VARIABLES
  remote,      \* each repository's skills upstream
  clone,       \* .git-cache: working tree, local head and what was fetched
  mirror,      \* the copy of the tree that skills are installed from
  rows,        \* skill_source_skills: content, and whether it was seen
  inst,        \* skill_source_installations: repository and content
  publishing,  \* the last publication queued per source
  work,        \* locals of each call
  pushed,      \* history: what each remote skill ever was
  reset        \* history: publications during which another call reset the clone

sources == <<remote, clone, mirror, rows, inst, publishing, work, pushed, reset>>

Tree == [Skill -> Content]
NoTree == [k \in Skill |-> NoSkill]
NoInst == [repo |-> Nobody, v |-> NoSkill]
Answer == {"none", "published", "unchanged", "confirm"}

SourcesTypeOK ==
  /\ remote \in [Repo -> Tree] /\ mirror \in [Repo -> Tree]
  /\ clone \in [Repo -> [tree : Tree, head : Tree, origin : Tree]]
  /\ rows \in [Repo -> [Skill -> [v : Content, on : BOOLEAN]]]
  /\ inst \in [Profile -> [Skill -> [repo : Repo \cup {Nobody}, v : Content]]]
  /\ publishing \in [Repo -> Call \cup {Nobody}]
  /\ work \in [Call -> [wait : Call \cup {Nobody}, had : BOOLEAN, again : BOOLEAN, v : Content, old : Content, answer : Answer]]
  /\ pushed \in [Repo -> [Skill -> SUBSET Content]] /\ reset \in SUBSET Call

SourcesInit ==
  /\ remote \in [Repo -> [Skill -> {Seed, NoSkill}]]
  /\ clone = [g \in Repo |-> [tree |-> NoTree, head |-> NoTree, origin |-> NoTree]]
  /\ mirror = [g \in Repo |-> NoTree]
  /\ rows = [g \in Repo |-> [k \in Skill |-> [v |-> NoSkill, on |-> FALSE]]]
  /\ inst = [p \in Profile |-> [k \in Skill |-> NoInst]]
  /\ publishing = [g \in Repo |-> Nobody]
  /\ work = [c \in Call |-> [wait |-> Nobody, had |-> FALSE, again |-> FALSE, v |-> NoSkill, old |-> NoSkill, answer |-> "none"]]
  /\ pushed = [g \in Repo |-> [k \in Skill |-> {remote[g][k]}]]
  /\ reset = {}

G(c) == call[c].arg.g
K(c) == call[c].arg.k
Publishing(c) ==      \* between the queue and the refresh of the profile
  Op_(c) = "publish" /\ call[c].at \in {"queued", "fetch", "clear", "copy", "scan", "plan", "replace", "commit", "push", "record"}
Quiet == UNCHANGED <<dirs, file, nono, disturbed>>

ReleasedAlways(c) == IF Op_(c) = "publish" THEN [publishing EXCEPT ![G(c)] = Nobody] ELSE publishing   \* mutant
Released(c) == IF Op_(c) = "publish" /\ publishing[G(c)] = c THEN [publishing EXCEPT ![G(c)] = Nobody] ELSE publishing

Stop(c, a) == Goes(c, a) /\ publishing' = Released(c)
(* What was not merely asked to be confirmed ends with a refreshSkills.    *)
Answers(c, a) == Stop(c, IF a = "confirm" THEN "done" ELSE "read") /\ work' = [work EXCEPT ![c].answer = a]
Home(p) == IF p = Main THEN "shared" ELSE "own"

(* sync: fetch and reset the clone, replace the mirror by its tree, and    *)
(* list what is there.  Each part may fail, and leaves what it did.        *)
Fetch(c) ==
  /\ At(c, "fetch")
  /\ \/ Stop(c, "failed") /\ UNCHANGED <<clone, reset>>
     \/ /\ \/ Goes(c, "clear") /\ UNCHANGED publishing
           \/ Stop(c, "failed")
        /\ LET t == remote[G(c)] IN clone' = [clone EXCEPT ![G(c)] = [tree |-> t, head |-> t, origin |-> t]]
        /\ reset' = reset \cup IF Op_(c) = "publish" THEN {} ELSE {d \in Call : Publishing(d) /\ G(d) = G(c)}
  /\ Quiet /\ UNCHANGED <<skills, remote, mirror, rows, inst, work, pushed>>

Clear(c) ==
  /\ At(c, "clear") /\ Goes(c, "copy")
  /\ mirror' = [mirror EXCEPT ![G(c)] = NoTree]
  /\ Quiet /\ UNCHANGED <<skills, remote, clone, rows, inst, publishing, work, pushed, reset>>

Copy(c) ==
  /\ At(c, "copy")
  /\ LET t == clone[G(c)].tree IN
     \/ Goes(c, "scan") /\ UNCHANGED publishing /\ mirror' = [mirror EXCEPT ![G(c)] = t]
     \/ /\ Stop(c, "failed")
        /\ \E X \in SUBSET Skill : mirror' = [mirror EXCEPT ![G(c)] = [k \in Skill |-> IF k \in X THEN t[k] ELSE @[k]]]
  /\ Quiet /\ UNCHANGED <<skills, remote, clone, rows, inst, work, pushed, reset>>

AfterSync(c) ==
  CASE Op_(c) = "resync" -> "take"
    [] Op_(c) = "publish" -> IF work[c].again THEN "record" ELSE "plan"
    [] OTHER -> "done"
Scan(c) ==
  /\ At(c, "scan")
  /\ \/ Stop(c, "failed") /\ UNCHANGED rows
     \/ /\ Goes(c, AfterSync(c)) /\ UNCHANGED publishing
        /\ rows' = [rows EXCEPT ![G(c)] = [k \in Skill |-> LET v == mirror[G(c)][k] IN
                      IF v # NoSkill THEN [v |-> v, on |-> TRUE] ELSE [@[k] EXCEPT !.on = FALSE]]]
  /\ Quiet /\ UNCHANGED <<skills, remote, clone, mirror, inst, work, pushed, reset>>

(* publish: wait for the one queued before, look at the installation,      *)
(* synchronize, replace the skill in the clone, commit and push it, and    *)
(* synchronize again.  The user may have edited the skill before.          *)
Publish(c) ==
  /\ At(c, "publish")
  /\ IF ~Visible(c, Home(P(c)), K(c)) THEN Goes(c, "failed") /\ UNCHANGED <<skills, publishing, work>>
     ELSE /\ Goes(c, "queued")
          /\ work' = [work EXCEPT ![c].wait = publishing[G(c)]]
          /\ publishing' = [publishing EXCEPT ![G(c)] = c]
          /\ skills' = IF call[c].arg.edit THEN [skills EXCEPT ![P(c)][K(c)] = c] ELSE skills
  /\ Quiet /\ UNCHANGED <<remote, clone, mirror, rows, inst, pushed, reset>>

Turn(c) ==
  /\ At(c, "queued")
  /\ work[c].wait \in {Nobody} \cup {d \in Call : ~Publishing(d)}
  /\ LET i == inst[P(c)][K(c)] IN
     IF skills[P(c)][K(c)] = NoSkill \/ i.repo \notin {Nobody, G(c)} THEN Stop(c, "failed") /\ UNCHANGED work
     ELSE Goes(c, "fetch") /\ work' = [work EXCEPT ![c].had = (i # NoInst)] /\ UNCHANGED publishing
  /\ Quiet /\ UNCHANGED <<skills, remote, clone, mirror, rows, inst, pushed, reset>>

Plan(c) ==
  /\ At(c, "plan")
  /\ LET existing == rows[G(c)][K(c)].on IN
     IF work[c].had /\ ~existing THEN Stop(c, "failed") /\ UNCHANGED work
     ELSE IF existing /\ ~call[c].arg.confirm THEN Answers(c, "confirm")
     ELSE Goes(c, "replace") /\ UNCHANGED <<publishing, work>>
  /\ Quiet /\ UNCHANGED <<skills, remote, clone, mirror, rows, inst, pushed, reset>>

Replace(c) ==
  /\ At(c, "replace")
  /\ LET v == skills[P(c)][K(c)] IN
     \/ Stop(c, "failed") /\ UNCHANGED <<clone, work>>
     \/ /\ v # NoSkill /\ Goes(c, "commit") /\ UNCHANGED publishing
        /\ clone' = [clone EXCEPT ![G(c)].tree[K(c)] = v] /\ work' = [work EXCEPT ![c].v = v]
  /\ Quiet /\ UNCHANGED <<skills, remote, mirror, rows, inst, pushed, reset>>

(* git add, status and commit.                                             *)
Commit(c) ==
  /\ At(c, "commit")
  /\ LET r == clone[G(c)] IN
     \/ Stop(c, "failed") /\ UNCHANGED <<clone, work>>
     \/ r.tree[K(c)] = r.head[K(c)] /\ Answers(c, "unchanged") /\ UNCHANGED clone
     \/ /\ r.tree[K(c)] # r.head[K(c)] /\ Goes(c, "push") /\ UNCHANGED <<publishing, work>>
        /\ clone' = [clone EXCEPT ![G(c)].head[K(c)] = r.tree[K(c)]]
  /\ Quiet /\ UNCHANGED <<skills, remote, mirror, rows, inst, pushed, reset>>

(* A push of a head that was reset pushes nothing, and succeeds.           *)
Push(c) ==
  /\ At(c, "push")
  /\ LET r == clone[G(c)] IN
     \/ Stop(c, "failed") /\ UNCHANGED <<remote, clone, work, pushed>>
     \/ /\ remote[G(c)] = r.origin
        /\ remote' = [remote EXCEPT ![G(c)] = r.head] /\ clone' = [clone EXCEPT ![G(c)].origin = r.head]
        /\ pushed' = [pushed EXCEPT ![G(c)] = [k \in Skill |-> @[k] \cup {r.head[k]}]]
        /\ work' = [work EXCEPT ![c].again = TRUE] /\ Goes(c, "fetch") /\ UNCHANGED publishing
  /\ Quiet /\ UNCHANGED <<skills, mirror, rows, inst, reset>>

Record(c) ==
  /\ At(c, "record") /\ Answers(c, "published")
  /\ inst' = IF rows[G(c)][K(c)].v = NoSkill THEN inst
             ELSE [inst EXCEPT ![P(c)][K(c)] = [repo |-> G(c), v |-> rows[G(c)][K(c)].v]]
  /\ Quiet /\ UNCHANGED <<skills, remote, clone, mirror, rows, pushed, reset>>

(* install copies into a place that was free when it looked, and records   *)
(* the row it found.                                                       *)
Install(c) ==
  /\ At(c, "install")
  /\ LET r == rows[G(c)][K(c)] IN
     IF ~Readable(P(c)) \/ ~r.on \/ skills[P(c)][K(c)] # NoSkill THEN Goes(c, "failed") /\ UNCHANGED work
     ELSE Goes(c, "copy in") /\ work' = [work EXCEPT ![c].old = r.v]
  /\ Quiet /\ UNCHANGED <<skills, remote, clone, mirror, rows, inst, publishing, pushed, reset>>

CopyIn(c) ==
  /\ At(c, "copy in")
  /\ LET v == mirror[G(c)][K(c)] IN
     \/ Goes(c, "failed") /\ UNCHANGED <<skills, inst>>
     \/ /\ v # NoSkill /\ Goes(c, "read") /\ skills' = [skills EXCEPT ![P(c)][K(c)] = v]
        /\ inst' = [inst EXCEPT ![P(c)][K(c)] = [repo |-> G(c), v |-> work[c].old]]
  /\ Quiet /\ UNCHANGED <<remote, clone, mirror, rows, publishing, work, pushed, reset>>

(* syncInstallation moves the skill aside and the mirror's copy into its   *)
(* place; what fails meanwhile puts the old one back.                      *)
Resync(c) ==
  /\ At(c, "resync")
  /\ Goes(c, IF inst[P(c)][K(c)].repo # G(c) \/ ~Visible(c, Home(P(c)), K(c)) THEN "failed" ELSE "fetch")
  /\ Quiet /\ UNCHANGED <<skills, sources>>

Take(c) ==
  /\ At(c, "take")
  /\ LET v == mirror[G(c)][K(c)] IN
     \/ Goes(c, "failed") /\ UNCHANGED <<skills, work>>
     \/ /\ v # NoSkill /\ Goes(c, "place") /\ work' = [work EXCEPT ![c].v = v, ![c].old = skills[P(c)][K(c)]]
        /\ skills' = [skills EXCEPT ![P(c)][K(c)] = NoSkill]
  /\ Quiet /\ UNCHANGED <<remote, clone, mirror, rows, inst, publishing, pushed, reset>>

PutBack(c, v) == IF v = NoSkill THEN work[c].old ELSE v
Place(c) ==
  /\ At(c, "place")
  /\ LET now == skills[P(c)][K(c)] IN
     \/ /\ Goes(c, "failed") /\ UNCHANGED inst
        /\ skills' = [skills EXCEPT ![P(c)][K(c)] = PutBack(c, now)]
     \/ /\ now = NoSkill /\ Goes(c, "read")
        /\ skills' = [skills EXCEPT ![P(c)][K(c)] = work[c].v]
        /\ inst' = IF inst[P(c)][K(c)] = NoInst THEN inst
                   ELSE [inst EXCEPT ![P(c)][K(c)].v = rows[G(c)][K(c)].v]
  /\ Quiet /\ UNCHANGED <<remote, clone, mirror, rows, publishing, work, pushed, reset>>

(* A deleted skill's installation is forgotten when the request ends.      *)
Forget(c) ==
  inst' = IF Op_(c) = "delete skill" /\ At(c, "write") THEN [inst EXCEPT ![P(c)][call[c].arg.k] = NoInst] ELSE inst

(* Somebody else pushes to the repository.                                 *)
Upstream(c) ==
  /\ At(c, "upstream") /\ Goes(c, "done")
  /\ LET g == G(c)  k == K(c) IN
     \E v \in {Seed, NoSkill} \ {remote[g][k]} :
       remote' = [remote EXCEPT ![g][k] = v] /\ pushed' = [pushed EXCEPT ![g][k] = @ \cup {v}]
  /\ Quiet /\ UNCHANGED <<skills, clone, mirror, rows, inst, publishing, work, reset>>

SourceStep(c) ==
  \/ Fetch(c) \/ Clear(c) \/ Copy(c) \/ Scan(c) \/ Publish(c) \/ Turn(c) \/ Plan(c) \/ Replace(c) \/ Commit(c)
  \/ Push(c) \/ Record(c) \/ Install(c) \/ CopyIn(c) \/ Resync(c) \/ Take(c) \/ Place(c) \/ Upstream(c)
=============================================================================
