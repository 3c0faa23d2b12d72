----------------------------- MODULE ContextMemory -----------------------------
(***************************************************************************)
(* Context memory (lib/context-memory.ts and its extension): the first     *)
(* turn of a session takes a snapshot of what is remembered, its tool      *)
(* edits the files, and the API replaces them.  A turn is a call of        *)
(* ProfileStore; all calls run in one process and share temporary names.   *)
(* A content is a set of facts, each named by the call that stored it.     *)
(***************************************************************************)
EXTENDS ProfileStore, Naturals

CONSTANTS
  Person,       \* identities of applications: pairs of application and key
  Stranger,     \* a session without an application
  Limit         \* facts that fit, by target: CONTEXT_MEMORY_LIMITS

ASSUME MemoryAssumption ==
  /\ Limit \in [{"operational", "profile", "user"} -> Nat] /\ Stranger \notin Person

VARIABLES memory, temp, turn

memories == <<memory, temp, turn>>

Path == ({"operational", "profile"} \X Profile) \cup ({"user"} \X Person)
Facts == SUBSET (Call \cup {Nobody})
NoSnapshot == [made |-> FALSE, operational |-> {}, personal |-> {}]

MemoryTypeOK ==
  /\ memory \in [Path -> Facts]
  /\ temp \in [Path -> Facts \cup {NoFile}]
  /\ turn \in [Call -> [tool : BOOLEAN, target : {"none", "operational", "profile", "identity"}, read : Facts,
                        snapshot : [made : BOOLEAN, operational : Facts, personal : Facts], stored : BOOLEAN]]

MemoryInit ==
  /\ memory = [m \in Path |-> {}] /\ temp = [m \in Path |-> NoFile]
  /\ turn = [c \in Call |-> [tool |-> FALSE, target |-> "none", read |-> {}, snapshot |-> NoSnapshot, stored |-> FALSE]]

Who(c) == call[c].arg.who
(* memoryPath: what is neither operational nor the profile's is a person's.*)
MemoryPathOfKey(c, t) ==                                                     \* mutant
  IF t \in {"operational", "profile"} THEN <<t, P(c)>>
  ELSE <<"user", CHOOSE w \in Person : w[2] = Who(c)[2]>>
MemoryPath(c, t) == IF t \in {"operational", "profile"} THEN <<t, P(c)>> ELSE <<"user", Who(c)>>
(* contextMemoryLimit knows "user", the tool asks it about "identity":     *)
(* there is no number to compare with, and nothing is ever too long.       *)
TooLong(facts, t) == t \in DOMAIN Limit /\ Cardinality(facts) > Limit[t]

Turns(c, r) == turn' = [turn EXCEPT ![c] = r]
Same == UNCHANGED <<file, dirs, skills, nono, disturbed>>

(* ensureDefaultProfileContextMemory, before the snapshot and in the tool; *)
(* a failure is logged in the first place and answered in the second.      *)
AfterEnsure(c) == IF turn[c].tool THEN "target" ELSE "snapshot"
AfterFailure(c) == IF turn[c].tool THEN "failed" ELSE "tool"
Ensure(c) ==
  /\ At(c, "ensure")
  /\ LET f == file[P(c)]  s == IF f = NoFile THEN Blank ELSE f IN
     IF ~call[c].arg.fresh /\ ~turn[c].tool THEN Goes(c, "tool")
     ELSE IF f = Torn THEN Goes(c, AfterFailure(c))
     ELSE IF s.memory # "unset" THEN Goes(c, AfterEnsure(c))
     ELSE call' = [call EXCEPT ![c].at = "default", ![c].s = s]
  /\ Same /\ UNCHANGED memories

Default(s) == [s EXCEPT !.memory = "profile"]
SetDefault(c) ==
  /\ At(c, "default")
  /\ file' = [file EXCEPT ![P(c)] = Default(call[c].s)] /\ dirs' = dirs \cup {P(c)}
  /\ Goes(c, AfterEnsure(c))
  /\ UNCHANGED <<skills, nono, disturbed>> /\ UNCHANGED memories

(* resolveContextMemory: the operational file first, then the personal one *)
(* the settings choose; what is too long makes the whole snapshot fail.    *)
ReadOperational(c) ==
  /\ At(c, "snapshot")
  /\ LET facts == memory[MemoryPath(c, "operational")] IN
     /\ Goes(c, IF TooLong(facts, "operational") THEN "tool" ELSE "personal")
     /\ Turns(c, [turn[c] EXCEPT !.snapshot.operational = facts])
  /\ Same /\ UNCHANGED <<memory, temp>>

Chosen(c) == IF Readable(P(c)) THEN file[P(c)].memory ELSE "unset"
Personal(c, mode) ==
  CASE mode = "profile" -> {memory[MemoryPath(c, "profile")]}
    [] mode = "identity" /\ Who(c) # Stranger -> {memory[MemoryPath(c, "identity")]}
    [] mode = "handler" /\ Who(c) # Stranger -> {{}, {Nobody}}   \* an error, or the handler's text
    [] OTHER -> {{}}
ReadPersonal(c) ==
  /\ At(c, "personal")
  /\ IF file[P(c)] = Torn THEN UNCHANGED turn
     ELSE \E facts \in Personal(c, Chosen(c)) :
            IF Cardinality(facts) > Limit["user"] THEN UNCHANGED turn
            ELSE Turns(c, [turn[c] EXCEPT !.snapshot.personal = facts, !.snapshot.made = TRUE])
  /\ Goes(c, "tool")
  /\ Same /\ UNCHANGED <<memory, temp>>

(* updateContextMemory: the settings name the file, which is read, checked *)
(* and replaced through a temporary file named after the process.          *)
Tool(c) ==
  /\ At(c, "tool")
  /\ IF call[c].arg.tool = "none" THEN Goes(c, "done") /\ UNCHANGED turn
     ELSE Goes(c, "ensure") /\ Turns(c, [turn[c] EXCEPT !.tool = TRUE])
  /\ Same /\ UNCHANGED <<memory, temp>>

Target(c) ==
  /\ At(c, "target")
  /\ LET t == IF call[c].arg.tool = "operational" THEN "operational" ELSE Chosen(c) IN
     IF file[P(c)] = Torn \/ t \notin {"operational", "profile", "identity"} \/ (t = "identity" /\ Who(c) = Stranger)
     THEN Goes(c, "failed") /\ UNCHANGED turn
     ELSE Goes(c, "temporary") /\ Turns(c, [turn[c] EXCEPT !.target = t, !.read = memory[MemoryPath(c, t)]])
  /\ Same /\ UNCHANGED <<memory, temp>>

Next_(c) ==
  CASE call[c].arg.action = "insert" -> {turn[c].read \cup {c}}
    [] call[c].arg.action = "replace" -> {{c}}
    [] OTHER -> {turn[c].read \ {f} : f \in turn[c].read}
WriteTemporary(c) ==
  /\ At(c, "temporary")
  /\ LET t == turn[c].target  ok == {n \in Next_(c) : ~TooLong(n, t)} IN
     \/ ok = {} /\ Goes(c, "failed") /\ UNCHANGED temp
     \/ \E n \in ok : Goes(c, "rename") /\ temp' = [temp EXCEPT ![MemoryPath(c, t)] = n]
  /\ Same /\ UNCHANGED <<memory, turn>>

Rename(c) ==
  /\ At(c, "rename")
  /\ LET m == MemoryPath(c, turn[c].target) IN
     IF temp[m] = NoFile THEN Goes(c, "failed") /\ UNCHANGED memories
     ELSE /\ Goes(c, "done") /\ memory' = [memory EXCEPT ![m] = temp[m]] /\ temp' = [temp EXCEPT ![m] = NoFile]
          /\ Turns(c, [turn[c] EXCEPT !.stored = TRUE])
  /\ Same

(* The API writes the file in place and asks for no profile.               *)
Put(c) ==
  /\ \/ At(c, "put") /\ Goes(c, "putting") /\ memory' = [memory EXCEPT ![MemoryPath(c, call[c].arg)] = {}]
     \/ At(c, "putting") /\ Goes(c, "done") /\ memory' = [memory EXCEPT ![MemoryPath(c, call[c].arg)] = {c}]
  /\ dirs' = dirs \cup {P(c)}
  /\ UNCHANGED <<file, skills, nono, disturbed, temp, turn>>

(* What is removed with a profile's directory.                             *)
Forgotten ==
  LET lost(m) == m[1] # "user" /\ m[2] \in dirs \ dirs' IN
  /\ memory' = [m \in Path |-> IF lost(m) THEN {} ELSE memory[m]]
  /\ temp' = [m \in Path |-> IF lost(m) THEN NoFile ELSE temp[m]]
  /\ UNCHANGED turn

MemoryStep(c) ==
  \/ Ensure(c) \/ SetDefault(c) \/ ReadOperational(c) \/ ReadPersonal(c) \/ Tool(c) \/ Target(c)
  \/ WriteTemporary(c) \/ Rename(c) \/ Put(c)
=============================================================================
