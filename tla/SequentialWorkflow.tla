-------------------------- MODULE SequentialWorkflow --------------------------
(***************************************************************************)
(* Sessions of one profile sharing the Sequential Workflow database: the   *)
(* workflow tools, the slash commands and the input handler of             *)
(* extensions/lib/workflow-harness.ts.  A wrapped tool call and a command  *)
(* are one transaction (BEGIN IMMEDIATE .. COMMIT), hence one action; the  *)
(* input handler that answers a Collect task with the configured evaluator *)
(* is four steps, between which other sessions commit.  A definition       *)
(* commented "mutant" is the faulty form of the next one.                  *)
(***************************************************************************)
EXTENDS WorkflowTables, Sequences, FiniteSets, Subsequences

CONSTANTS
  Evaluator,    \* subset of {"llm", "system_one"}: evaluators settings.json may name
  Activation,   \* subset of {"definition", "template"}: the definition modes a
                \* requirement may ask for; {} when no message or Skill names
                \* Sequential Workflow
  MaxMessages   \* bound on the user messages of a run

ASSUME SessionAssumption ==
  /\ Evaluator \subseteq {"llm", "system_one"}
  /\ Activation \subseteq {"definition", "template"}
  /\ MaxMessages \in Nat

VARIABLES
  db,       \* workflows, workflow_tasks and workflow_collect_checkpoint
  saved,    \* workflow_focus: the saved stack of each session
  blocked,  \* the sessions with a row in workflow_requirement_blocks
  mode,     \* the definition_mode_started event of each workflow
  tools,    \* the host's active tools, per session
  said,     \* number of user messages submitted so far, in all sessions
  latest,   \* the last user message of each session's branch, 0 for none
  input,    \* the input handler of each session
  asked     \* history: when each Collect task last began to await its user

vars == <<db, saved, blocked, mode, tools, said, latest, input, asked>>

(* An active tool list is named by the definition mode that restricts to it.*)
Creation == {"definition", "template"}
ToolList == Creation \cup {"full"}
NoMode == [activation |-> "none", activeTools |-> "full"]
IdleInput == [phase |-> "idle", w |-> NoWorkflow, k |-> 0, msg |-> 0]

Busy == [phase : {"read", "recorded", "settled"}, w : Workflow, k : Pos,
         msg : 0..MaxMessages]

HostTypeOK ==
  /\ blocked \in SUBSET Session
  /\ mode \in [Workflow -> [activation : Creation \cup {"none"}, activeTools : ToolList]]
  /\ tools \in [Session -> ToolList]
  /\ said \in 0..MaxMessages
  /\ latest \in [Session -> 0..MaxMessages]
  /\ input \in [Session -> Busy \cup {IdleInput}]
  /\ asked \in [Workflow -> [Pos -> [at : 0..MaxMessages, excused : BOOLEAN]]]

(* Every variable ranges over what the tables and the host can hold.       *)
TypeOK == db \in Database /\ HostTypeOK /\ saved \in [Session -> Seq(Workflow)]

Init ==
  /\ db = NoRows
  /\ saved = [s \in Session |-> <<>>]
  /\ blocked = {}
  /\ mode = [w \in Workflow |-> NoMode]
  /\ tools = [s \in Session |-> "full"]
  /\ said = 0
  /\ latest = [s \in Session |-> 0]
  /\ input = [s \in Session |-> IdleInput]
  /\ asked = [w \in Workflow |-> [k \in Pos |-> [at |-> 0, excused |-> FALSE]]]

-----------------------------------------------------------------------------
(* stack() keeps the active workflows the session owns; focus() is the top:*)
(* the last live entry of the saved stack.                                 *)
Live(d, s, w) == IsActive(d, w) /\ d[w].session = s
LiveStack(d, s, stack) == Kept(stack, {w \in Workflow : Live(d, s, w)})
OnTop(d, s, stack, w) ==
  /\ Live(d, s, w)
  /\ \E i \in DOMAIN stack : /\ stack[i] = w
                             /\ \A j \in DOMAIN stack : j > i => ~Live(d, s, stack[j])
InFocus(s, w) == OnTop(db, s, saved[s], w)
NoFocus(s) == \A w \in Workflow : ~InFocus(s, w)

(* pendingWorkflow: the workflow in focus waits for its definition.        *)
Pending(s, w) == InFocus(s, w) /\ db[w].status = "pending_definition"

(* checkpoint(): remember the latest user message for an awaiting Collect  *)
(* in focus, unless one is remembered already (INSERT OR IGNORE).          *)
Checkpoint(d, s, stack) ==
  [w \in Workflow |->
     [d[w] EXCEPT !.tasks = [k \in Pos |->
        IF /\ OnTop(d, s, stack, w) /\ IsCurrent(d[w], k)
           /\ d[w].tasks[k].type = "collect" /\ d[w].tasks[k].status = "awaiting_user"
           /\ d[w].tasks[k].checkpoint = NoRow
        THEN [d[w].tasks[k] EXCEPT !.checkpoint = latest[s]] ELSE d[w].tasks[k]]]]

(* History: the Collect tasks that this step of s makes await their user.  *)
(* The next answer need not be a new message (excused) when the owner's    *)
(* branch lacks the message its handler works on; when a handler that read *)
(* the workflow has yet to record; once the workflow changes its owner; or *)
(* when a session that does not own it puts back the question.             *)
EchoExpected(d, w) ==
  \E s \in Session : /\ input[s].phase # "idle"
                     /\ \/ s = d[w].session /\ latest[s] < input[s].msg
                        \/ input[s].phase = "read" /\ input[s].w = w
PutBack(s, d, w, k) == s # d[w].session /\ d[w].tasks[k].checkpoint # NoRow

Asks(s, d) ==
  [w \in Workflow |-> [k \in Pos |->
     IF d[w].tasks[k].status = "awaiting_user" /\
        (db[w].tasks[k].status # "awaiting_user" \/
         db[w].tasks[k].attempts # d[w].tasks[k].attempts)
     THEN [at |-> said, excused |-> PutBack(s, d, w, k) \/ EchoExpected(d, w)]
     ELSE [asked[w][k] EXCEPT !.excused = @ \/ db[w].session # d[w].session]]]

(* The end of a transaction of session s that leaves database d and stack. *)
Commit(s, d, stack) ==
  /\ saved' = [saved EXCEPT ![s] = LiveStack(d, s, stack)]
  /\ db' = Checkpoint(d, s, stack)
  /\ asked' = Asks(s, d)

Unused(w) == db[w].status = "none"
Idle(s) == input[s].phase = "idle"
MayEvaluate(w, k, outcome) ==   \* the bound on the attempts column
  outcome = "retry" => db[w].tasks[k].attempts < AttemptBound

(* The tool_call gate for the workflow tools other than the creation ones. *)
Callable(s) == /\ Idle(s) /\ s \notin blocked /\ tools[s] = "full"
               /\ \A w \in Workflow : ~Pending(s, w)

-----------------------------------------------------------------------------
(* The pending workflow of s that the creation tool via supplies.          *)
SuppliesAny(s, w, via) == InFocus(s, w) /\ mode[w].activation = via  \* mutant
Supplies(s, w, via) == Pending(s, w) /\ mode[w].activation = via

(* sequential_workflow_create (via = "definition") and _create_from_template *)
CreateRoot(s, d, via) ==
  /\ Idle(s) /\ s \notin blocked /\ ValidDefinition(d)
  /\ tools[s] \in {"full", via}
  /\ \/ /\ NoFocus(s)
        /\ \E w \in Workflow : /\ Unused(w)
                               /\ Commit(s, CreateRootWorkflow(db, w, s, d), Append(saved[s], w))
        /\ UNCHANGED tools
     \/ \E w \in Workflow :
          /\ Supplies(s, w, via)
          /\ Commit(s, HydrateWorkflow(db, w, d), saved[s])
          /\ tools' = [tools EXCEPT ![s] = mode[w].activeTools]
  /\ UNCHANGED <<blocked, mode, said, latest, input>>

CreateSub(s, d) ==
  /\ Callable(s) /\ ValidDefinition(d)
  /\ \E p, c \in Workflow, k \in Pos :
       /\ InFocus(s, p) /\ IsCurrent(db[p], k)
       /\ db[p].tasks[k].type = "workflow" /\ db[p].tasks[k].status = "running"
       /\ db[p].tasks[k].child = NoWorkflow
       /\ Unused(c)
       /\ Commit(s, CreateSubworkflow(db, p, k, c, s, d), Append(saved[s], c))
  /\ UNCHANGED <<blocked, mode, tools, said, latest, input>>

(* What automaticTaskEvaluation makes of a recorded result: nothing (no    *)
(* evaluator configured), an outcome, or an unresolved decision.           *)
Verdict == Outcome \cup {"none", "unresolved"}
MayJudge(v) == IF v = "none" THEN "llm" \in Evaluator ELSE "system_one" \in Evaluator
Judge(d, w, k, v) ==
  CASE v = "none" -> d
    [] v = "unresolved" -> RestoreTask(d, w, k)
    [] v \in Outcome -> EvaluateTask(d, w, k, v)
BlockIfUnresolved(s, v) == blocked' = IF v = "unresolved" THEN blocked \cup {s} ELSE blocked

(* A Collect result needs a user message other than the checkpoint's.      *)
NewReply(s, task) == /\ task.checkpoint # NoRow
                     /\ latest[s] # 0
                     /\ task.checkpoint # latest[s]

Record(s) ==
  /\ Callable(s)
  /\ \E w \in Workflow, k \in Pos, v \in Verdict :
       /\ InFocus(s, w) /\ IsCurrent(db[w], k)
       /\ db[w].tasks[k].type \in {"action", "collect"}
       /\ db[w].tasks[k].type = "collect" => NewReply(s, db[w].tasks[k])
       /\ db[w].tasks[k].status # "evaluating"
       /\ IF db[w].tasks[k].criteria THEN MayJudge(v) /\ MayEvaluate(w, k, v) ELSE v = "none"
       /\ Commit(s, Judge(RecordResult(db, w, k), w, k, v), saved[s])
       /\ BlockIfUnresolved(s, v)
  /\ UNCHANGED <<mode, tools, said, latest, input>>

Evaluate(s) ==
  /\ Callable(s)
  /\ \E w \in Workflow, k \in Pos, outcome \in Outcome :
       /\ InFocus(s, w) /\ IsCurrent(db[w], k)
       /\ db[w].tasks[k].type = "evaluate" \/ db[w].tasks[k].status = "evaluating"
       /\ MayEvaluate(w, k, outcome)
       /\ Commit(s, EvaluateTask(db, w, k, outcome), saved[s])
  /\ UNCHANGED <<blocked, mode, tools, said, latest, input>>

(* sequential_workflow_cancel and /workflow-cancel: any session, any active workflow *)
Cancel(s) ==
  /\ Idle(s)
  /\ \E w \in Workflow : IsActive(db, w) /\ Commit(s, CancelWorkflow(db, w), saved[s])
  /\ UNCHANGED <<blocked, mode, tools, said, latest, input>>

-----------------------------------------------------------------------------
(* /workflow-status and the status tool only end a transaction.            *)
Status(s) ==
  /\ Idle(s) /\ Commit(s, db, saved[s])
  /\ UNCHANGED <<blocked, mode, tools, said, latest, input>>

Suspend(s) ==
  /\ Idle(s) /\ Commit(s, db, <<>>)
  /\ UNCHANGED <<blocked, mode, tools, said, latest, input>>

(* From w down to the first workflow that does not wait for a child.       *)
Paths == {p \in UNION {[1..n -> Workflow] : n \in 1..Cardinality(Workflow)} :
            \A i, j \in DOMAIN p : p[i] = p[j] => i = j}
Waiting(d, w, c) == \E k \in Pos : IsCurrent(d[w], k) /\ WaitsFor(d[w], k, c)
IsChain(d, w, p) ==
  /\ p[1] = w
  /\ \A i \in 2..Len(p) : Waiting(d, p[i - 1], p[i])
  /\ \A c \in Workflow : ~Waiting(d, p[Len(p)], c)

FocusOn(s) ==
  /\ Idle(s)
  /\ \E p \in Paths : /\ IsChain(db, p[1], p)
                      /\ \A i \in DOMAIN p : IsActive(db, p[i]) /\ db[p[i]].session = s
                      /\ Commit(s, db, p)
  /\ UNCHANGED <<blocked, mode, tools, said, latest, input>>

AdoptRoot(s) ==                                                    \* mutant
  /\ Idle(s)
  /\ \E w \in Workflow : /\ IsActive(db, w) /\ db[w].parent = NoWorkflow
                         /\ Commit(s, AdoptTree(db, w, s), <<w>>)
  /\ UNCHANGED <<blocked, mode, tools, said, latest, input>>
Adopt(s) ==
  /\ Idle(s)
  /\ \E p \in Paths : /\ IsActive(db, p[1]) /\ db[p[1]].parent = NoWorkflow
                      /\ IsChain(db, p[1], p)
                      /\ Commit(s, AdoptTree(db, p[1], s), p)
  /\ UNCHANGED <<blocked, mode, tools, said, latest, input>>

-----------------------------------------------------------------------------
(* A user message that only reaches the branch; it releases the block of a *)
(* session without a focus.                                                *)
AwaitsReply(w, k) ==
  /\ IsCurrent(db[w], k)
  /\ db[w].tasks[k].type = "collect" /\ db[w].tasks[k].status = "awaiting_user"

AnsweredByHandler(s) ==
  \E w \in Workflow, k \in Pos : InFocus(s, w) /\ AwaitsReply(w, k)

Submit(s) ==
  /\ Idle(s) /\ said < MaxMessages
  /\ said' = said + 1
ToBranch(s) == latest' = [latest EXCEPT ![s] = said + 1]

InputPlain(s) ==
  /\ Submit(s) /\ ToBranch(s)
  /\ AnsweredByHandler(s) => "llm" \in Evaluator
  /\ blocked' = IF NoFocus(s) THEN blocked \ {s} ELSE blocked
  /\ UNCHANGED <<db, saved, mode, tools, input, asked>>

(* explicitUserOverride: cancelPendingWorkflowByUser *)
InputOverride(s) ==
  /\ Submit(s) /\ ToBranch(s)
  /\ \E w \in Workflow :
       /\ Pending(s, w)
       /\ tools' = [tools EXCEPT ![s] = mode[w].activeTools]
       /\ Commit(s, [db EXCEPT ![w].status = "cancelled"], saved[s])
  /\ UNCHANGED <<blocked, mode, input>>

(* createPendingWorkflow and startDefinitionMode, once focus() is undefined.*)
StartDefinition(s, activation) ==
  \E w \in Workflow :
    /\ Unused(w)
    /\ mode' = [mode EXCEPT ![w] = [activation |-> activation, activeTools |-> tools[s]]]
    /\ tools' = [tools EXCEPT ![s] = activation]
    /\ Commit(s, [db EXCEPT ![w] = [status |-> "pending_definition", parent |-> NoWorkflow,
                                    session |-> s, tasks |-> NoTasks]],
              Append(saved[s], w))

InputRequirement(s) ==
  /\ Activation # {} /\ Submit(s) /\ ToBranch(s) /\ NoFocus(s)
  /\ \/ /\ \E a \in Activation : StartDefinition(s, a)
        /\ blocked' = blocked \ {s}
     \/ /\ blocked' = blocked \cup {s}          \* uncertain, unavailable, invalid
        /\ Commit(s, db, saved[s])
        /\ UNCHANGED <<mode, tools>>
  /\ UNCHANGED input

(* The agent reads a SKILL.md that names Sequential Workflow.              *)
SkillRequirement(s) ==
  /\ Activation # {} /\ Idle(s) /\ NoFocus(s) /\ tools[s] # "definition"
  /\ \/ /\ \E a \in Activation : StartDefinition(s, a)
        /\ UNCHANGED blocked
     \/ /\ blocked' = blocked \cup {s}
        /\ Commit(s, db, saved[s])
        /\ UNCHANGED <<mode, tools>>
  /\ UNCHANGED <<said, latest, input>>

-----------------------------------------------------------------------------
(* The input handler when the configured evaluator answers a Collect task: *)
(* it reads focus and task, awaits the configuration, records the message  *)
(* in one transaction and evaluates it in a second one.  Pi may append the *)
(* message to the branch before the handlers run or after ("Depending on   *)
(* Pi's event ordering", workflow-harness.ts).                             *)
InputRead(s) ==
  /\ Submit(s) /\ "system_one" \in Evaluator
  /\ \E w \in Workflow, k \in Pos :
       /\ InFocus(s, w) /\ AwaitsReply(w, k)
       /\ input' = [input EXCEPT ![s] = [phase |-> "read", w |-> w, k |-> k, msg |-> said + 1]]
  /\ ToBranch(s) \/ UNCHANGED latest
  /\ UNCHANGED <<db, saved, blocked, mode, tools, asked>>

To(s, phase) == input' = [input EXCEPT ![s].phase = phase]

(* The raw record tool: the current task of w, whatever the handler read.  *)
CanRecord(w, k) ==
  /\ IsActive(db, w) /\ IsCurrent(db[w], k)
  /\ db[w].tasks[k].type = "collect" /\ db[w].tasks[k].status # "evaluating"

InputRecord(s) ==
  /\ input[s].phase = "read"
  /\ LET w == input[s].w
     IN  \/ \E k \in Pos : /\ CanRecord(w, k)
                           /\ Commit(s, RecordResult(db, w, k), saved[s])
                           /\ To(s, "recorded")
         \/ /\ ~\E k \in Pos : CanRecord(w, k)      \* the tool throws: ROLLBACK
            /\ To(s, "settled")
            /\ UNCHANGED <<db, saved, asked>>
  /\ UNCHANGED <<blocked, mode, tools, said, latest>>

InputEvaluate(s) ==
  /\ input[s].phase = "recorded"
  /\ LET w == input[s].w
         k == input[s].k
         Same == IsCurrent(db[w], k) /\ db[w].tasks[k].criteria
         Judgeable == IsActive(db, w) /\ db[w].tasks[k].status = "evaluating"
     IN  \/ /\ ~Same
            /\ Commit(s, db, saved[s]) /\ UNCHANGED blocked
         \/ /\ Same
            /\ \E v \in Verdict :
                 /\ MayJudge(v) /\ MayEvaluate(w, k, v)
                 /\ v \in Outcome => Judgeable
                 /\ Commit(s, Judge(db, w, k, v), saved[s])
                 /\ BlockIfUnresolved(s, v)
         \/ /\ Same /\ ~Judgeable                   \* evaluate throws: ROLLBACK
            /\ UNCHANGED <<db, saved, asked, blocked>>
  /\ To(s, "settled")
  /\ UNCHANGED <<mode, tools, said, latest>>

InputSettle(s) ==
  /\ input[s].phase = "settled"
  /\ latest' = [latest EXCEPT ![s] = input[s].msg]
  /\ input' = [input EXCEPT ![s] = IdleInput]
  /\ UNCHANGED <<db, saved, blocked, mode, tools, said, asked>>

(* The process of the session stops and is started again: the tables stay, *)
(* a running input handler is lost, the host offers all its tools.         *)
Restart(s) ==
  /\ input' = [input EXCEPT ![s] = IdleInput]
  /\ tools' = [tools EXCEPT ![s] = "full"]
  /\ UNCHANGED <<db, saved, blocked, mode, said, latest, asked>>

-----------------------------------------------------------------------------
Agent(s) ==
  \/ \E d \in Definition, via \in Creation : CreateRoot(s, d, via)
  \/ \E d \in Definition : CreateSub(s, d)
  \/ Record(s) \/ Evaluate(s) \/ SkillRequirement(s)
User(s) ==
  \/ Cancel(s) \/ Status(s) \/ Suspend(s) \/ FocusOn(s) \/ Adopt(s)
  \/ InputPlain(s) \/ InputOverride(s) \/ InputRequirement(s) \/ InputRead(s)
Handler(s) == InputRecord(s) \/ InputEvaluate(s) \/ InputSettle(s)
Next == \E s \in Session : Agent(s) \/ User(s) \/ Handler(s) \/ Restart(s)

Spec == Init /\ [][Next]_vars
=============================================================================
