------------------------------- MODULE AgentTurn -------------------------------
(***************************************************************************)
(* One session's agent loop as the guardrails (extensions/guardrails) and  *)
(* the Sequential Workflow gate (extensions/lib/workflow-harness.ts) hook  *)
(* into it: user input, the model's turn, the preflight of its sibling     *)
(* calls, their execution, their results, the final answer and the end of  *)
(* the run.  The loop itself is Pi's: every sibling is preflighted, in     *)
(* order and by guardrails first, before any runs.  The focused workflow   *)
(* is reduced to its current task; SequentialWorkflow models it in full.   *)
(* A definition commented "mutant" is the faulty form of the next one.     *)
(***************************************************************************)
EXTENDS Naturals, Sequences, FiniteSets

CONSTANTS
  Activation,    \* the definition modes a requirement may ask for
  Kinds,         \* the types of a workflow's tasks, in order
  Rules,         \* the guardrail configurations an operator may install: a stage
                 \* gives the modes of its enabled rules, by order
  MaxCalls,      \* bound on the sibling calls of a turn
  MaxAttempts,   \* bound on the attempts of a task
  MaxInputs,     \* bound on user inputs
  MaxCommands,   \* bound on /workflow-suspend and /workflow-focus
  MaxExtensions  \* how often the host lets one run be continued before it settles

Tool == {"read", "create", "template", "step", "cancel", "external"}
Pos == DOMAIN Kinds
Stage == {"input", "pre_tool", "post_tool", "output"}
Mode == {"evaluate", "transform", "reflect"}

ASSUME AgentTurnAssumption ==
  /\ Activation \subseteq {"definition", "template"}
  /\ Kinds \in Seq({"action", "collect"}) /\ Kinds # <<>>
  /\ \A r \in Rules : r \in [Stage -> Seq(Mode)]
  /\ MaxAttempts \in Nat \ {0}

VARIABLES
  phase,       \* where the agent loop is
  calls,       \* the sibling calls of the turn and what became of each
  dispatched,  \* workflow-harness.ts: a call of this turn has been let through
  flow,        \* the focused workflow: its status, task and attempts
  heard,       \* a user message is newer than the Collect task's checkpoint
  blocked,     \* the session has an unresolved requirement evaluation
  key,         \* continuationKey
  continuations,
  reflections, \* reflectionCount of guardrails
  rules,       \* guardrails.json
  answer,      \* the run's final answer: what guardrails did to it
  kept,        \* history: the focus has been kept since this turn's turn_start
  inputs, commands, extensions   \* the bounds' counters

vars == <<phase, calls, dispatched, flow, heard, blocked, key,
          continuations, reflections, rules, answer, kept, inputs, commands, extensions>>

NoFlow == [status |-> "none", task |-> 0, attempts |-> 0]
NoAnswer == [text |-> "none", denied |-> FALSE, failed |-> FALSE]
Flow == [status : {"definition", "template", "running", "awaiting", "evaluating"},
         task : Pos \cup {0}, attempts : 0..MaxAttempts] \cup {NoFlow}

(* Every variable has its type; the counters keep to their limits.         *)
TypeOK ==
  /\ phase \in {"idle", "model", "tools", "ending"}
  /\ calls \in Seq([tool : Tool, state : {"new", "checked", "allowed", "ran", "shown",
                                          "withheld", "blocked", "terminated"}])
  /\ dispatched \in BOOLEAN /\ heard \in BOOLEAN /\ blocked \in BOOLEAN /\ kept \in BOOLEAN
  /\ flow \in Flow /\ key \in Flow
  /\ continuations \in 0..3 /\ reflections \in 0..1 /\ rules \in Rules
  /\ answer \in [text : {"none", "model", "refusal"}, denied : BOOLEAN, failed : BOOLEAN]

Init ==
  /\ phase = "idle" /\ calls = <<>> /\ dispatched = FALSE
  /\ flow = NoFlow /\ heard = FALSE /\ blocked = FALSE
  /\ key = NoFlow /\ continuations = 0 /\ reflections = 0
  /\ rules \in Rules /\ answer = NoAnswer /\ kept = FALSE
  /\ inputs = 0 /\ commands = 0 /\ extensions = 0

-----------------------------------------------------------------------------
(* The guardrails of a stage.  Loading it or a rule's model call may fail, *)
(* which ends the stage: the input and output stages then let the original *)
(* through, the tool stages refuse it as if denied.  An evaluation that    *)
(* cannot be read is a denial.                                             *)
MayDeny(stage) == \E i \in DOMAIN rules[stage] : rules[stage][i] = "evaluate"

(* The output stage goes on after a denial with the rule's own response,   *)
(* and keeps the original response when a later rule fails.                *)
Original == [text |-> "model", denied |-> FALSE, failed |-> FALSE]
(* mutant: a denial is only logged *)
FilteredNot(rs, n, deniedAt) == [Original EXCEPT !.denied = deniedAt \in 1..n]
Filtered(rs, n, deniedAt) ==     \* the first n rules have run, one of them denied
  IF deniedAt \in 1..n THEN [text |-> "refusal", denied |-> TRUE, failed |-> FALSE]
                       ELSE Original
Kept(a) == [text |-> "model", denied |-> a.denied, failed |-> TRUE]
Evaluators(rs) == {i \in DOMAIN rs : rs[i] = "evaluate"} \cup {0}
Output(rs) ==
  {Filtered(rs, Len(rs), d) : d \in Evaluators(rs)} \cup {Kept(Original)}
  \cup {Kept(Filtered(rs, n, d)) : n \in 0..(Len(rs) - 1), d \in Evaluators(rs)}

-----------------------------------------------------------------------------
(* The Sequential Workflow side.                                           *)
Focused == flow.status # "none"
Defining == flow.status \in {"definition", "template"}
At(t, n) == [status |-> IF Kinds[t] = "action" THEN "running" ELSE "awaiting",
             task |-> t, attempts |-> n]

(* What a classification leads to, the session having no focus.            *)
Classified ==
  {[f |-> [status |-> m, task |-> 0, attempts |-> 0], b |-> FALSE] : m \in Activation}
  \cup {[f |-> NoFlow, b |-> b] : b \in BOOLEAN}

(* definitionTools *)
DefinitionTools == IF flow.status = "template" THEN {"read", "template"} ELSE {"create"}

(* assertOperation: what the gate and the wrapped tool itself require.     *)
AssertOperation(tool) ==
  CASE tool \in {"create", "template"} ->
         IF Focused THEN flow.status = (IF tool = "create" THEN "definition" ELSE "template") ELSE TRUE
    [] tool = "step" ->
         \/ flow.status = "running"
         \/ flow.status = "awaiting" /\ heard
         \/ flow.status = "evaluating" /\ ~blocked
    [] OTHER -> TRUE

(* The tool_call handler of workflow-harness.ts after its Skill reading.   *)
WorkflowTool(tool) == tool \in {"create", "template", "step", "cancel"}
Undirected(tool) == ~Focused /\ tool \notin {"create", "template"}
Admits(tool, alone, inAction) ==
  /\ blocked => tool = "cancel"
  /\ Undirected(tool) \/
       /\ alone
       /\ Defining => tool \in DefinitionTools
       /\ Focused /\ ~Defining /\ ~WorkflowTool(tool) => inAction
       /\ WorkflowTool(tool) => AssertOperation(tool)
(* mutant: every sibling may pass *)
GateAll(tool) == Admits(tool, TRUE, flow.status = "running")
Gate(tool) == Admits(tool, ~dispatched, flow.status = "running")

-----------------------------------------------------------------------------
Ends == <<key, continuations, extensions>>

(* The input handlers: guardrails may answer in the agent's place; else    *)
(* the workflow harness releases a block, cancels a pending workflow on an *)
(* explicit override, or classifies the request.                           *)
Reply(f, b) == flow' = f /\ blocked' = b /\ heard' = TRUE
UserInput ==
  /\ phase = "idle" /\ inputs < MaxInputs
  /\ inputs' = inputs + 1 /\ reflections' = 0
  /\ \/ /\ MayDeny("input")      \* { action: "handled" }
        /\ UNCHANGED <<phase, flow, blocked, heard, continuations, extensions>>
     \/ /\ phase' = "model" /\ continuations' = 0 /\ extensions' = 0
        /\ IF Focused
             THEN \/ Reply(flow, blocked)
                  \/ Defining /\ (Reply(NoFlow, blocked) \/ \E c \in Classified : Reply(c.f, c.b))
             ELSE \/ Reply(flow, FALSE)
                  \/ \E c \in Classified : Reply(c.f, c.b)
  /\ UNCHANGED <<calls, dispatched, key, rules, answer, kept, commands>>

(* turn_start, and a turn that calls tools.                                *)
TurnCalls ==
  /\ phase = "model" /\ phase' = "tools"
  /\ dispatched' = FALSE /\ kept' = Focused
  /\ \E n \in 1..MaxCalls : \E ts \in [1..n -> Tool] :
       calls' = [i \in 1..n |-> [tool |-> ts[i], state |-> "new"]]
  /\ UNCHANGED <<flow, heard, blocked, reflections, rules, answer, inputs, commands, Ends>>

(* A turn that ends in a final answer, filtered at message_end: a reflect  *)
(* rule may revise it once per input.                                      *)
HasReflection == \E i \in DOMAIN rules["output"] : rules["output"][i] = "reflect"
Reflected == IF HasReflection /\ reflections < 1 THEN {0, 1} ELSE {reflections}
TurnAnswers ==
  /\ phase = "model" /\ phase' = "ending" /\ dispatched' = FALSE
  /\ answer' \in Output(rules["output"]) /\ reflections' \in Reflected
  /\ UNCHANGED <<calls, flow, heard, blocked, rules, kept, inputs, commands, Ends>>

(* tool_call of guardrails for the next sibling.                           *)
NextNew == {i \in DOMAIN calls : calls[i].state \in {"new", "checked"}
                                 /\ \A j \in 1..(i - 1) : calls[j].state \notin {"new", "checked"}}
Mark(i, st) == calls' = [calls EXCEPT ![i].state = st]
PreTool ==
  /\ phase = "tools"
  /\ \E i \in NextNew :
       /\ calls[i].state = "new"
       /\ \/ Mark(i, "checked")
          \/ Mark(i, "terminated")             \* denied, or failed
  /\ UNCHANGED <<phase, dispatched, flow, heard, blocked, reflections, rules, answer,
                 kept, inputs, commands, Ends>>

(* tool_call of workflow-harness.ts: reading a Skill that names Sequential *)
(* Workflow is classified first, and a requirement lets the read through   *)
(* before the gate.                                                        *)
Pass(i) == Gate(calls[i].tool) /\ Mark(i, "allowed") /\ dispatched' = TRUE
Refuse(i) == ~Gate(calls[i].tool) /\ UNCHANGED dispatched
             /\ Mark(i, IF blocked THEN "terminated" ELSE "blocked")
ReadSkill ==
  /\ phase = "tools" /\ ~Focused
  /\ \E i \in NextNew, c \in Classified :
       /\ calls[i].state = "checked" /\ calls[i].tool = "read"
       /\ flow' = c.f /\ blocked' = (blocked \/ c.b)
       /\ IF c.f # NoFlow THEN Mark(i, "allowed") /\ UNCHANGED dispatched
          ELSE IF blocked' THEN Mark(i, "terminated") /\ UNCHANGED dispatched
          ELSE Mark(i, "allowed") /\ dispatched' = TRUE
  /\ UNCHANGED <<phase, heard, reflections, rules, answer, kept, inputs, commands, Ends>>
WorkflowGate ==
  /\ phase = "tools"
  /\ \E i \in NextNew : calls[i].state = "checked" /\ (Pass(i) \/ Refuse(i))
  /\ UNCHANGED <<phase, flow, heard, blocked, reflections, rules, answer, kept, inputs,
                 commands, Ends>>

-----------------------------------------------------------------------------
(* The effect of a workflow tool, which checks its operation again; a tool *)
(* whose check fails returns an error and changes nothing.                 *)
Next1(t) == IF t + 1 \in Pos THEN At(t + 1, 1) ELSE NoFlow
Stepped ==
  CASE flow.status \in {"running", "awaiting"} -> {[flow EXCEPT !.status = "evaluating"]}
    [] flow.status = "evaluating" ->
         {Next1(flow.task)}
         \cup (IF flow.attempts < MaxAttempts THEN {At(flow.task, flow.attempts + 1)} ELSE {NoFlow})
    [] OTHER -> {flow}
Effect(tool) ==
  IF ~AssertOperation(tool) THEN {flow}
  ELSE CASE tool \in {"create", "template"} -> {At(1, 1)}
         [] tool = "step" -> Stepped
         [] tool = "cancel" -> {NoFlow}
         [] OTHER -> {flow}
Fresh(f) == f.status = "awaiting" /\ f # flow     \* a Collect's new checkpoint
Unavailable(tool) == tool = "step" /\ flow.status \in {"running", "awaiting"} /\ AssertOperation(tool)
Execute(i) ==
  /\ NextNew = {} /\ calls[i].state = "allowed"
  /\ \/ /\ \E f \in Effect(calls[i].tool) : flow' = f /\ heard' = (heard /\ ~Fresh(f))
        /\ UNCHANGED blocked
     \/ /\ Unavailable(calls[i].tool) /\ blocked' = TRUE   \* the evaluator: the task is restored
        /\ UNCHANGED <<flow, heard>>
  /\ Mark(i, "ran")
  /\ UNCHANGED <<phase, dispatched, reflections, rules, answer, kept, inputs, commands, Ends>>

(* tool_result of guardrails.                                              *)
PostTool(i) ==
  /\ calls[i].state = "ran"
  /\ Mark(i, "shown") \/ Mark(i, "withheld")
  /\ UNCHANGED <<phase, dispatched, flow, heard, blocked, reflections, rules, answer, kept,
                 inputs, commands, Ends>>

(* The turn is over; the loop ends when every sibling asked to terminate.  *)
TurnEnds ==
  /\ phase = "tools"
  /\ \A i \in DOMAIN calls : calls[i].state \in {"shown", "withheld", "blocked", "terminated"}
  /\ phase' = IF \A i \in DOMAIN calls : calls[i].state = "terminated" THEN "ending" ELSE "model"
  /\ calls' = <<>> /\ kept' = FALSE
  /\ UNCHANGED <<dispatched, flow, heard, blocked, reflections, rules, answer, inputs,
                 commands, Ends>>

(* agent_before_settle continues a definition while the host allows it;    *)
(* agent_end asks the agent to go on with its task at most twice for the   *)
(* same state of the task.                                                 *)
(* mutant: a follow-up starts the count again *)
CountAnew == 0
Count == IF flow # key THEN 0 ELSE continuations
Nudged == ~blocked /\ ~Defining /\ flow.status = "running"
AgentEnds ==
  /\ phase = "ending"
  /\ \/ /\ Defining /\ extensions < MaxExtensions
        /\ phase' = "model" /\ extensions' = extensions + 1
        /\ UNCHANGED <<key, continuations>>
     \/ /\ Nudged /\ Count < 2
        /\ key' = flow /\ continuations' = Count + 1 /\ phase' = "model"
        /\ UNCHANGED extensions
     \/ /\ Nudged /\ Count >= 2
        /\ key' = flow /\ continuations' = 3 /\ phase' = "idle"
        /\ UNCHANGED extensions
     \/ /\ ~Nudged /\ ~(Defining /\ extensions < MaxExtensions)
        /\ phase' = "idle" /\ UNCHANGED Ends
  /\ answer' = NoAnswer
  /\ UNCHANGED <<calls, dispatched, flow, heard, blocked, reflections, rules, kept,
                 inputs, commands>>

(* The user aborts, or the model fails: agent_end leaves it at that.       *)
Abort ==
  /\ phase # "idle" /\ phase' = "idle" /\ calls' = <<>> /\ answer' = NoAnswer /\ kept' = FALSE
  /\ UNCHANGED <<dispatched, flow, heard, blocked, reflections, rules, inputs, commands, Ends>>

(* /workflow-suspend and /workflow-focus (on another of the session's      *)
(* workflows), at any time.                                                *)
Refocus ==
  /\ commands < MaxCommands /\ commands' = commands + 1
  /\ flow' \in {NoFlow} \cup {At(t, 1) : t \in Pos} /\ flow' # flow /\ kept' = FALSE
  /\ UNCHANGED <<phase, calls, dispatched, heard, blocked, reflections, rules, answer, inputs, Ends>>

Loop == TurnCalls \/ TurnAnswers \/ PreTool \/ ReadSkill \/ WorkflowGate
        \/ (\E i \in DOMAIN calls : Execute(i) \/ PostTool(i)) \/ TurnEnds \/ AgentEnds
Next == UserInput \/ Loop \/ Abort \/ Refocus

(* The host drives a run it has started to its end.                        *)
Spec == Init /\ [][Next]_vars
FairSpec == Spec /\ WF_vars(Loop)

-----------------------------------------------------------------------------
Ran == {i \in DOMAIN calls : calls[i].state \in {"allowed", "ran", "shown", "withheld"}}

(* While a workflow keeps the focus from the start of a turn, at most one  *)
(* of the turn's calls runs, although all are preflighted before any runs  *)
(* (workflow-harness.ts:455).                                              *)
OneCallWhileFocused == kept => Cardinality(Ran) <= 1

(* A tool that is not a workflow tool runs, in a turn that kept its focus, *)
(* only for an Action in progress, or to read in a definition by template: *)
(* no sibling has moved the task on since the gate looked at it.           *)
ExternalRunsInAction ==
  kept /\ NextNew = {} =>
    \A i \in DOMAIN calls :
      calls[i].state = "allowed" /\ ~WorkflowTool(calls[i].tool) =>
        \/ flow.status = "running"
        \/ flow.status = "template" /\ calls[i].tool = "read"

(* A final answer that an output rule denied reaches the user only when a  *)
(* later rule of the stage failed, which restores the original.            *)
DeniedAnswerIsReplaced == answer.denied /\ answer.text = "model" => answer.failed

(* The types hold, no denial is forgotten by the output stage, and no      *)
(* external tool runs at another task than the gate saw.                   *)
Inv == TypeOK /\ DeniedAnswerIsReplaced /\ ExternalRunsInAction

(* A model that stops calling tools leaves the run: neither the definition *)
(* mode nor the follow-ups of agent_end keep a session going for ever.     *)
Settles == <>[](calls = <<>>) => []<>(phase = "idle")
================================================================================
