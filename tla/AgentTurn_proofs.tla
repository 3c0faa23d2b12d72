---------------------------- MODULE AgentTurn_proofs ----------------------------
(***************************************************************************)
(* Theorems about AgentTurn, for any guardrail configurations, any tasks   *)
(* and any number of sibling calls, inputs, commands and attempts.         *)
(***************************************************************************)
EXTENDS AgentTurn, SequenceTheorems, FiniteSetTheorems, TLAPS

State == {"new", "checked", "allowed", "ran", "shown", "withheld", "blocked", "terminated"}
Record == [tool : Tool, state : State]

(* The inductive invariant.  A turn that kept its focus is still being     *)
(* worked on, has its focus while a call is not yet preflighted, and has   *)
(* let at most one call through, which is then recorded in dispatched.     *)
KeptTurn ==
  kept => /\ phase = "tools"
          /\ NextNew # {} => Focused
          /\ \A i, j \in Ran : i = j
          /\ Ran # {} => dispatched

(* What the gate saw of the focused task is still so while the call that   *)
(* it let through has not run.                                             *)
Directed(i) ==
  (calls[i].state = "allowed" /\ ~WorkflowTool(calls[i].tool))
    => flow.status = "running" \/ (flow.status = "template" /\ calls[i].tool = "read")
KeptTask == kept => \A i \in DOMAIN calls : Directed(i)

TurnInv == TypeOK /\ KeptTurn /\ KeptTask /\ DeniedAnswerIsReplaced

-----------------------------------------------------------------------------
(* The types.                                                              *)
LEMMA CallsType ==
  ASSUME TypeOK
  PROVE  /\ calls \in Seq(Record) /\ DOMAIN calls = 1..Len(calls) /\ Len(calls) \in Nat
         /\ \A i \in DOMAIN calls : calls[i] \in Record
<1>1. calls \in Seq(Record)
  BY DEF TypeOK, Record, State
<1>2. /\ DOMAIN calls = 1..Len(calls) /\ Len(calls) \in Nat
  BY <1>1, LenProperties
<1>3. \A i \in DOMAIN calls : calls[i] \in Record
  BY <1>1, <1>2, ElementOfSeq
<1> QED BY <1>1, <1>2, <1>3

LEMMA MarkType ==
  ASSUME TypeOK, NEW i \in DOMAIN calls, NEW st \in State, Mark(i, st)
  PROVE  /\ calls' \in Seq(Record) /\ DOMAIN calls' = DOMAIN calls
         /\ calls'[i].state = st /\ calls'[i].tool = calls[i].tool
         /\ \A j \in DOMAIN calls \ {i} : calls'[j] = calls[j]
<1>1. /\ calls \in Seq(Record) /\ DOMAIN calls = 1..Len(calls) /\ calls[i] \in Record
  BY CallsType
<1> DEFINE r == [calls[i] EXCEPT !.state = st]
<1>2. r \in Record /\ r.state = st /\ r.tool = calls[i].tool
  BY <1>1 DEF Record
<1>3. calls' = [calls EXCEPT ![i] = r]
  BY DEF Mark
<1>4. calls' \in Seq(Record) /\ Len(calls') = Len(calls)
  BY <1>1, <1>2, <1>3, ExceptSeq
<1>5. DOMAIN calls' = 1..Len(calls')
  BY <1>4, LenProperties
<1>6. /\ calls'[i] = r /\ \A j \in DOMAIN calls \ {i} : calls'[j] = calls[j]
  BY <1>1, <1>3
<1> QED
  BY <1>1, <1>2, <1>4, <1>5, <1>6

LEMMA FlowType ==
  /\ NoFlow \in Flow
  /\ \A t \in Pos, n \in 0..MaxAttempts : At(t, n) \in Flow
  /\ \A m \in Activation : [status |-> m, task |-> 0, attempts |-> 0] \in Flow
  /\ \A t : Next1(t) \in Flow
<1>1. MaxAttempts \in Nat \ {0} /\ Activation \subseteq {"definition", "template"}
  BY AgentTurnAssumption
<1>2. \A t \in Pos, n \in 0..MaxAttempts : At(t, n) \in Flow
  BY DEF At, Flow
<1>3. NoFlow \in Flow
  BY DEF Flow
<1>4. \A m \in Activation : [status |-> m, task |-> 0, attempts |-> 0] \in Flow
  BY <1>1 DEF Flow
<1>5. \A t : Next1(t) \in Flow
  BY <1>1, <1>2, <1>3 DEF Next1
<1> QED
  BY <1>2, <1>3, <1>4, <1>5

LEMMA ClassifiedType == \A c \in Classified : c.f \in Flow /\ c.b \in BOOLEAN
<1> SUFFICES ASSUME NEW c \in Classified PROVE c.f \in Flow /\ c.b \in BOOLEAN
  OBVIOUS
<1>1. CASE \E m \in Activation : c = [f |-> [status |-> m, task |-> 0, attempts |-> 0], b |-> FALSE]
  <2>1. PICK m \in Activation : c = [f |-> [status |-> m, task |-> 0, attempts |-> 0], b |-> FALSE]
    BY <1>1
  <2>2. c.f = [status |-> m, task |-> 0, attempts |-> 0] /\ c.b = FALSE
    BY <2>1
  <2> QED BY <2>2, FlowType
<1>2. CASE \E b \in BOOLEAN : c = [f |-> NoFlow, b |-> b]
  BY <1>2, FlowType
<1> QED
  BY <1>1, <1>2 DEF Classified

LEMMA EffectType ==
  ASSUME TypeOK, NEW tool \in Tool
  PROVE  Effect(tool) \subseteq Flow
<1>1. flow \in Flow /\ MaxAttempts \in Nat \ {0}
  BY AgentTurnAssumption DEF TypeOK
<1>2. At(1, 1) \in Flow
  <2>1. 1 \in Pos
    BY AgentTurnAssumption, LenProperties, EmptySeq DEF Pos
  <2> QED BY <1>1, <2>1, FlowType
<1>3. [flow EXCEPT !.status = "evaluating"] \in Flow
  BY <1>1 DEF Flow, NoFlow
<1>4. ASSUME flow.status = "evaluating", flow.attempts < MaxAttempts
      PROVE  At(flow.task, flow.attempts + 1) \in Flow
  BY <1>1, <1>4 DEF Flow, NoFlow, At
<1>5. Stepped \subseteq Flow
  BY <1>1, <1>3, <1>4, FlowType DEF Stepped
<1> QED
  BY <1>1, <1>2, <1>5, FlowType DEF Effect

AnswerRecord == [text : {"none", "model", "refusal"}, denied : BOOLEAN, failed : BOOLEAN]

LEMMA OutputType ==
  ASSUME NEW rs \in Seq(Mode), NEW a \in Output(rs)
  PROVE  a \in AnswerRecord /\ (a.denied /\ a.text = "model" => a.failed)
<1> DEFINE Refusal == [text |-> "refusal", denied |-> TRUE, failed |-> FALSE]
<1>1. \A n, d : Filtered(rs, n, d) = Refusal \/ Filtered(rs, n, d) = Original
  BY DEF Filtered
<1>2. \/ \E n, d : a = Filtered(rs, n, d)
      \/ a = Kept(Original)
      \/ \E n, d : a = Kept(Filtered(rs, n, d))
  BY DEF Output
<1>3. a \in {Refusal, Original, Kept(Original), Kept(Refusal)}
  BY <1>1, <1>2, Zenon
<1>4. Kept(Original) = [text |-> "model", denied |-> FALSE, failed |-> TRUE]
  BY DEF Kept, Original
<1>5. Kept(Refusal) = [text |-> "model", denied |-> TRUE, failed |-> TRUE]
  BY DEF Kept
<1>6. CASE a = Refusal
  BY <1>6 DEF AnswerRecord
<1>7. CASE a = Original
  BY <1>7 DEF Original, AnswerRecord
<1>8. CASE a = Kept(Original)
  BY <1>4, <1>8 DEF AnswerRecord
<1>9. CASE a = Kept(Refusal)
  <2>1. a = [text |-> "model", denied |-> TRUE, failed |-> TRUE]
    BY <1>5, <1>9, Zenon
  <2>2. a \in AnswerRecord
    BY <2>1 DEF AnswerRecord
  <2>3. a.failed
    BY <2>1
  <2> QED BY <2>2, <2>3
<1> QED
  BY <1>3, <1>6, <1>7, <1>8, <1>9

-----------------------------------------------------------------------------
(* Calls that are preflighted or have run stay so.                         *)
LEMMA MarkKeepsOthers ==
  ASSUME TypeOK, NEW i \in DOMAIN calls, NEW st \in State, Mark(i, st),
         calls[i].state \notin {"new", "checked"}, st \notin {"new", "checked"}
  PROVE  NextNew' \subseteq NextNew
<1>1. /\ DOMAIN calls' = DOMAIN calls /\ calls'[i].state = st
      /\ \A j \in DOMAIN calls \ {i} : calls'[j] = calls[j]
  BY MarkType
<1>2. DOMAIN calls = 1..Len(calls) /\ Len(calls) \in Nat
  BY CallsType
<1> SUFFICES ASSUME NEW k \in NextNew' PROVE k \in NextNew
  OBVIOUS
<1>3. /\ k \in DOMAIN calls /\ k # i /\ calls[k].state \in {"new", "checked"}
      /\ \A j \in 1..(k - 1) : calls'[j].state \notin {"new", "checked"}
  BY <1>1 DEF NextNew
<1>4. ASSUME NEW j \in 1..(k - 1) PROVE calls[j].state \notin {"new", "checked"}
  <2>1. j \in DOMAIN calls
    BY <1>2, <1>3
  <2> QED BY <1>1, <1>3, <2>1
<1> QED
  BY <1>3, <1>4 DEF NextNew

-----------------------------------------------------------------------------
LEMMA InitTurn == Init => TurnInv
<1> SUFFICES ASSUME Init PROVE TurnInv
  OBVIOUS
<1>1. calls \in Seq(Record) /\ flow \in Flow /\ key \in Flow /\ rules \in Rules
  BY FlowType, EmptySeq DEF Init
<1>2. answer \in AnswerRecord
  BY DEF Init, NoAnswer, AnswerRecord
<1>3. phase = "idle" /\ continuations \in 0..3 /\ reflections \in 0..1
  BY DEF Init
<1>4. TypeOK
  BY <1>1, <1>2, <1>3, Zenon DEF Init, TypeOK, AnswerRecord, State, Record
<1> QED
  BY <1>4 DEF Init, TurnInv, KeptTurn, KeptTask, DeniedAnswerIsReplaced, NoAnswer

LEMMA StepTurn == TurnInv /\ [Next]_vars => TurnInv'
<1> SUFFICES ASSUME TurnInv, [Next]_vars PROVE TurnInv'
  OBVIOUS
<1> USE DEF TurnInv
<1>t. /\ flow \in Flow /\ key \in Flow /\ rules \in [Stage -> Seq(Mode)]
  BY AgentTurnAssumption DEF TypeOK
<1>1. CASE UserInput
  <2>1. phase = "idle" /\ ~kept /\ kept' = kept /\ calls' = calls /\ answer' = answer /\ dispatched' = dispatched
    BY <1>1 DEF UserInput, KeptTurn, TypeOK
  <2>2. flow' \in Flow /\ heard' \in BOOLEAN /\ blocked' \in BOOLEAN
    <3>1. CASE UNCHANGED <<phase, flow, blocked, heard, continuations, extensions>>
      BY <3>1 DEF TypeOK
    <3>2. ASSUME NEW f \in Flow, NEW b \in BOOLEAN, Reply(f, b)
          PROVE  flow' \in Flow /\ heard' \in BOOLEAN /\ blocked' \in BOOLEAN
      BY <3>2 DEF Reply
    <3>3. ASSUME NEW c \in Classified, Reply(c.f, c.b)
          PROVE  flow' \in Flow /\ heard' \in BOOLEAN /\ blocked' \in BOOLEAN
      BY <3>2, <3>3, ClassifiedType
    <3>4. \/ UNCHANGED <<phase, flow, blocked, heard, continuations, extensions>>
          \/ Reply(flow, blocked) \/ Reply(NoFlow, blocked) \/ Reply(flow, FALSE)
          \/ \E c \in Classified : Reply(c.f, c.b)
      BY <1>1, Zenon DEF UserInput
    <3>5. blocked \in BOOLEAN /\ NoFlow \in Flow
      BY FlowType DEF TypeOK
    <3> QED BY <1>t, <3>1, <3>2, <3>3, <3>4, <3>5
  <2>3. phase' \in {"idle", "model"} /\ continuations' \in 0..3 /\ reflections' \in 0..1
    <3>1. /\ reflections' = 0
          /\ (phase' = "model" /\ continuations' = 0) \/ UNCHANGED <<phase, continuations>>
      BY <1>1, Zenon DEF UserInput
    <3> QED BY <2>1, <3>1 DEF TypeOK
  <2>4. TypeOK'
    BY <1>1, <2>1, <2>2, <2>3 DEF UserInput, TypeOK
  <2> QED
    BY <2>1, <2>4 DEF KeptTurn, KeptTask, DeniedAnswerIsReplaced
<1>2. CASE TurnCalls
  <2>1. phase' = "tools" /\ dispatched' = FALSE /\ kept' = Focused /\ flow' = flow /\ answer' = answer
    BY <1>2 DEF TurnCalls
  <2>2. PICK n \in 1..MaxCalls : \E ts \in [1..n -> Tool] :
          calls' = [i \in 1..n |-> [tool |-> ts[i], state |-> "new"]]
    BY <1>2 DEF TurnCalls
  <2>3. PICK ts \in [1..n -> Tool] : calls' = [i \in 1..n |-> [tool |-> ts[i], state |-> "new"]]
    BY <2>2
  <2>4. n \in Nat
    BY <2>2
  <2>5. /\ calls' \in [1..n -> Record] /\ \A i \in DOMAIN calls' : calls'[i].state = "new"
    BY <2>3 DEF Record, State
  <2>6. calls' \in Seq(Record)
    BY <2>4, <2>5, SeqDef
  <2>7. TypeOK'
    <3>1. kept' \in BOOLEAN
      BY <2>1 DEF Focused
    <3> QED BY <1>2, <2>1, <2>6, <3>1 DEF TurnCalls, TypeOK, Record, State, Ends
  <2>8. Ran' = {}
    BY <2>5 DEF Ran
  <2>9. KeptTurn'
    BY <2>1, <2>8 DEF KeptTurn, Focused
  <2> QED
    BY <2>1, <2>5, <2>7, <2>9 DEF KeptTask, Directed, DeniedAnswerIsReplaced
<1>3. CASE TurnAnswers
  <2>1. phase = "model" /\ kept' = kept /\ kept = FALSE
    BY <1>3 DEF TurnAnswers, KeptTurn, TypeOK
  <2>2. answer' \in AnswerRecord /\ DeniedAnswerIsReplaced'
    BY <1>3, <1>t, OutputType DEF TurnAnswers, DeniedAnswerIsReplaced, Stage
  <2>3. reflections' \in 0..1
    BY <1>3 DEF TurnAnswers, Reflected, TypeOK
  <2>4. TypeOK'
    BY <1>3, <2>2, <2>3 DEF TurnAnswers, TypeOK, Ends, AnswerRecord
  <2> QED
    BY <2>1, <2>2, <2>4 DEF KeptTurn, KeptTask
<1>4. CASE PreTool
  <2>1. PICK i \in NextNew : /\ calls[i].state = "new"
                             /\ Mark(i, "checked") \/ Mark(i, "terminated")
    BY <1>4 DEF PreTool
  <2>2. i \in DOMAIN calls
    BY DEF NextNew
  <2>3. PICK st \in {"checked", "terminated"} : Mark(i, st)
    BY <2>1
  <2>4. /\ calls' \in Seq(Record) /\ DOMAIN calls' = DOMAIN calls /\ calls'[i].state = st
        /\ \A j \in DOMAIN calls \ {i} : calls'[j] = calls[j]
    BY <2>2, <2>3, MarkType DEF State
  <2>5. TypeOK'
    BY <1>4, <2>4 DEF PreTool, TypeOK, Ends, Record, State
  <2>6. Ran' = Ran
    BY <2>1, <2>2, <2>4 DEF Ran
  <2>7. ASSUME kept' PROVE Focused'
    BY <1>4, <2>7 DEF PreTool, KeptTurn, Focused
  <2>8. KeptTurn'
    BY <1>4, <2>6, <2>7 DEF PreTool, KeptTurn
  <2>9. KeptTask'
    BY <1>4, <2>4 DEF PreTool, KeptTask, Directed
  <2> QED
    BY <1>4, <2>5, <2>8, <2>9 DEF PreTool, DeniedAnswerIsReplaced
<1>5. CASE ReadSkill
  <2>1. PICK i \in NextNew, c \in Classified :
          /\ calls[i].state = "checked" /\ calls[i].tool = "read"
          /\ flow' = c.f /\ blocked' = (blocked \/ c.b)
          /\ \/ Mark(i, "allowed") /\ (UNCHANGED dispatched \/ dispatched' = TRUE)
             \/ Mark(i, "terminated") /\ UNCHANGED dispatched
    <3>1. PICK i \in NextNew, c \in Classified :
            /\ calls[i].state = "checked" /\ calls[i].tool = "read"
            /\ flow' = c.f /\ blocked' = (blocked \/ c.b)
            /\ IF c.f # NoFlow THEN Mark(i, "allowed") /\ UNCHANGED dispatched
               ELSE IF blocked' THEN Mark(i, "terminated") /\ UNCHANGED dispatched
               ELSE Mark(i, "allowed") /\ dispatched' = TRUE
      BY <1>5 DEF ReadSkill
    <3> QED BY <3>1
  <2>2. i \in DOMAIN calls
    BY DEF NextNew
  <2>3. kept = FALSE /\ kept' = kept
    BY <1>5, <2>1 DEF ReadSkill, KeptTurn, TypeOK
  <2>4. calls' \in Seq(Record)
    <3>1. PICK st \in {"allowed", "terminated"} : Mark(i, st)
      BY <2>1
    <3> QED BY <2>2, <3>1, MarkType DEF State
  <2>5. flow' \in Flow /\ blocked' \in BOOLEAN
    BY <2>1, ClassifiedType DEF TypeOK
  <2>6. TypeOK'
    BY <1>5, <2>1, <2>4, <2>5 DEF ReadSkill, TypeOK, Ends, Record, State
  <2> QED
    BY <1>5, <2>3, <2>6 DEF ReadSkill, KeptTurn, KeptTask, DeniedAnswerIsReplaced
<1>6. CASE WorkflowGate
  <2>1. PICK i \in NextNew : calls[i].state = "checked" /\ (Pass(i) \/ Refuse(i))
    BY <1>6 DEF WorkflowGate
  <2>2. i \in DOMAIN calls
    BY DEF NextNew
  <2>3. PICK st \in {"allowed", "blocked", "terminated"} : Mark(i, st) /\ (st = "allowed" <=> Pass(i))
    <3>1. CASE Pass(i)
      BY <3>1 DEF Pass
    <3>2. CASE Refuse(i)
      BY <3>2 DEF Pass, Refuse
    <3> QED BY <2>1, <3>1, <3>2
  <2>4. /\ calls' \in Seq(Record) /\ DOMAIN calls' = DOMAIN calls
        /\ calls'[i].state = st /\ calls'[i].tool = calls[i].tool
        /\ \A j \in DOMAIN calls \ {i} : calls'[j] = calls[j]
    BY <2>2, <2>3, MarkType DEF State
  <2>5. dispatched' \in BOOLEAN
    BY <2>1 DEF Pass, Refuse, TypeOK
  <2>6. TypeOK'
    BY <1>6, <2>4, <2>5 DEF WorkflowGate, TypeOK, Ends, Record, State
  <2>7. ASSUME kept' PROVE KeptTurn' /\ \A k \in DOMAIN calls' : Directed(k)'
    <3>1. kept /\ phase' = "tools" /\ Focused /\ Focused' /\ flow' = flow
      BY <1>6, <2>1, <2>7 DEF WorkflowGate, KeptTurn, Focused
    <3>2. CASE st = "allowed"
      <4>1. Gate(calls[i].tool) /\ dispatched' = TRUE
        BY <2>3, <3>2 DEF Pass
      <4>2. ~dispatched
        BY <3>1, <4>1 DEF Gate, Admits, Undirected
      <4>3. Ran = {}
        BY <3>1, <4>2 DEF KeptTurn
      <4>4. \A k \in Ran' : k = i
        BY <2>4, <4>3 DEF Ran
      <4>5. Directed(i)'
        BY <2>4, <3>1, <4>1 DEF Directed, Gate, Admits, Undirected, Defining, DefinitionTools, WorkflowTool
      <4> QED
        BY <2>4, <3>1, <4>1, <4>4, <4>5 DEF KeptTurn, KeptTask, Directed
    <3>3. CASE st # "allowed"
      <4>1. dispatched' = dispatched
        BY <2>1, <2>3, <3>3 DEF Refuse
      <4>2. Ran' = Ran
        BY <2>1, <2>2, <2>4, <3>3 DEF Ran
      <4> QED
        BY <2>4, <3>1, <3>3, <4>1, <4>2 DEF KeptTurn, KeptTask, Directed
    <3> QED BY <3>2, <3>3
  <2> QED
    BY <1>6, <2>6, <2>7 DEF WorkflowGate, KeptTurn, KeptTask, DeniedAnswerIsReplaced
<1>7. ASSUME NEW i \in DOMAIN calls, Execute(i) PROVE TurnInv'
  <2>1. /\ NextNew = {} /\ calls[i].state = "allowed" /\ Mark(i, "ran")
        /\ phase' = phase /\ kept' = kept /\ dispatched' = dispatched /\ answer' = answer
    BY <1>7 DEF Execute
  <2>2. /\ calls' \in Seq(Record) /\ DOMAIN calls' = DOMAIN calls
        /\ calls'[i].state = "ran" /\ calls'[i].tool = calls[i].tool
        /\ \A j \in DOMAIN calls \ {i} : calls'[j] = calls[j]
    BY <2>1, MarkType DEF State
  <2>3. calls[i].tool \in Tool
    BY CallsType DEF Record
  <2>4. flow' \in Flow /\ heard' \in BOOLEAN /\ blocked' \in BOOLEAN
    <3>1. CASE /\ \E f \in Effect(calls[i].tool) : flow' = f /\ heard' = (heard /\ ~Fresh(f))
               /\ UNCHANGED blocked
      BY <2>3, <3>1, EffectType DEF TypeOK
    <3>2. CASE /\ Unavailable(calls[i].tool) /\ blocked' = TRUE
               /\ UNCHANGED <<flow, heard>>
      BY <3>2 DEF TypeOK
    <3> QED BY <1>7, <3>1, <3>2 DEF Execute
  <2>5. TypeOK'
    BY <1>7, <2>2, <2>4 DEF Execute, TypeOK, Ends, Record, State
  <2>6. NextNew' = {}
    BY <2>1, MarkKeepsOthers DEF State
  <2>7. Ran' = Ran
    BY <2>1, <2>2 DEF Ran
  <2>8. KeptTurn'
    BY <2>1, <2>6, <2>7 DEF KeptTurn
  <2>9. ASSUME kept PROVE \A k \in DOMAIN calls : calls'[k].state # "allowed"
    BY <2>1, <2>2, <2>9 DEF KeptTurn, Ran
  <2>10. KeptTask'
    BY <2>1, <2>2, <2>9 DEF KeptTask, Directed
  <2> QED
    BY <2>1, <2>5, <2>8, <2>10 DEF DeniedAnswerIsReplaced
<1>8. ASSUME NEW i \in DOMAIN calls, PostTool(i) PROVE TurnInv'
  <2>1. PICK st \in {"shown", "withheld"} : Mark(i, st)
    BY <1>8 DEF PostTool
  <2>2. calls[i].state = "ran"
    BY <1>8 DEF PostTool
  <2>3. /\ calls' \in Seq(Record) /\ DOMAIN calls' = DOMAIN calls
        /\ calls'[i].state = st /\ calls'[i].tool = calls[i].tool
        /\ \A j \in DOMAIN calls \ {i} : calls'[j] = calls[j]
    BY <2>1, MarkType DEF State
  <2>4. TypeOK'
    BY <1>8, <2>3 DEF PostTool, TypeOK, Ends, Record, State
  <2>5. NextNew' \subseteq NextNew
    BY <2>1, <2>2, MarkKeepsOthers DEF State
  <2>6. Ran' = Ran
    BY <2>2, <2>3 DEF Ran
  <2>7. KeptTurn'
    BY <1>8, <2>5, <2>6 DEF PostTool, KeptTurn, Focused
  <2>8. KeptTask'
    BY <1>8, <2>3 DEF PostTool, KeptTask, Directed
  <2> QED
    BY <1>8, <2>4, <2>7, <2>8 DEF PostTool, DeniedAnswerIsReplaced
<1>9. CASE TurnEnds
  <2>1. calls' = <<>> /\ kept' = FALSE /\ phase' \in {"ending", "model"} /\ answer' = answer
    BY <1>9 DEF TurnEnds
  <2>2. TypeOK'
    BY <1>9, <2>1, EmptySeq DEF TurnEnds, TypeOK, Ends
  <2> QED
    BY <2>1, <2>2 DEF KeptTurn, KeptTask, DeniedAnswerIsReplaced
<1>10. CASE AgentEnds
  <2>1. phase = "ending" /\ kept' = kept /\ kept = FALSE /\ answer' = NoAnswer
    BY <1>10 DEF AgentEnds, KeptTurn, TypeOK
  <2>2. key' \in Flow /\ continuations' \in 0..3 /\ phase' \in {"model", "idle"}
    BY <1>10, <1>t DEF AgentEnds, Ends, Count, TypeOK
  <2>3. TypeOK'
    BY <1>10, <2>2 DEF AgentEnds, TypeOK, NoAnswer
  <2> QED
    BY <2>1, <2>3 DEF KeptTurn, KeptTask, DeniedAnswerIsReplaced, NoAnswer
<1>11. CASE Abort
  <2>1. kept' = FALSE /\ answer' = NoAnswer
    BY <1>11 DEF Abort
  <2>2. TypeOK'
    BY <1>11, EmptySeq DEF Abort, TypeOK, Ends, NoAnswer
  <2> QED
    BY <2>1, <2>2 DEF KeptTurn, KeptTask, DeniedAnswerIsReplaced, NoAnswer
<1>12. CASE Refocus
  <2>1. kept' = FALSE /\ answer' = answer
    BY <1>12 DEF Refocus
  <2>2. flow' \in Flow
    BY <1>12, AgentTurnAssumption, FlowType DEF Refocus
  <2>3. TypeOK'
    BY <1>12, <2>2 DEF Refocus, TypeOK, Ends
  <2> QED
    BY <2>1, <2>3 DEF KeptTurn, KeptTask, DeniedAnswerIsReplaced
<1>13. CASE UNCHANGED vars
  BY <1>13 DEF vars, TypeOK, KeptTurn, KeptTask, Directed, DeniedAnswerIsReplaced, NextNew,
               Ran, Focused
<1> QED
  BY <1>1, <1>2, <1>3, <1>4, <1>5, <1>6, <1>7, <1>8, <1>9, <1>10, <1>11, <1>12, <1>13
     DEF Next, Loop

-----------------------------------------------------------------------------
(* The turn's invariant holds in every state, for any tool calls, tasks,   *)
(* guardrail rules, aborts and messages of the user.                       *)
THEOREM TurnInvariant == Spec => []TurnInv
<1>1. Init => TurnInv
  BY InitTurn
<1>2. TurnInv /\ [Next]_vars => TurnInv'
  BY StepTurn
<1> QED
  BY <1>1, <1>2, PTL DEF Spec

(* Whatever guardrails an operator installs, no external tool runs at      *)
(* another task than the one the Sequential Workflow gate saw, and no      *)
(* denied answer is left as it was (Inv of the run agent_turn).            *)
THEOREM TurnKeepsItsTask == Spec => []Inv
<1>1. TurnInv => Inv
  BY DEF TurnInv, KeptTask, Directed, Inv, ExternalRunsInAction
<1> QED
  BY <1>1, TurnInvariant, PTL

(* A turn that keeps its focus runs at most one of its calls, however many *)
(* siblings it makes and whatever the guardrails do with them: dispatched  *)
(* is set by the first that passes, before the second is preflighted.      *)
THEOREM FocusedTurnRunsOneCall == Spec => []OneCallWhileFocused
<1>1. TurnInv => OneCallWhileFocused
  <2> SUFFICES ASSUME TurnInv, kept PROVE Cardinality(Ran) <= 1
    BY DEF OneCallWhileFocused
  <2>1. \A i, j \in Ran : i = j
    BY DEF TurnInv, KeptTurn
  <2>2. CASE Ran = {}
    BY <2>2, FS_EmptySet
  <2>3. CASE Ran # {}
    <3>1. PICK i \in Ran : Ran = {i}
      BY <2>1, <2>3
    <3>2. Cardinality({i}) = 1
      BY FS_Singleton
    <3> QED BY <3>1, <3>2
  <2> QED BY <2>2, <2>3
<1> QED
  BY <1>1, TurnInvariant, PTL
=============================================================================
