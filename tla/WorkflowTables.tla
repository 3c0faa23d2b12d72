---------------------------- MODULE WorkflowTables ----------------------------
(***************************************************************************)
(* The two persistent tables of the Sequential Workflow extension          *)
(* (workflows and workflow_tasks) and what each database operation of      *)
(* extensions/sequential-workflow.ts makes of them.  The module has no     *)
(* variables: a database is a value db, db[w] the row of workflow w with   *)
(* its tasks, and every operator returns the database the code leaves      *)
(* behind.  SequentialWorkflow runs these operators in transactions.  A    *)
(* definition commented "mutant" is the faulty form of the next one; only  *)
(* the mutation tests of PROJECT.json use it.                              *)
(***************************************************************************)
EXTENDS Integers

CONSTANTS
  Workflow,           \* identifiers of workflow rows
  NoWorkflow,         \* SQL NULL in parent_workflow_id and child_workflow_id
  Session,            \* Pi session ids
  NoSession,          \* SQL NULL in session_id
  MaxTasks,           \* the most tasks a definition has
  MaxActionAttempts,  \* maxActionAttempts
  AttemptBound,       \* bound on the attempts column of the other types
  Definition          \* the definitions an agent may supply

Pos == 1..MaxTasks
TaskType == {"action", "collect", "evaluate", "workflow"}
TaskDefinition == [type : TaskType, criteria : BOOLEAN]

ASSUME TablesAssumption ==
  /\ NoWorkflow \notin Workflow
  /\ NoSession \notin Session
  /\ MaxTasks \in Nat \ {0}
  /\ MaxActionAttempts \in Nat \ {0}
  /\ AttemptBound \in Nat /\ MaxActionAttempts <= AttemptBound
  /\ \A d \in Definition : \E n \in Pos : d \in [1..n -> TaskDefinition]

(* The statuses; "none" and "absent" stand for a row that does not exist.  *)
ActiveStatus == {"pending_definition", "running", "awaiting_user", "evaluating"}
TerminalStatus == {"completed", "cancelled", "failed"}
WorkflowStatus == ActiveStatus \cup TerminalStatus \cup {"none"}
FrontStatus == {"running", "awaiting_user", "waiting_subworkflow", "evaluating"}
TaskStatus == FrontStatus \cup {"absent", "pending", "accepted", "failed"}

(* checkpoint is the task's row of workflow_collect_checkpoint: NoRow, or  *)
(* the number of a user message, 0 when the branch had none (NULL).        *)
NoRow == -1
Task == [type : TaskType, criteria : BOOLEAN, status : TaskStatus,
         attempts : 0..AttemptBound, child : Workflow \cup {NoWorkflow},
         checkpoint : Nat \cup {NoRow}]
Row == [status : WorkflowStatus, parent : Workflow \cup {NoWorkflow},
        session : Session \cup {NoSession}, tasks : [Pos -> Task]]
Database == [Workflow -> Row]

NewTask(type, criteria, status) ==
  [type |-> type, criteria |-> criteria, status |-> status, attempts |-> 0,
   child |-> NoWorkflow, checkpoint |-> NoRow]
NoTasks == [i \in Pos |-> NewTask("action", FALSE, "absent")]
NoRows == [w \in Workflow |-> [status |-> "none", parent |-> NoWorkflow,
                               session |-> NoSession, tasks |-> NoTasks]]

-----------------------------------------------------------------------------
IsActive(db, w) == db[w].status \in ActiveStatus

(* The current task: the first one neither accepted nor failed.            *)
Open(task) == task.status \notin {"absent", "accepted", "failed"}
IsCurrent(row, k) == /\ k \in Pos
                     /\ Open(row.tasks[k])
                     /\ \A j \in Pos : j < k => ~Open(row.tasks[j])

(* The status a task and its workflow take when the task is (re)activated. *)
Activated(type) == IF type = "collect" THEN "awaiting_user" ELSE "running"

(* Task k of row takes taskStatus and the workflow takes workflowStatus.   *)
Mark(row, k, taskStatus, workflowStatus) ==
  [row EXCEPT !.status = workflowStatus,
              !.tasks = [row.tasks EXCEPT ![k].status = taskStatus]]

(* activateNext on its own row: start the first open task, or complete.    *)
ActivateNext(row) ==
  [row EXCEPT
     !.status = IF \E k \in Pos : IsCurrent(row, k) /\ row.tasks[k].type = "collect"
                THEN "awaiting_user"
                ELSE IF \E k \in Pos : IsCurrent(row, k) THEN "running" ELSE "completed",
     !.tasks = [k \in Pos |->
                  IF IsCurrent(row, k)
                  THEN [row.tasks[k] EXCEPT !.status = Activated(row.tasks[k].type)]
                  ELSE row.tasks[k]]]

(* Task k of row is accepted and the next one is activated.                *)
AcceptTask(row, k) == ActivateNext(Mark(row, k, "accepted", row.status))

-----------------------------------------------------------------------------
(***************************************************************************)
(* resolveParentAfterChild and activateNext call each other: a child that  *)
(* completes may complete its parent, which may complete the grandparent.  *)
(* Ended(db, w) is the set of workflows that end because w did.            *)
(***************************************************************************)
WaitsFor(row, k, c) ==
  row.tasks[k].status = "waiting_subworkflow" /\ row.tasks[k].child = c

(* Completion of c completes p: p waits for c in its last open task, which *)
(* has no criteria.                                                        *)
Lifts(db, p, c) ==
  /\ IsActive(db, p)
  /\ \E k \in Pos : /\ WaitsFor(db[p], k, c)
                    /\ ~db[p].tasks[k].criteria
                    /\ \A j \in Pos \ {k} : ~Open(db[p].tasks[j])

EndedAlone(db, w) == {w}                                          \* mutant
UpwardClosed(db, w, S) ==
  w \in S /\ \A p, c \in Workflow : (c \in S /\ Lifts(db, p, c)) => p \in S

Ended(db, w) ==
  IF db[w].status = "completed"
  THEN {x \in Workflow : \A S \in SUBSET Workflow : UpwardClosed(db, w, S) => x \in S}
  ELSE {w}

(* The task of row p, if any, that learns of the end of a child in E.      *)
InformedUnchecked(db, E, p, k) ==                          \* mutant
  k \in Pos /\ db[p].tasks[k].status = "waiting_subworkflow" /\ db[p].tasks[k].child \in E
Informed(db, E, p, k) ==
  /\ IsActive(db, p)
  /\ k \in Pos
  /\ db[p].tasks[k].status = "waiting_subworkflow"
  /\ db[p].tasks[k].child \in E

(* The end of w satisfies task: a completed child and no criteria to judge.*)
PassesAnyEnd(db, w, task) == ~task.criteria                        \* mutant
Passes(db, w, task) == db[w].status = "completed" /\ ~task.criteria

ResolveParentAfterChild(db, w) ==
  LET E == Ended(db, w)
      Informs(p, k) == Informed(db, E, p, k)
  IN  [p \in Workflow |->
        IF \E k \in Pos : Informs(p, k)
        THEN LET k == CHOOSE k \in Pos : Informs(p, k)
             IN  IF Passes(db, w, db[p].tasks[k]) THEN AcceptTask(db[p], k)
                 ELSE Mark(db[p], k, "evaluating", "evaluating")
        ELSE db[p]]

(* Workflow w gets a new row; when that ends w, its parent is told.        *)
Update(db, w, row) ==
  LET new == [db EXCEPT ![w] = row]
  IN  IF row.status \in TerminalStatus THEN ResolveParentAfterChild(new, w) ELSE new

-----------------------------------------------------------------------------
(* validateDefinition, insertTasks *)
ValidDefinition(d) == \A i \in DOMAIN d : d[i].type = "collect" => d[i].criteria
InsertTasks(d) ==
  [i \in Pos |-> IF i \in DOMAIN d THEN NewTask(d[i].type, d[i].criteria, "pending")
                 ELSE NewTask("action", FALSE, "absent")]

NewRow(session, parent, d) ==
  ActivateNext([status |-> "running", parent |-> parent, session |-> session,
                tasks |-> InsertTasks(d)])

(* createRootWorkflow: a new row, or the definition of a pending one.      *)
CreateRootWorkflow(db, w, s, d) == [db EXCEPT ![w] = NewRow(s, NoWorkflow, d)]
HydrateWorkflow(db, w, d) ==
  [db EXCEPT ![w] = ActivateNext([@ EXCEPT !.status = "running", !.tasks = InsertTasks(d)])]

(* createSubworkflow: the row of child c, linked to the running task k of p.*)
LinkChildWaits(row, k, c) ==                                       \* mutant
  [row EXCEPT !.status = "waiting_subworkflow",
              !.tasks = [row.tasks EXCEPT ![k].child = c,
                                          ![k].status = "waiting_subworkflow"]]
LinkChild(row, k, c) ==
  [row EXCEPT !.tasks = [row.tasks EXCEPT ![k].child = c,
                                          ![k].status = "waiting_subworkflow"]]
CreateSubworkflow(db, p, k, c, s, d) ==
  [db EXCEPT ![c] = NewRow(s, p, d), ![p] = LinkChild(db[p], k, c)]

CancelWorkflow(db, w) == Update(db, w, [db[w] EXCEPT !.status = "cancelled"])

(* sequential_workflow_record_result on the current task k of w.           *)
RecordResult(db, w, k) ==
  Update(db, w, IF db[w].tasks[k].criteria
                THEN Mark(db[w], k, "evaluating", "evaluating")
                ELSE AcceptTask(db[w], k))

(* sequential_workflow_evaluate on the current task k of w.                *)
LastAttempt(t) == t.type = "action" /\ t.attempts + 1 >= MaxActionAttempts
AgainSameReply(t) ==                                               \* mutant
  [t EXCEPT !.status = Activated(t.type), !.attempts = @ + 1,
            !.child = IF t.type = "workflow" THEN NoWorkflow ELSE @]
Again(t) ==
  [t EXCEPT !.status = Activated(t.type), !.attempts = @ + 1, !.checkpoint = NoRow,
            !.child = IF t.type = "workflow" THEN NoWorkflow ELSE @]
RetryTask(row, k) ==
  LET t == row.tasks[k]
      over == LastAttempt(t)
      put == IF over THEN [t EXCEPT !.status = "failed", !.attempts = @ + 1] ELSE Again(t)
  IN  [row EXCEPT !.status = IF over THEN "failed" ELSE Activated(t.type),
                  !.tasks = [row.tasks EXCEPT ![k] = put]]

Outcome == {"accept", "retry", "fail"}
EvaluateTask(db, w, k, outcome) ==
  Update(db, w, CASE outcome = "accept" -> AcceptTask(db[w], k)
                  [] outcome = "retry" -> RetryTask(db[w], k)
                  [] outcome = "fail" -> Mark(db[w], k, "failed", "failed"))

(* restoreTaskAfterUnavailableEvaluation: two guarded updates.             *)
RestoreWorkflow(db, w, k) ==                                       \* mutant
  [db EXCEPT ![w].status = IF @ = "evaluating" THEN Activated(db[w].tasks[k].type) ELSE @]
RestoreTask(db, w, k) ==
  LET to == Activated(db[w].tasks[k].type)
      row == IF db[w].tasks[k].status = "evaluating"
             THEN Mark(db[w], k, to, db[w].status) ELSE db[w]
  IN  [db EXCEPT ![w] = [row EXCEPT !.status = IF @ = "evaluating" THEN to ELSE @]]

(* /workflow-adopt: the root and every descendant by parent_workflow_id.   *)
Children(db, r) == {r} \cup {x \in Workflow : db[x].parent = r}     \* mutant
Tree(db, r) ==
  {x \in Workflow : \A S \in SUBSET Workflow :
     (r \in S /\ \A c \in Workflow : db[c].parent \in S => c \in S) => x \in S}
AdoptTree(db, r, s) ==
  [w \in Workflow |-> IF w \in Tree(db, r) THEN [db[w] EXCEPT !.session = s] ELSE db[w]]
=============================================================================
