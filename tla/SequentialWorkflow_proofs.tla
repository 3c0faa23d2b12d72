----------------------- MODULE SequentialWorkflow_proofs -----------------------
(***************************************************************************)
(* Theorems about SequentialWorkflow for any number of workflows, sessions *)
(* and messages and any definitions.                                       *)
(*                                                                         *)
(* Every step of Next changes the tables by at most two Moves (a recorded  *)
(* result may be judged in the same transaction) followed by the           *)
(* checkpoint that ends a transaction.  An invariant of the tables is      *)
(* therefore proved once per Move, not once per action.                    *)
(***************************************************************************)
EXTENDS WorkflowProperties, FiniteSetTheorems, TLAPS

-----------------------------------------------------------------------------
(* The database operations of WorkflowTables: what each one returns and    *)
(* which columns it keeps.                                                 *)

(* A row operation: the new row is well typed, exists, and has the parent  *)
(* and the session of the old one.                                         *)
Keeps(row, new) ==
  /\ new \in Row
  /\ new.parent = row.parent
  /\ new.session = row.session
  /\ new.status # "none"

(* A database operation that neither creates rows nor changes an owner.    *)
KeepsOwners(d, e) ==
  \A x \in Workflow : /\ e[x].parent = d[x].parent
                      /\ e[x].session = d[x].session
                      /\ e[x].status = "none" <=> d[x].status = "none"

-----------------------------------------------------------------------------
(* Mark changes two statuses and nothing else.                             *)
LEMMA MarkType ==
  ASSUME NEW row \in Row, NEW k \in Pos, NEW ts \in TaskStatus, NEW ws \in WorkflowStatus
  PROVE  /\ Mark(row, k, ts, ws) \in Row
         /\ Mark(row, k, ts, ws).status = ws
         /\ Mark(row, k, ts, ws).parent = row.parent
         /\ Mark(row, k, ts, ws).session = row.session
<1>1. row.tasks \in [Pos -> Task] /\ row.tasks[k] \in Task
  BY DEF Row
<1>2. [row.tasks[k] EXCEPT !.status = ts] \in Task
  BY <1>1 DEF Task
<1>3. QED
  BY <1>1, <1>2 DEF Mark, Row

LEMMA MarkKeeps ==
  ASSUME NEW row \in Row, NEW k \in Pos, NEW ts \in TaskStatus,
         NEW ws \in WorkflowStatus \ {"none"}
  PROVE  Keeps(row, Mark(row, k, ts, ws))
  BY MarkType DEF Keeps

(* activateNext returns a row that runs, awaits its user or is completed.  *)
LEMMA ActivateNextKeeps ==
  ASSUME NEW row \in Row
  PROVE  /\ Keeps(row, ActivateNext(row))
         /\ ActivateNext(row).status \in {"awaiting_user", "running", "completed"}
<1> DEFINE tasks == [k \in Pos |-> IF IsCurrent(row, k)
                       THEN [row.tasks[k] EXCEPT !.status = Activated(row.tasks[k].type)]
                       ELSE row.tasks[k]]
<1>1. tasks \in [Pos -> Task]
  BY DEF Row, Task, Activated, TaskStatus, FrontStatus
<1>2. QED
  BY <1>1 DEF ActivateNext, Row, Keeps, WorkflowStatus, ActiveStatus, TerminalStatus

(* Accepting a task is a Mark and an activateNext.                         *)
LEMMA AcceptTaskKeeps ==
  ASSUME NEW row \in Row, row.status # "none", NEW k \in Pos
  PROVE  /\ Keeps(row, AcceptTask(row, k))
         /\ AcceptTask(row, k).status \in {"awaiting_user", "running", "completed"}
<1>1. row.status \in WorkflowStatus \ {"none"} /\ "accepted" \in TaskStatus
  BY DEF Row, TaskStatus
<1>2. Keeps(row, Mark(row, k, "accepted", row.status))
  BY <1>1, MarkKeeps
<1>3. Mark(row, k, "accepted", row.status) \in Row
  BY <1>2 DEF Keeps
<1>4. QED
  BY <1>2, <1>3, ActivateNextKeeps DEF AcceptTask, Keeps

(* A retry: the attempts column stays within its bound.                    *)
LEMMA RetryTaskKeeps ==
  ASSUME NEW row \in Row, NEW k \in Pos, row.tasks[k].attempts < AttemptBound
  PROVE  Keeps(row, RetryTask(row, k))
<1> DEFINE t == row.tasks[k]
<1>1. t \in Task
  BY DEF Row
<1>2. t.attempts + 1 \in 0..AttemptBound
  BY <1>1, TablesAssumption DEF Task
<1>3. Activated(t.type) \in TaskStatus /\ Activated(t.type) \in WorkflowStatus \ {"none"}
  BY DEF Activated, TaskStatus, FrontStatus, WorkflowStatus, ActiveStatus
<1>4. Again(t) \in Task
  BY <1>1, <1>2, <1>3 DEF Again, Task, NoRow
<1>5. [t EXCEPT !.status = "failed", !.attempts = t.attempts + 1] \in Task
  BY <1>1, <1>2 DEF Task, TaskStatus
<1>6. \A u \in Task : [row.tasks EXCEPT ![k] = u] \in [Pos -> Task]
  BY DEF Row
<1>7. QED
  BY <1>3, <1>4, <1>5, <1>6 DEF RetryTask, Keeps, Row, WorkflowStatus, TerminalStatus

-----------------------------------------------------------------------------
(* The cascade: every row keeps its owner columns, whatever ends.          *)
LEMMA ResolveKeeps ==
  ASSUME NEW d \in Database, NEW w \in Workflow
  PROVE  /\ ResolveParentAfterChild(d, w) \in Database
         /\ KeepsOwners(d, ResolveParentAfterChild(d, w))
<1> DEFINE E == Ended(d, w)
           e == ResolveParentAfterChild(d, w)
           new(p) == LET k == CHOOSE k \in Pos : Informed(d, E, p, k)
                     IN  IF Passes(d, w, d[p].tasks[k]) THEN AcceptTask(d[p], k)
                         ELSE Mark(d[p], k, "evaluating", "evaluating")
<1>1. ASSUME NEW p \in Workflow, \E k \in Pos : Informed(d, E, p, k)
      PROVE  Keeps(d[p], new(p)) /\ d[p].status # "none"
  <2>1. PICK k \in Pos : k = CHOOSE i \in Pos : Informed(d, E, p, i)
    BY <1>1
  <2>2. d[p] \in Row /\ d[p].status # "none"
    BY <1>1 DEF Database, Informed, IsActive, ActiveStatus
  <2>3. Keeps(d[p], AcceptTask(d[p], k))
    BY <2>2, AcceptTaskKeeps
  <2>4. Keeps(d[p], Mark(d[p], k, "evaluating", "evaluating"))
    <3>1. "evaluating" \in TaskStatus /\ "evaluating" \in WorkflowStatus \ {"none"}
      BY DEF TaskStatus, FrontStatus, WorkflowStatus, ActiveStatus
    <3>2. QED
      BY <2>2, <3>1, MarkKeeps
  <2>5. QED
    BY <2>1, <2>2, <2>3, <2>4
<1>2. \A p \in Workflow : e[p] = IF \E k \in Pos : Informed(d, E, p, k) THEN new(p) ELSE d[p]
  BY DEF ResolveParentAfterChild
<1>3. e = [p \in Workflow |-> e[p]]
  BY DEF ResolveParentAfterChild
<1> HIDE DEF new, e, E
<1>4. \A p \in Workflow : e[p] \in Row
  BY <1>1, <1>2 DEF Keeps, Database
<1>5. KeepsOwners(d, e)
  BY <1>1, <1>2 DEF Keeps, KeepsOwners
<1>6. QED
  BY <1>3, <1>4, <1>5 DEF Database, e

LEMMA UpdateKeeps ==
  ASSUME NEW d \in Database, NEW w \in Workflow, NEW row,
         d[w].status # "none", Keeps(d[w], row)
  PROVE  /\ Update(d, w, row) \in Database
         /\ KeepsOwners(d, Update(d, w, row))
<1> DEFINE new == [d EXCEPT ![w] = row]
<1>1. new \in Database /\ KeepsOwners(d, new)
  BY DEF Database, Keeps, KeepsOwners
<1>2. /\ ResolveParentAfterChild(new, w) \in Database
      /\ KeepsOwners(new, ResolveParentAfterChild(new, w))
  BY <1>1, ResolveKeeps
<1>3. KeepsOwners(d, ResolveParentAfterChild(new, w))
  BY <1>1, <1>2 DEF KeepsOwners
<1>4. QED
  BY <1>1, <1>2, <1>3 DEF Update

(* The four transactions that move a workflow.                             *)
LEMMA CancelKeeps ==
  ASSUME NEW d \in Database, NEW w \in Workflow, d[w].status # "none"
  PROVE  CancelWorkflow(d, w) \in Database /\ KeepsOwners(d, CancelWorkflow(d, w))
<1>1. Keeps(d[w], [d[w] EXCEPT !.status = "cancelled"])
  BY DEF Database, Row, Keeps, WorkflowStatus, TerminalStatus
<1>2. QED
  BY <1>1, UpdateKeeps DEF CancelWorkflow

LEMMA RecordKeeps ==
  ASSUME NEW d \in Database, NEW w \in Workflow, NEW k \in Pos, d[w].status # "none"
  PROVE  RecordResult(d, w, k) \in Database /\ KeepsOwners(d, RecordResult(d, w, k))
<1>1. d[w] \in Row /\ "evaluating" \in TaskStatus /\ "evaluating" \in WorkflowStatus \ {"none"}
  BY DEF Database, TaskStatus, FrontStatus, WorkflowStatus, ActiveStatus
<1>2. Keeps(d[w], Mark(d[w], k, "evaluating", "evaluating"))
  BY <1>1, MarkKeeps
<1>3. Keeps(d[w], AcceptTask(d[w], k))
  BY <1>1, AcceptTaskKeeps
<1>4. QED
  BY <1>2, <1>3, UpdateKeeps DEF RecordResult

LEMMA EvaluateKeeps ==
  ASSUME NEW d \in Database, NEW w \in Workflow, NEW k \in Pos, NEW outcome \in Outcome,
         d[w].status # "none", outcome = "retry" => d[w].tasks[k].attempts < AttemptBound
  PROVE  /\ EvaluateTask(d, w, k, outcome) \in Database
         /\ KeepsOwners(d, EvaluateTask(d, w, k, outcome))
<1>1. d[w] \in Row /\ "failed" \in TaskStatus /\ "failed" \in WorkflowStatus \ {"none"}
  BY DEF Database, TaskStatus, WorkflowStatus, TerminalStatus
<1>2. CASE outcome = "accept"
  BY <1>1, <1>2, AcceptTaskKeeps, UpdateKeeps DEF EvaluateTask
<1>3. CASE outcome = "retry"
  BY <1>1, <1>3, RetryTaskKeeps, UpdateKeeps DEF EvaluateTask
<1>4. CASE outcome = "fail"
  BY <1>1, <1>4, MarkKeeps, UpdateKeeps DEF EvaluateTask
<1>5. QED
  BY <1>2, <1>3, <1>4 DEF Outcome

LEMMA RestoreKeeps ==
  ASSUME NEW d \in Database, NEW w \in Workflow, NEW k \in Pos
  PROVE  RestoreTask(d, w, k) \in Database /\ KeepsOwners(d, RestoreTask(d, w, k))
<1> DEFINE to == Activated(d[w].tasks[k].type)
           row == IF d[w].tasks[k].status = "evaluating"
                  THEN Mark(d[w], k, to, d[w].status) ELSE d[w]
           new == [row EXCEPT !.status = IF row.status = "evaluating" THEN to ELSE row.status]
<1>1. d[w] \in Row /\ d[w].status \in WorkflowStatus
  BY DEF Database, Row
<1>2. to \in TaskStatus /\ to \in WorkflowStatus \ {"none"}
  BY DEF Activated, TaskStatus, FrontStatus, WorkflowStatus, ActiveStatus
<1>3. /\ row \in Row /\ row.status = d[w].status
      /\ row.parent = d[w].parent /\ row.session = d[w].session
  BY <1>1, <1>2, MarkType
<1>4. /\ new \in Row /\ new.parent = d[w].parent /\ new.session = d[w].session
      /\ new.status = "none" <=> d[w].status = "none"
  BY <1>2, <1>3 DEF Row
<1>5. RestoreTask(d, w, k) = [d EXCEPT ![w] = new]
  BY DEF RestoreTask
<1> HIDE DEF new
<1>6. QED
  BY <1>4, <1>5 DEF KeepsOwners, Database
-----------------------------------------------------------------------------
(* New rows: tasks in the order of the definition, the first one active.   *)
LEMMA InsertTasksType ==
  ASSUME NEW def \in Definition
  PROVE  InsertTasks(def) \in [Pos -> Task]
<1>1. PICK n \in Pos : def \in [1..n -> TaskDefinition]
  BY TablesAssumption
<1>2. \A i \in DOMAIN def : def[i].type \in TaskType /\ def[i].criteria \in BOOLEAN
  BY <1>1 DEF TaskDefinition
<1>3. \A type \in TaskType, criteria \in BOOLEAN, status \in {"pending", "absent"} :
        NewTask(type, criteria, status) \in Task
  BY TablesAssumption DEF NewTask, Task, TaskStatus, NoRow
<1>4. \A i \in DOMAIN def : NewTask(def[i].type, def[i].criteria, "pending") \in Task
  BY <1>2, <1>3
<1>5. NewTask("action", FALSE, "absent") \in Task
  BY <1>3 DEF TaskType
<1>6. QED
  BY <1>4, <1>5 DEF InsertTasks

LEMMA NewRowType ==
  ASSUME NEW s \in Session, NEW parent \in Workflow \cup {NoWorkflow}, NEW def \in Definition
  PROVE  /\ NewRow(s, parent, def) \in Row
         /\ NewRow(s, parent, def).parent = parent
         /\ NewRow(s, parent, def).session = s
         /\ NewRow(s, parent, def).status # "none"
<1> DEFINE row == [status |-> "running", parent |-> parent, session |-> s,
                   tasks |-> InsertTasks(def)]
<1>1. row \in Row
  BY InsertTasksType DEF Row, WorkflowStatus, ActiveStatus
<1>2. Keeps(row, ActivateNext(row))
  BY <1>1, ActivateNextKeeps
<1>3. QED
  BY <1>2 DEF Keeps, NewRow

LEMMA HydrateKeeps ==
  ASSUME NEW d \in Database, NEW w \in Workflow, d[w].status # "none", NEW def \in Definition
  PROVE  HydrateWorkflow(d, w, def) \in Database /\ KeepsOwners(d, HydrateWorkflow(d, w, def))
<1> DEFINE row == [d[w] EXCEPT !.status = "running", !.tasks = InsertTasks(def)]
<1>1. row \in Row /\ row.parent = d[w].parent /\ row.session = d[w].session
  BY InsertTasksType DEF Database, Row, WorkflowStatus, ActiveStatus
<1>2. Keeps(row, ActivateNext(row))
  BY <1>1, ActivateNextKeeps
<1>3. QED
  BY <1>1, <1>2 DEF HydrateWorkflow, Keeps, KeepsOwners, Database

LEMMA LinkChildType ==
  ASSUME NEW row \in Row, NEW k \in Pos, NEW c \in Workflow
  PROVE  /\ LinkChild(row, k, c) \in Row
         /\ LinkChild(row, k, c).parent = row.parent
         /\ LinkChild(row, k, c).session = row.session
         /\ LinkChild(row, k, c).status = row.status
<1> DEFINE t == [row.tasks[k] EXCEPT !.child = c, !.status = "waiting_subworkflow"]
<1>1. row.tasks[k] \in Task /\ "waiting_subworkflow" \in TaskStatus
  BY DEF Row, TaskStatus, FrontStatus
<1>2. t \in Task
  BY <1>1 DEF Task
<1>3. LinkChild(row, k, c) = [row EXCEPT !.tasks = [row.tasks EXCEPT ![k] = t]]
  BY DEF LinkChild, Row
<1>4. QED
  BY <1>2, <1>3 DEF Row

(* A child row is added and the parent task waits for it: every other row, *)
(* and the owner columns of the parent, stay.                              *)
LEMMA CreateSubworkflowType ==
  ASSUME NEW d \in Database, NEW p \in Workflow, NEW c \in Workflow \ {p}, NEW k \in Pos,
         NEW s \in Session, NEW def \in Definition
  PROVE  /\ CreateSubworkflow(d, p, k, c, s, def) \in Database
         /\ CreateSubworkflow(d, p, k, c, s, def)[c].parent = p
         /\ CreateSubworkflow(d, p, k, c, s, def)[c].session = s
         /\ CreateSubworkflow(d, p, k, c, s, def)[c].status # "none"
         /\ \A x \in Workflow \ {c} :
              /\ CreateSubworkflow(d, p, k, c, s, def)[x].parent = d[x].parent
              /\ CreateSubworkflow(d, p, k, c, s, def)[x].session = d[x].session
              /\ CreateSubworkflow(d, p, k, c, s, def)[x].status = d[x].status
<1> DEFINE parent == LinkChild(d[p], k, c)
<1>1. d[p] \in Row
  BY DEF Database
<1>2. /\ parent \in Row /\ parent.parent = d[p].parent
      /\ parent.session = d[p].session /\ parent.status = d[p].status
  BY <1>1, LinkChildType
<1>3. /\ NewRow(s, p, def) \in Row /\ NewRow(s, p, def).parent = p
      /\ NewRow(s, p, def).session = s /\ NewRow(s, p, def).status # "none"
  BY NewRowType
<1>4. CreateSubworkflow(d, p, k, c, s, def) =
        [x \in Workflow |-> IF x = c THEN NewRow(s, p, def) ELSE IF x = p THEN parent ELSE d[x]]
  BY DEF CreateSubworkflow, Database
<1> HIDE DEF parent
<1>5. QED
  BY <1>2, <1>3, <1>4 DEF Database

-----------------------------------------------------------------------------
(* The recursive query of /workflow-adopt returns the root, every child of *)
(* what it returns, and nothing else.                                      *)
LEMMA TreeHasRoot ==
  ASSUME NEW d, NEW r \in Workflow
  PROVE  r \in Tree(d, r)
  BY DEF Tree

LEMMA TreeHasChildren ==
  ASSUME NEW d, NEW r \in Workflow, NEW c \in Workflow, d[c].parent \in Tree(d, r)
  PROVE  c \in Tree(d, r)
  BY DEF Tree

LEMMA TreeHasNoOther ==
  ASSUME NEW d, NEW r \in Workflow, NEW x \in Tree(d, r), x # r
  PROVE  d[x].parent \in Tree(d, r)
<1> DEFINE S == {y \in Tree(d, r) : y = r \/ d[y].parent \in Tree(d, r)}
<1>1. S \in SUBSET Workflow
  BY DEF Tree
<1>2. r \in S
  BY TreeHasRoot
<1>3. \A c \in Workflow : d[c].parent \in S => c \in S
  BY TreeHasChildren
<1>4. x \in S
  BY <1>1, <1>2, <1>3 DEF Tree
<1>5. QED
  BY <1>4

LEMMA AdoptTreeType ==
  ASSUME NEW d \in Database, NEW r \in Workflow, NEW s \in Session
  PROVE  AdoptTree(d, r, s) \in Database
<1>1. \A x \in Workflow : [d[x] EXCEPT !.session = s] \in Row
  BY DEF Database, Row
<1>2. QED
  BY <1>1 DEF AdoptTree, Database

-----------------------------------------------------------------------------
(* Which columns of its tasks a row operation changes.                     *)
SameTasks(row, new) == \A j \in Pos : /\ new.tasks[j].type = row.tasks[j].type
                                      /\ new.tasks[j].criteria = row.tasks[j].criteria

(* The task that becomes current when task k of row is over.               *)
NextOpen(row, k, j) ==
  /\ j \in Pos \ {k} /\ Open(row.tasks[j])
  /\ \A i \in Pos \ {k} : i < j => ~Open(row.tasks[i])

LEMMA MarkTasks ==
  ASSUME NEW row \in Row, NEW k \in Pos, NEW ts \in TaskStatus, NEW ws \in WorkflowStatus
  PROVE  /\ SameTasks(row, Mark(row, k, ts, ws))
         /\ Mark(row, k, ts, ws).tasks[k].status = ts
         /\ \A j \in Pos \ {k} : Mark(row, k, ts, ws).tasks[j].status = row.tasks[j].status
         /\ \A j \in Pos : Mark(row, k, ts, ws).tasks[j].child = row.tasks[j].child
<1>1. row.tasks \in [Pos -> Task] /\ row.tasks[k] \in Task
  BY DEF Row
<1>2. Mark(row, k, ts, ws).tasks = [row.tasks EXCEPT ![k].status = ts]
  BY DEF Mark, Row
<1>3. QED
  BY <1>1, <1>2 DEF SameTasks, Task

LEMMA ActivateNextTasks ==
  ASSUME NEW row \in Row
  PROVE  /\ SameTasks(row, ActivateNext(row))
         /\ \A j \in Pos : /\ ActivateNext(row).tasks[j].child = row.tasks[j].child
                           /\ ActivateNext(row).tasks[j].status =
                                IF IsCurrent(row, j) THEN Activated(row.tasks[j].type)
                                ELSE row.tasks[j].status
         /\ ActivateNext(row).status =
              IF \E j \in Pos : IsCurrent(row, j) /\ row.tasks[j].type = "collect"
              THEN "awaiting_user"
              ELSE IF \E j \in Pos : IsCurrent(row, j) THEN "running" ELSE "completed"
<1>1. row.tasks \in [Pos -> Task] /\ \A j \in Pos : row.tasks[j] \in Task
  BY DEF Row
<1>2. ActivateNext(row).tasks = [j \in Pos |-> IF IsCurrent(row, j)
                       THEN [row.tasks[j] EXCEPT !.status = Activated(row.tasks[j].type)]
                       ELSE row.tasks[j]]
  BY DEF ActivateNext, Row
<1>3. ActivateNext(row).status =
        IF \E j \in Pos : IsCurrent(row, j) /\ row.tasks[j].type = "collect"
        THEN "awaiting_user"
        ELSE IF \E j \in Pos : IsCurrent(row, j) THEN "running" ELSE "completed"
  BY DEF ActivateNext, Row
<1>4. QED
  BY <1>1, <1>2, <1>3 DEF SameTasks, Task

LEMMA AcceptTaskTasks ==
  ASSUME NEW row \in Row, NEW k \in Pos
  PROVE  /\ SameTasks(row, AcceptTask(row, k))
         /\ \A j \in Pos : AcceptTask(row, k).tasks[j].child = row.tasks[j].child
         /\ AcceptTask(row, k).tasks[k].status = "accepted"
         /\ \A j \in Pos \ {k} : AcceptTask(row, k).tasks[j].status =
              IF NextOpen(row, k, j) THEN Activated(row.tasks[j].type) ELSE row.tasks[j].status
         /\ AcceptTask(row, k).status =
              IF \E j \in Pos : NextOpen(row, k, j) /\ row.tasks[j].type = "collect"
              THEN "awaiting_user"
              ELSE IF \E j \in Pos : NextOpen(row, k, j) THEN "running" ELSE "completed"
<1> DEFINE m == Mark(row, k, "accepted", row.status)
<1>1. "accepted" \in TaskStatus /\ row.status \in WorkflowStatus
  BY DEF TaskStatus, Row
<1>2. /\ m \in Row /\ SameTasks(row, m) /\ m.tasks[k].status = "accepted"
      /\ \A j \in Pos \ {k} : m.tasks[j].status = row.tasks[j].status
      /\ \A j \in Pos : m.tasks[j].child = row.tasks[j].child
  BY <1>1, MarkType, MarkTasks
<1>3. AcceptTask(row, k) = ActivateNext(m)
  BY DEF AcceptTask
<1> HIDE DEF m
<1>4. \A j \in Pos : IsCurrent(m, j) <=> NextOpen(row, k, j)
  BY <1>2 DEF IsCurrent, NextOpen, Open
<1> DEFINE n == AcceptTask(row, k)
<1>5. /\ SameTasks(m, n)
      /\ \A j \in Pos : /\ n.tasks[j].child = m.tasks[j].child
                        /\ n.tasks[j].status = IF IsCurrent(m, j) THEN Activated(m.tasks[j].type)
                                                 ELSE m.tasks[j].status
      /\ n.status = IF \E j \in Pos : IsCurrent(m, j) /\ m.tasks[j].type = "collect"
                    THEN "awaiting_user"
                    ELSE IF \E j \in Pos : IsCurrent(m, j) THEN "running" ELSE "completed"
  BY <1>2, <1>3, ActivateNextTasks
<1> HIDE DEF n
<1>6. SameTasks(row, n) /\ \A j \in Pos : n.tasks[j].child = row.tasks[j].child
  BY <1>2, <1>5 DEF SameTasks
<1>7. ~NextOpen(row, k, k)
  BY DEF NextOpen
<1>8. /\ n.tasks[k].status = "accepted"
      /\ \A j \in Pos \ {k} : n.tasks[j].status =
            IF NextOpen(row, k, j) THEN Activated(row.tasks[j].type) ELSE row.tasks[j].status
  BY <1>2, <1>4, <1>5, <1>7 DEF SameTasks
<1>9. n.status = IF \E j \in Pos : NextOpen(row, k, j) /\ row.tasks[j].type = "collect"
                 THEN "awaiting_user"
                 ELSE IF \E j \in Pos : NextOpen(row, k, j) THEN "running" ELSE "completed"
  BY <1>2, <1>4, <1>5 DEF SameTasks
<1>10. QED
  BY <1>6, <1>8, <1>9 DEF n

LEMMA RetryTaskTasks ==
  ASSUME NEW row \in Row, NEW k \in Pos, row.tasks[k].attempts < AttemptBound
  PROVE  /\ SameTasks(row, RetryTask(row, k))
         /\ \A j \in Pos \ {k} : /\ RetryTask(row, k).tasks[j].status = row.tasks[j].status
                                 /\ RetryTask(row, k).tasks[j].child = row.tasks[j].child
         /\ \/ /\ RetryTask(row, k).status = "failed"
               /\ RetryTask(row, k).tasks[k].status = "failed"
               /\ RetryTask(row, k).tasks[k].child = row.tasks[k].child
            \/ /\ RetryTask(row, k).status = Activated(row.tasks[k].type)
               /\ RetryTask(row, k).tasks[k].status = Activated(row.tasks[k].type)
               /\ RetryTask(row, k).tasks[k].child =
                     IF row.tasks[k].type = "workflow" THEN NoWorkflow ELSE row.tasks[k].child
<1> DEFINE t == row.tasks[k]
           put == IF LastAttempt(t) THEN [t EXCEPT !.status = "failed", !.attempts = @ + 1]
                  ELSE Again(t)
<1>1. t \in Task /\ row.tasks \in [Pos -> Task]
  BY DEF Row
<1>2. /\ RetryTask(row, k).tasks = [row.tasks EXCEPT ![k] = put]
      /\ RetryTask(row, k).status = IF LastAttempt(t) THEN "failed" ELSE Activated(t.type)
  BY DEF RetryTask, Row
<1>3. /\ put.type = t.type /\ put.criteria = t.criteria
      /\ LastAttempt(t) => put.status = "failed" /\ put.child = t.child
      /\ ~LastAttempt(t) => /\ put.status = Activated(t.type)
                            /\ put.child = IF t.type = "workflow" THEN NoWorkflow ELSE t.child
  BY <1>1 DEF Again, Task
<1> HIDE DEF put
<1>4. QED
  BY <1>1, <1>2, <1>3 DEF SameTasks

(* What the end of w makes of a row: nothing, or its waiting task is       *)
(* accepted or goes to be judged.                                          *)
LEMMA ResolveCases ==
  ASSUME NEW d \in Database, NEW w \in Workflow, NEW p \in Workflow
  PROVE  \/ /\ ResolveParentAfterChild(d, w)[p] = d[p]
            /\ \A k \in Pos : ~Informed(d, Ended(d, w), p, k)
         \/ \E k \in Pos :
              /\ Informed(d, Ended(d, w), p, k)
              /\ ResolveParentAfterChild(d, w)[p] =
                   IF Passes(d, w, d[p].tasks[k]) THEN AcceptTask(d[p], k)
                   ELSE Mark(d[p], k, "evaluating", "evaluating")
<1> DEFINE E == Ended(d, w)
           new(k) == IF Passes(d, w, d[p].tasks[k]) THEN AcceptTask(d[p], k)
                     ELSE Mark(d[p], k, "evaluating", "evaluating")
<1>1. ResolveParentAfterChild(d, w)[p] =
        IF \E k \in Pos : Informed(d, E, p, k)
        THEN new(CHOOSE k \in Pos : Informed(d, E, p, k)) ELSE d[p]
  BY DEF ResolveParentAfterChild
<1> HIDE DEF new, E
<1>2. CASE \E k \in Pos : Informed(d, E, p, k)
  <2>1. PICK k \in Pos : k = CHOOSE i \in Pos : Informed(d, E, p, i)
    BY <1>2
  <2>2. Informed(d, E, p, k)
    BY <1>2, <2>1
  <2>3. ResolveParentAfterChild(d, w)[p] = new(k)
    BY <1>1, <1>2, <2>1
  <2>4. QED
    BY <2>2, <2>3 DEF new, E
<1>3. QED
  BY <1>1, <1>2 DEF E

LEMMA LinkChildTasks ==
  ASSUME NEW row \in Row, NEW k \in Pos, NEW c \in Workflow
  PROVE  /\ SameTasks(row, LinkChild(row, k, c))
         /\ LinkChild(row, k, c).tasks[k].status = "waiting_subworkflow"
         /\ LinkChild(row, k, c).tasks[k].child = c
         /\ \A j \in Pos \ {k} : LinkChild(row, k, c).tasks[j] = row.tasks[j]
<1>1. row.tasks \in [Pos -> Task] /\ row.tasks[k] \in Task
  BY DEF Row
<1>2. LinkChild(row, k, c).tasks =
        [row.tasks EXCEPT ![k] = [row.tasks[k] EXCEPT !.child = c, !.status = "waiting_subworkflow"]]
  BY DEF LinkChild, Row
<1>3. QED
  BY <1>1, <1>2 DEF SameTasks, Task

LEMMA RestoreTasks ==
  ASSUME NEW d \in Database, NEW w \in Workflow, NEW k \in Pos, NEW e, e = RestoreTask(d, w, k)
  PROVE  /\ SameTasks(d[w], e[w])
         /\ \A j \in Pos : e[w].tasks[j].child = d[w].tasks[j].child
         /\ \A j \in Pos \ {k} : e[w].tasks[j].status = d[w].tasks[j].status
         /\ e[w].tasks[k].status = IF d[w].tasks[k].status = "evaluating"
                                   THEN Activated(d[w].tasks[k].type) ELSE d[w].tasks[k].status
         /\ e[w].status = IF d[w].status = "evaluating"
                          THEN Activated(d[w].tasks[k].type) ELSE d[w].status
         /\ \A x \in Workflow \ {w} : e[x] = d[x]
<1> DEFINE to == Activated(d[w].tasks[k].type)
           marked == Mark(d[w], k, to, d[w].status)
           row == IF d[w].tasks[k].status = "evaluating" THEN marked ELSE d[w]
           new == [row EXCEPT !.status = IF row.status = "evaluating" THEN to ELSE row.status]
<1>1. d[w] \in Row /\ d[w].status \in WorkflowStatus /\ to \in TaskStatus
  BY DEF Database, Row, Activated, TaskStatus, FrontStatus
<1>2. /\ marked \in Row /\ marked.status = d[w].status
      /\ SameTasks(d[w], marked) /\ marked.tasks[k].status = to
      /\ \A j \in Pos \ {k} : marked.tasks[j].status = d[w].tasks[j].status
      /\ \A j \in Pos : marked.tasks[j].child = d[w].tasks[j].child
  BY <1>1, MarkType, MarkTasks
<1> HIDE DEF to, marked
<1>3. /\ row \in Row /\ row.status = d[w].status /\ SameTasks(d[w], row)
      /\ row.tasks[k].status = IF d[w].tasks[k].status = "evaluating" THEN to
                               ELSE d[w].tasks[k].status
      /\ \A j \in Pos \ {k} : row.tasks[j].status = d[w].tasks[j].status
      /\ \A j \in Pos : row.tasks[j].child = d[w].tasks[j].child
  BY <1>1, <1>2 DEF SameTasks
<1> HIDE DEF row
<1>4. /\ new.tasks = row.tasks
      /\ new.status = IF d[w].status = "evaluating" THEN to ELSE d[w].status
  BY <1>3 DEF Row
<1>5. e = [d EXCEPT ![w] = new]
  BY DEF RestoreTask, row, to, marked
<1> HIDE DEF new
<1>6. e[w] = new /\ \A x \in Workflow \ {w} : e[x] = d[x]
  BY <1>5 DEF Database
<1>7. QED
  BY <1>3, <1>4, <1>6 DEF SameTasks, to

(* A supplied definition leaves no row undefined.                          *)
LEMMA NewRowDefined ==
  ASSUME NEW s \in Session, NEW parent \in Workflow \cup {NoWorkflow}, NEW def \in Definition
  PROVE  NewRow(s, parent, def).status \in {"awaiting_user", "running", "completed"}
<1> DEFINE row == [status |-> "running", parent |-> parent, session |-> s,
                   tasks |-> InsertTasks(def)]
<1>1. row \in Row
  BY InsertTasksType DEF Row, WorkflowStatus, ActiveStatus
<1>2. QED
  BY <1>1, ActivateNextKeeps DEF NewRow

-----------------------------------------------------------------------------
(* Definition 1.  The typing invariant: all of TypeOK but the saved stacks.*)
TypeInv == db \in Database /\ HostTypeOK

(* A row without a definition has no tasks, and an input handler works on a*)
(* Collect task: the workflow it read has its definition for good.         *)
Undefined(row) == row.status \in {"none", "pending_definition"}
Blank(row) == Undefined(row) => \A k \in Pos : row.tasks[k].status = "absent"
HandlersAnswerCollect ==
  \A s \in Session : input[s].phase # "idle" =>
     /\ ~Undefined(db[input[s].w])
     /\ db[input[s].w].tasks[input[s].k].type = "collect"
BaseInv ==
  /\ TypeInv
  /\ \A w \in Workflow : Blank(db[w])
  /\ HandlersAnswerCollect

(* Definition 2.  What one operation of the extension may make of the      *)
(* database d on behalf of session s.                                      *)
NewRoot(d, e, s) == \E w \in Workflow, def \in Definition :
  d[w].status = "none" /\ e = CreateRootWorkflow(d, w, s, def)
NewPending(d, e, s) == \E w \in Workflow :
  /\ d[w].status = "none"
  /\ e = [d EXCEPT ![w] = [status |-> "pending_definition", parent |-> NoWorkflow,
                           session |-> s, tasks |-> NoTasks]]
Hydrated(d, e, s) == \E w \in Workflow, def \in Definition :
  /\ Live(d, s, w) /\ d[w].status = "pending_definition"
  /\ e = HydrateWorkflow(d, w, def)
NewChild(d, e, s) == \E p, c \in Workflow, k \in Pos, def \in Definition :
  /\ Live(d, s, p) /\ IsCurrent(d[p], k)
  /\ d[p].tasks[k].type = "workflow" /\ d[p].tasks[k].status = "running"
  /\ d[p].tasks[k].child = NoWorkflow
  /\ d[c].status = "none" /\ e = CreateSubworkflow(d, p, k, c, s, def)
Recorded(d, e) == \E w \in Workflow, k \in Pos :
  /\ IsActive(d, w) /\ IsCurrent(d[w], k)
  /\ d[w].tasks[k].type \in {"action", "collect"} /\ d[w].tasks[k].status # "evaluating"
  /\ e = RecordResult(d, w, k)
Evaluated(d, e) == \E w \in Workflow, k \in Pos, outcome \in Outcome :
  /\ IsActive(d, w) /\ IsCurrent(d[w], k)
  /\ d[w].tasks[k].type = "evaluate" \/ d[w].tasks[k].status = "evaluating"
  /\ outcome = "retry" => d[w].tasks[k].attempts < AttemptBound
  /\ e = EvaluateTask(d, w, k, outcome)
Restored(d, e) == \E w \in Workflow, k \in Pos :
  /\ IsCurrent(d[w], k) /\ d[w].tasks[k].type \in {"action", "collect"}
  /\ e = RestoreTask(d, w, k)
Cancelled(d, e) == \E w \in Workflow : IsActive(d, w) /\ e = CancelWorkflow(d, w)
Dropped(d, e) == \E w \in Workflow :
  d[w].status = "pending_definition" /\ e = [d EXCEPT ![w].status = "cancelled"]
Adopted(d, e, s) == \E r \in Workflow :
  IsActive(d, r) /\ d[r].parent = NoWorkflow /\ e = AdoptTree(d, r, s)

Move(d, e, s) ==
  \/ e = d
  \/ NewRoot(d, e, s) \/ NewPending(d, e, s) \/ Hydrated(d, e, s) \/ NewChild(d, e, s)
  \/ Recorded(d, e) \/ Evaluated(d, e) \/ Restored(d, e)
  \/ Cancelled(d, e) \/ Dropped(d, e) \/ Adopted(d, e, s)

(* Definition 3.  One transaction of session s: one Move, or a result that *)
(* the automatic evaluation judges in the transaction that records it.     *)
RecordedToJudge(d, e) ==
  /\ "system_one" \in Evaluator
  /\ \E w \in Workflow, k \in Pos :
       /\ IsActive(d, w) /\ IsCurrent(d[w], k)
       /\ d[w].tasks[k].type \in {"action", "collect"}
       /\ e = [d EXCEPT ![w] = Mark(d[w], k, "evaluating", "evaluating")]
Transaction(s) == \E d1, d2, stack :
  /\ Move(db, d1, s) /\ Move(d1, d2, s) /\ db' = Checkpoint(d2, s, stack)
  /\ d1 = db \/ d2 = d1 \/ RecordedToJudge(db, d1)

-----------------------------------------------------------------------------
(* A recorded result with criteria only waits to be judged.                *)
LEMMA RecordedAwaitsJudgement ==
  ASSUME NEW d \in Database, NEW w \in Workflow, NEW k \in Pos,
         IsActive(d, w), IsCurrent(d[w], k), d[w].tasks[k].criteria
  PROVE  /\ RecordResult(d, w, k) = [d EXCEPT ![w] = Mark(d[w], k, "evaluating", "evaluating")]
         /\ IsActive(RecordResult(d, w, k), w)
         /\ IsCurrent(RecordResult(d, w, k)[w], k)
         /\ RecordResult(d, w, k)[w].tasks[k].status = "evaluating"
         /\ RecordResult(d, w, k)[w].tasks[k].attempts = d[w].tasks[k].attempts
         /\ RecordResult(d, w, k)[w].tasks[k].type = d[w].tasks[k].type
<1> DEFINE row == Mark(d[w], k, "evaluating", "evaluating")
<1>1. d[w] \in Row /\ "evaluating" \in TaskStatus /\ "evaluating" \in WorkflowStatus
  BY DEF Database, TaskStatus, FrontStatus, WorkflowStatus, ActiveStatus
<1>2. row.status = "evaluating"
  BY <1>1, MarkType
<1>3. RecordResult(d, w, k) = [d EXCEPT ![w] = row]
  BY <1>2 DEF RecordResult, Update, TerminalStatus
<1>4. /\ row.tasks[k].status = "evaluating" /\ row.tasks[k].attempts = d[w].tasks[k].attempts
      /\ row.tasks[k].type = d[w].tasks[k].type
      /\ \A j \in Pos \ {k} : row.tasks[j] = d[w].tasks[j]
  BY <1>1 DEF Mark, Row, Task
<1>5. IsCurrent(row, k)
  BY <1>4 DEF IsCurrent, Open, Pos
<1>6. RecordResult(d, w, k)[w] = row
  BY <1>3 DEF Database
<1>7. QED
  BY <1>2, <1>3, <1>4, <1>5, <1>6 DEF IsActive, ActiveStatus

-----------------------------------------------------------------------------
(* Moves are well typed.                                                   *)
LEMMA MoveType ==
  ASSUME NEW d \in Database, NEW s \in Session, NEW e, Move(d, e, s)
  PROVE  e \in Database
<1>1. CASE e = d
  BY <1>1
<1>2. CASE NewRoot(d, e, s)
  <2>1. PICK w \in Workflow, def \in Definition : e = [d EXCEPT ![w] = NewRow(s, NoWorkflow, def)]
    BY <1>2 DEF NewRoot, CreateRootWorkflow
  <2>2. NewRow(s, NoWorkflow, def) \in Row
    BY NewRowType
  <2>3. QED
    BY <2>1, <2>2 DEF Database
<1>3. CASE NewPending(d, e, s)
  <2>1. [status |-> "pending_definition", parent |-> NoWorkflow,
         session |-> s, tasks |-> NoTasks] \in Row
    <3>1. NewTask("action", FALSE, "absent") \in Task
      BY TablesAssumption DEF NewTask, Task, TaskType, TaskStatus, NoRow
    <3>2. QED
      BY <3>1 DEF Row, NoTasks, WorkflowStatus, ActiveStatus
  <2>2. QED
    BY <1>3, <2>1 DEF NewPending, Database
<1>4. CASE Hydrated(d, e, s)
  BY <1>4, HydrateKeeps DEF Hydrated
<1>5. CASE NewChild(d, e, s)
  <2>1. PICK p \in Workflow, c \in Workflow, k \in Pos, def \in Definition :
          /\ d[p].status # d[c].status
          /\ e = CreateSubworkflow(d, p, k, c, s, def)
    BY <1>5 DEF NewChild, Live, IsActive, ActiveStatus
  <2>2. c \in Workflow \ {p}
    BY <2>1
  <2>3. QED
    BY <2>1, <2>2, CreateSubworkflowType
<1>6. CASE Recorded(d, e)
  BY <1>6, RecordKeeps DEF Recorded, IsActive, ActiveStatus
<1>7. CASE Evaluated(d, e)
  BY <1>7, EvaluateKeeps DEF Evaluated, IsActive, ActiveStatus
<1>8. CASE Restored(d, e)
  BY <1>8, RestoreKeeps DEF Restored
<1>9. CASE Cancelled(d, e)
  BY <1>9, CancelKeeps DEF Cancelled, IsActive, ActiveStatus
<1>10. CASE Dropped(d, e)
  BY <1>10 DEF Dropped, Database, Row, WorkflowStatus, TerminalStatus
<1>11. CASE Adopted(d, e, s)
  BY <1>11, AdoptTreeType DEF Adopted
<1>12. QED
  BY <1>1, <1>2, <1>3, <1>4, <1>5, <1>6, <1>7, <1>8, <1>9, <1>10, <1>11 DEF Move

(* The checkpoint of a transaction touches nothing but checkpoints.        *)
LEMMA CheckpointType ==
  ASSUME NEW d \in Database, NEW s \in Session, NEW stack, latest[s] \in Nat
  PROVE  /\ Checkpoint(d, s, stack) \in Database
         /\ \A x \in Workflow :
              /\ Checkpoint(d, s, stack)[x].status = d[x].status
              /\ Checkpoint(d, s, stack)[x].parent = d[x].parent
              /\ Checkpoint(d, s, stack)[x].session = d[x].session
<1> DEFINE tasks(w) == [k \in Pos |->
             IF /\ OnTop(d, s, stack, w) /\ IsCurrent(d[w], k)
                /\ d[w].tasks[k].type = "collect" /\ d[w].tasks[k].status = "awaiting_user"
                /\ d[w].tasks[k].checkpoint = NoRow
             THEN [d[w].tasks[k] EXCEPT !.checkpoint = latest[s]] ELSE d[w].tasks[k]]
<1>1. ASSUME NEW w \in Workflow
      PROVE  tasks(w) \in [Pos -> Task]
  <2>1. \A k \in Pos : d[w].tasks[k] \in Task
    BY DEF Database, Row
  <2>2. \A t \in Task : [t EXCEPT !.checkpoint = latest[s]] \in Task
    BY DEF Task
  <2>3. QED
    BY <2>1, <2>2
<1>2. Checkpoint(d, s, stack) = [w \in Workflow |-> [d[w] EXCEPT !.tasks = tasks(w)]]
  BY DEF Checkpoint
<1> HIDE DEF tasks
<1>3. ASSUME NEW w \in Workflow
      PROVE  /\ [d[w] EXCEPT !.tasks = tasks(w)] \in Row
             /\ [d[w] EXCEPT !.tasks = tasks(w)].status = d[w].status
             /\ [d[w] EXCEPT !.tasks = tasks(w)].parent = d[w].parent
             /\ [d[w] EXCEPT !.tasks = tasks(w)].session = d[w].session
  <2>1. d[w] \in Row
    BY DEF Database
  <2>2. QED
    BY <2>1, <1>1 DEF Row
<1>4. QED
  BY <1>2, <1>3 DEF Database

LEMMA CheckpointTasks ==
  ASSUME NEW d \in Database, NEW s \in Session, NEW stack, NEW x \in Workflow
  PROVE  /\ SameTasks(d[x], Checkpoint(d, s, stack)[x])
         /\ \A k \in Pos :
              /\ Checkpoint(d, s, stack)[x].tasks[k].status = d[x].tasks[k].status
              /\ Checkpoint(d, s, stack)[x].tasks[k].child = d[x].tasks[k].child
<1> DEFINE Asked(k) == /\ OnTop(d, s, stack, x) /\ IsCurrent(d[x], k)
                       /\ d[x].tasks[k].type = "collect" /\ d[x].tasks[k].status = "awaiting_user"
                       /\ d[x].tasks[k].checkpoint = NoRow
           tasks == [k \in Pos |-> IF Asked(k) THEN [d[x].tasks[k] EXCEPT !.checkpoint = latest[s]]
                                  ELSE d[x].tasks[k]]
<1>1. d[x] \in Row /\ \A k \in Pos : d[x].tasks[k] \in Task
  BY DEF Database, Row
<1>2. Checkpoint(d, s, stack)[x] = [d[x] EXCEPT !.tasks = tasks]
  BY DEF Checkpoint
<1> HIDE DEF Asked
<1>3. Checkpoint(d, s, stack)[x].tasks = tasks
  BY <1>1, <1>2 DEF Row
<1>4. QED
  BY <1>1, <1>3 DEF SameTasks, Task

-----------------------------------------------------------------------------
(* Every Move preserves the ownership of trees.                            *)
LEMMA KeepsOwnersOneOwner ==
  ASSUME NEW d \in Database, NEW e \in Database, KeepsOwners(d, e), OneOwner(d)
  PROVE  OneOwner(e)
<1>1. \A x \in Workflow : d[x].parent \in Workflow \cup {NoWorkflow}
  BY DEF Database, Row
<1>2. ASSUME NEW c \in Workflow, e[c].parent # NoWorkflow
      PROVE  e[c].session = e[e[c].parent].session /\ e[e[c].parent].status # "none"
  <2>1. e[c].parent = d[c].parent /\ d[c].parent \in Workflow
    BY <1>1, <1>2 DEF KeepsOwners
  <2>2. d[c].session = d[d[c].parent].session /\ d[d[c].parent].status # "none"
    BY <1>2, <2>1 DEF OneOwner
  <2>3. QED
    BY <2>1, <2>2 DEF KeepsOwners
<1>3. \A c \in Workflow : e[c].status = "none" => e[c].parent = NoWorkflow
  BY DEF KeepsOwners, OneOwner
<1>4. QED
  BY <1>2, <1>3 DEF OneOwner

(* A new row without a parent: no row can have it as a parent already.     *)
LEMMA NewRowOneOwner ==
  ASSUME NEW d \in Database, NEW w \in Workflow, NEW row \in Row, OneOwner(d),
         d[w].status = "none", row.parent = NoWorkflow
  PROVE  OneOwner([d EXCEPT ![w] = row])
<1>1. \A x \in Workflow : d[x].parent \in Workflow \cup {NoWorkflow} /\ d[x].parent # w
  BY TablesAssumption DEF Database, Row, OneOwner
<1> DEFINE e == [d EXCEPT ![w] = row]
<1>2. e[w] = row /\ \A x \in Workflow \ {w} : e[x] = d[x]
  BY DEF Database
<1> HIDE DEF e
<1>3. ASSUME NEW c \in Workflow, e[c].parent # NoWorkflow
      PROVE  e[c].session = e[e[c].parent].session /\ e[e[c].parent].status # "none"
  <2>1. c # w /\ e[c] = d[c]
    BY <1>2, <1>3
  <2>2. d[c].parent \in Workflow \ {w}
    BY <1>1, <1>3, <2>1
  <2>3. QED
    BY <1>2, <1>3, <2>1, <2>2 DEF OneOwner
<1>4. ASSUME NEW c \in Workflow, e[c].status = "none"
      PROVE  e[c].parent = NoWorkflow
  BY <1>2, <1>4 DEF OneOwner
<1>5. OneOwner(e)
  BY <1>3, <1>4 DEF OneOwner
<1>6. QED
  BY <1>5 DEF e

LEMMA MoveOneOwner ==
  ASSUME NEW d \in Database, NEW s \in Session, NEW e, Move(d, e, s), OneOwner(d)
  PROVE  OneOwner(e)
<1>0. e \in Database
  BY MoveType
<1>1. CASE e = d
  BY <1>1
<1>2. CASE NewRoot(d, e, s)
  <2>1. PICK w \in Workflow, def \in Definition :
          d[w].status = "none" /\ e = [d EXCEPT ![w] = NewRow(s, NoWorkflow, def)]
    BY <1>2 DEF NewRoot, CreateRootWorkflow
  <2>2. NewRow(s, NoWorkflow, def) \in Row /\ NewRow(s, NoWorkflow, def).parent = NoWorkflow
    BY NewRowType
  <2>3. QED
    BY <2>1, <2>2, NewRowOneOwner
<1>3. CASE NewPending(d, e, s)
  <2>1. PICK w \in Workflow : d[w].status = "none" /\
          e = [d EXCEPT ![w] = [status |-> "pending_definition", parent |-> NoWorkflow,
                                session |-> s, tasks |-> NoTasks]]
    BY <1>3 DEF NewPending
  <2>2. e[w] \in Row /\ e = [d EXCEPT ![w] = e[w]] /\ e[w].parent = NoWorkflow
    BY <1>0, <2>1 DEF Database
  <2>3. QED
    BY <2>1, <2>2, NewRowOneOwner
<1>4. CASE Hydrated(d, e, s)
  BY <1>0, <1>4, HydrateKeeps, KeepsOwnersOneOwner DEF Hydrated
<1>5. CASE NewChild(d, e, s)
  <2>1. PICK p \in Workflow, c \in Workflow, k \in Pos, def \in Definition :
          /\ d[p].session = s /\ d[p].status # "none" /\ d[c].status = "none"
          /\ e = CreateSubworkflow(d, p, k, c, s, def)
    BY <1>5 DEF NewChild, Live, IsActive, ActiveStatus
  <2>2. c \in Workflow \ {p}
    BY <2>1
  <2>3. /\ e[c].parent = p /\ e[c].session = s /\ e[c].status # "none"
        /\ \A x \in Workflow \ {c} : /\ e[x].parent = d[x].parent
                                     /\ e[x].session = d[x].session
                                     /\ e[x].status = d[x].status
    BY <2>1, <2>2, CreateSubworkflowType
  <2>4. \A x \in Workflow : d[x].parent \in Workflow \cup {NoWorkflow} /\ d[x].parent # c
    BY <2>1, TablesAssumption DEF Database, Row, OneOwner
  <2>5. QED
    BY <2>1, <2>2, <2>3, <2>4 DEF OneOwner
<1>6. CASE Recorded(d, e)
  BY <1>0, <1>6, RecordKeeps, KeepsOwnersOneOwner DEF Recorded, IsActive, ActiveStatus
<1>7. CASE Evaluated(d, e)
  BY <1>0, <1>7, EvaluateKeeps, KeepsOwnersOneOwner DEF Evaluated, IsActive, ActiveStatus
<1>8. CASE Restored(d, e)
  BY <1>0, <1>8, RestoreKeeps, KeepsOwnersOneOwner DEF Restored
<1>9. CASE Cancelled(d, e)
  BY <1>0, <1>9, CancelKeeps, KeepsOwnersOneOwner DEF Cancelled, IsActive, ActiveStatus
<1>10. CASE Dropped(d, e)
  <2>1. KeepsOwners(d, e)
    BY <1>10 DEF Dropped, Database, Row, KeepsOwners
  <2>2. QED
    BY <1>0, <2>1, KeepsOwnersOneOwner
<1>11. CASE Adopted(d, e, s)
  <2>1. PICK r \in Workflow : IsActive(d, r) /\ d[r].parent = NoWorkflow /\ e = AdoptTree(d, r, s)
    BY <1>11 DEF Adopted
  <2>2. \A x \in Workflow : /\ e[x].parent = d[x].parent /\ e[x].status = d[x].status
                            /\ e[x].session = IF x \in Tree(d, r) THEN s ELSE d[x].session
    BY <2>1 DEF AdoptTree, Database, Row
  <2>3. \A c \in Workflow : d[c].parent # NoWorkflow =>
                              (c \in Tree(d, r) <=> d[c].parent \in Tree(d, r))
    BY <2>1, TreeHasChildren, TreeHasNoOther
  <2>4. \A x \in Workflow : d[x].parent \in Workflow \cup {NoWorkflow}
    BY DEF Database, Row
  <2>5. ASSUME NEW c \in Workflow, e[c].parent # NoWorkflow
        PROVE  e[c].session = e[e[c].parent].session /\ e[e[c].parent].status # "none"
    <3>1. e[c].parent = d[c].parent /\ d[c].parent \in Workflow
      BY <2>2, <2>4, <2>5
    <3>2. d[c].session = d[d[c].parent].session /\ d[d[c].parent].status # "none"
      BY <2>5, <3>1 DEF OneOwner
    <3>3. QED
      BY <2>2, <2>3, <2>5, <3>1, <3>2
  <2>6. \A c \in Workflow : e[c].status = "none" => e[c].parent = NoWorkflow
    BY <2>2 DEF OneOwner
  <2>7. QED
    BY <2>5, <2>6 DEF OneOwner
<1>12. QED
  BY <1>1, <1>2, <1>3, <1>4, <1>5, <1>6, <1>7, <1>8, <1>9, <1>10, <1>11 DEF Move

-----------------------------------------------------------------------------
(* Definition 4.  How a row may go on: a definition stays with its accepted*)
(* tasks once it is supplied, and a terminal row is final.                 *)
Progress(row, new) ==
  /\ Blank(row) => Blank(new)
  /\ ~Undefined(row) =>
       /\ ~Undefined(new) /\ SameTasks(row, new)
       /\ \A j \in Pos : row.tasks[j].status = "accepted" => new.tasks[j].status = "accepted"
  /\ row.status \in TerminalStatus =>
       /\ new.status = row.status
       /\ \A j \in Pos : new.tasks[j].status = "accepted" => row.tasks[j].status = "accepted"
Progresses(d, e) == \A x \in Workflow : Progress(d[x], e[x])

LEMMA ProgressStays ==
  ASSUME NEW row
  PROVE  Progress(row, row)
  BY DEF Progress, SameTasks

LEMMA ProgressGoesOn ==
  ASSUME NEW d, NEW m, NEW e, Progresses(d, m), Progresses(m, e)
  PROVE  Progresses(d, e)
<1> SUFFICES ASSUME NEW x \in Workflow
             PROVE  Progress(d[x], e[x])
  BY DEF Progresses
<1>1. Progress(d[x], m[x]) /\ Progress(m[x], e[x])
  BY DEF Progresses
<1>2. QED
  BY <1>1 DEF Progress, SameTasks

(* An active row that goes on to a status with a definition.               *)
LEMMA ActiveProgress ==
  ASSUME NEW row, NEW new, row.status \in ActiveStatus, ~Undefined(new), SameTasks(row, new),
         \A j \in Pos : row.tasks[j].status = "accepted" => new.tasks[j].status = "accepted"
  PROVE  Progress(row, new)
  BY DEF Progress, Blank, ActiveStatus, TerminalStatus

LEMMA MarkProgress ==
  ASSUME NEW row \in Row, row.status \in ActiveStatus, NEW k \in Pos, Open(row.tasks[k]),
         NEW ts \in TaskStatus, NEW ws \in WorkflowStatus \ {"none", "pending_definition"}
  PROVE  Progress(row, Mark(row, k, ts, ws))
<1> DEFINE n == Mark(row, k, ts, ws)
<1>1. /\ SameTasks(row, n) /\ n.status = ws
      /\ \A j \in Pos \ {k} : n.tasks[j].status = row.tasks[j].status
  BY MarkType, MarkTasks
<1> HIDE DEF n
<1>2. Progress(row, n)
  BY <1>1, ActiveProgress DEF Undefined, Open
<1>3. QED
  BY <1>2 DEF n

LEMMA AcceptTaskProgress ==
  ASSUME NEW row \in Row, row.status \in ActiveStatus, NEW k \in Pos
  PROVE  Progress(row, AcceptTask(row, k))
<1> DEFINE n == AcceptTask(row, k)
<1>1. /\ SameTasks(row, n) /\ n.tasks[k].status = "accepted"
      /\ \A j \in Pos \ {k} : n.tasks[j].status =
            IF NextOpen(row, k, j) THEN Activated(row.tasks[j].type) ELSE row.tasks[j].status
  BY AcceptTaskTasks
<1>2. n.status \in {"awaiting_user", "running", "completed"}
  BY AcceptTaskKeeps DEF ActiveStatus
<1> HIDE DEF n
<1>3. \A j \in Pos : row.tasks[j].status = "accepted" => n.tasks[j].status = "accepted"
  BY <1>1 DEF NextOpen, Open
<1>4. Progress(row, n)
  BY <1>1, <1>2, <1>3, ActiveProgress DEF Undefined
<1>5. QED
  BY <1>4 DEF n

LEMMA ResolveProgress ==
  ASSUME NEW d \in Database, NEW w \in Workflow
  PROVE  Progresses(d, ResolveParentAfterChild(d, w))
<1> SUFFICES ASSUME NEW p \in Workflow
             PROVE  Progress(d[p], ResolveParentAfterChild(d, w)[p])
  BY DEF Progresses
<1>1. CASE ResolveParentAfterChild(d, w)[p] = d[p]
  BY <1>1, ProgressStays
<1>2. ASSUME NEW k \in Pos, Informed(d, Ended(d, w), p, k),
             ResolveParentAfterChild(d, w)[p] =
               IF Passes(d, w, d[p].tasks[k]) THEN AcceptTask(d[p], k)
               ELSE Mark(d[p], k, "evaluating", "evaluating")
      PROVE  Progress(d[p], ResolveParentAfterChild(d, w)[p])
  <2>1. /\ d[p] \in Row /\ d[p].status \in ActiveStatus /\ Open(d[p].tasks[k])
        /\ "evaluating" \in TaskStatus
        /\ "evaluating" \in WorkflowStatus \ {"none", "pending_definition"}
    BY <1>2 DEF Database, Informed, IsActive, Open, TaskStatus, FrontStatus, WorkflowStatus, ActiveStatus
  <2>2. QED
    BY <1>2, <2>1, AcceptTaskProgress, MarkProgress
<1>3. QED
  BY <1>1, <1>2, ResolveCases

LEMMA UpdateProgress ==
  ASSUME NEW d \in Database, NEW w \in Workflow, NEW row, d[w].status # "none",
         Keeps(d[w], row), Progress(d[w], row)
  PROVE  Progresses(d, Update(d, w, row))
<1> DEFINE new == [d EXCEPT ![w] = row]
<1>1. new \in Database /\ new[w] = row /\ \A x \in Workflow \ {w} : new[x] = d[x]
  BY DEF Database, Keeps
<1>2. Progresses(d, new)
  BY <1>1, ProgressStays DEF Progresses
<1>3. Progresses(new, ResolveParentAfterChild(new, w))
  BY <1>1, ResolveProgress
<1>4. Progresses(d, ResolveParentAfterChild(new, w))
  BY <1>2, <1>3, ProgressGoesOn
<1>5. QED
  BY <1>2, <1>4 DEF Update

(* A new row, or the definition of a pending one.                          *)
LEMMA UndefinedProgress ==
  ASSUME NEW row, NEW new, Undefined(row), Blank(new)
  PROVE  Progress(row, new)
  BY DEF Progress, Undefined, TerminalStatus

LEMMA MoveProgress ==
  ASSUME NEW d \in Database, NEW s \in Session, NEW e, Move(d, e, s)
  PROVE  Progresses(d, e)
<1>0. ASSUME NEW w \in Workflow, NEW row, e = [d EXCEPT ![w] = row], Progress(d[w], row)
      PROVE  Progresses(d, e)
  BY <1>0, ProgressStays DEF Progresses, Database
<1>1. CASE e = d
  BY <1>1, ProgressStays DEF Progresses
<1>2. CASE NewRoot(d, e, s)
  <2>1. PICK w \in Workflow, def \in Definition :
          d[w].status = "none" /\ e = [d EXCEPT ![w] = NewRow(s, NoWorkflow, def)]
    BY <1>2 DEF NewRoot, CreateRootWorkflow
  <2>2. ~Undefined(NewRow(s, NoWorkflow, def))
    BY NewRowDefined DEF Undefined
  <2>3. Progress(d[w], NewRow(s, NoWorkflow, def))
    BY <2>1, <2>2, UndefinedProgress DEF Undefined, Blank
  <2>4. QED
    BY <2>1, <2>3, <1>0
<1>3. CASE NewPending(d, e, s)
  <2> DEFINE row == [status |-> "pending_definition", parent |-> NoWorkflow,
                     session |-> s, tasks |-> NoTasks]
  <2>1. PICK w \in Workflow : d[w].status = "none" /\ e = [d EXCEPT ![w] = row]
    BY <1>3 DEF NewPending
  <2>2. Blank(row)
    BY DEF Blank, NoTasks, NewTask
  <2>3. Progress(d[w], row)
    BY <2>1, <2>2, UndefinedProgress DEF Undefined
  <2>4. QED
    BY <2>1, <2>3, <1>0
<1>4. CASE Hydrated(d, e, s)
  <2>1. PICK w \in Workflow, def \in Definition :
          d[w].status = "pending_definition" /\ e = HydrateWorkflow(d, w, def)
    BY <1>4 DEF Hydrated
  <2>2. PICK row : /\ row \in Row
                   /\ row = [d[w] EXCEPT !.status = "running", !.tasks = InsertTasks(def)]
    BY InsertTasksType DEF Database, Row, WorkflowStatus, ActiveStatus
  <2>3. ~Undefined(ActivateNext(row))
    BY <2>2, ActivateNextKeeps DEF Undefined
  <2>4. Progress(d[w], ActivateNext(row))
    BY <2>1, <2>3, UndefinedProgress DEF Undefined, Blank
  <2>5. e = [d EXCEPT ![w] = ActivateNext(row)]
    BY <2>1, <2>2 DEF HydrateWorkflow
  <2>6. QED
    BY <2>4, <2>5, <1>0
<1>5. CASE NewChild(d, e, s)
  <2>1. PICK p \in Workflow, c \in Workflow, k \in Pos, def \in Definition :
          /\ d[p].status \in ActiveStatus /\ IsCurrent(d[p], k)
          /\ d[c].status = "none"
          /\ e = CreateSubworkflow(d, p, k, c, s, def)
    BY <1>5 DEF NewChild, Live, IsActive
  <2>2. c # p /\ d[p] \in Row /\ ~Undefined(NewRow(s, p, def))
    BY <2>1, NewRowDefined DEF ActiveStatus, Database, Undefined
  <2>3. Progress(d[c], NewRow(s, p, def))
    BY <2>1, <2>2, UndefinedProgress DEF Undefined, Blank
  <2>4. Progress(d[p], LinkChild(d[p], k, c))
    <3> DEFINE n == LinkChild(d[p], k, c)
    <3>1. /\ n.status = d[p].status /\ SameTasks(d[p], n)
          /\ n.tasks[k].status = "waiting_subworkflow"
          /\ \A j \in Pos \ {k} : n.tasks[j].status = d[p].tasks[j].status
      BY <2>2, LinkChildType, LinkChildTasks
    <3> HIDE DEF n
    <3>2. Blank(d[p]) => ~Undefined(d[p])
      BY <2>1 DEF Blank, IsCurrent, Open
    <3>3. Progress(d[p], n)
      BY <2>1, <3>1, <3>2 DEF Progress, Blank, Undefined, IsCurrent, Open, ActiveStatus, TerminalStatus
    <3>4. QED
      BY <3>3 DEF n
  <2>5. /\ e[c] = NewRow(s, p, def) /\ e[p] = LinkChild(d[p], k, c)
        /\ \A x \in Workflow \ {c, p} : e[x] = d[x]
    BY <2>1, <2>2 DEF CreateSubworkflow, Database
  <2>6. QED
    BY <2>3, <2>4, <2>5, ProgressStays DEF Progresses
<1>6. CASE Recorded(d, e)
  <2>1. PICK w \in Workflow, k \in Pos :
          /\ d[w].status \in ActiveStatus /\ IsCurrent(d[w], k)
          /\ e = RecordResult(d, w, k)
    BY <1>6 DEF Recorded, IsActive
  <2>2. /\ d[w] \in Row /\ d[w].status # "none" /\ Open(d[w].tasks[k])
        /\ "evaluating" \in TaskStatus
        /\ "evaluating" \in WorkflowStatus \ {"none", "pending_definition"}
    BY <2>1 DEF Database, IsCurrent, TaskStatus, FrontStatus, WorkflowStatus, ActiveStatus
  <2>3. /\ Keeps(d[w], Mark(d[w], k, "evaluating", "evaluating"))
        /\ Progress(d[w], Mark(d[w], k, "evaluating", "evaluating"))
    BY <2>1, <2>2, MarkKeeps, MarkProgress
  <2>4. Keeps(d[w], AcceptTask(d[w], k)) /\ Progress(d[w], AcceptTask(d[w], k))
    BY <2>1, <2>2, AcceptTaskKeeps, AcceptTaskProgress
  <2>5. QED
    BY <2>1, <2>2, <2>3, <2>4, UpdateProgress DEF RecordResult
<1>7. CASE Evaluated(d, e)
  <2>1. PICK w \in Workflow, k \in Pos, outcome \in Outcome :
          /\ d[w].status \in ActiveStatus /\ IsCurrent(d[w], k)
          /\ outcome = "retry" => d[w].tasks[k].attempts < AttemptBound
          /\ e = EvaluateTask(d, w, k, outcome)
    BY <1>7 DEF Evaluated, IsActive
  <2>2. /\ d[w] \in Row /\ d[w].status # "none" /\ Open(d[w].tasks[k])
        /\ "failed" \in TaskStatus
        /\ "failed" \in WorkflowStatus \ {"none", "pending_definition"}
    BY <2>1 DEF Database, IsCurrent, TaskStatus, WorkflowStatus, ActiveStatus, TerminalStatus
  <2>3. CASE outcome = "accept"
    <3>1. Keeps(d[w], AcceptTask(d[w], k)) /\ Progress(d[w], AcceptTask(d[w], k))
      BY <2>1, <2>2, AcceptTaskKeeps, AcceptTaskProgress
    <3>2. QED
      BY <2>1, <2>2, <2>3, <3>1, UpdateProgress DEF EvaluateTask
  <2>4. CASE outcome = "retry"
    <3> DEFINE n == RetryTask(d[w], k)
    <3>1. /\ Keeps(d[w], n) /\ SameTasks(d[w], n) /\ n.status \notin {"none", "pending_definition"}
          /\ \A j \in Pos \ {k} : n.tasks[j].status = d[w].tasks[j].status
      BY <2>1, <2>2, <2>4, RetryTaskKeeps, RetryTaskTasks DEF Activated
    <3>2. e = Update(d, w, n)
      BY <2>1, <2>4 DEF EvaluateTask
    <3> HIDE DEF n
    <3>3. Progress(d[w], n)
      BY <2>1, <2>2, <3>1, ActiveProgress DEF Undefined, Open
    <3>4. QED
      BY <2>2, <3>1, <3>2, <3>3, UpdateProgress
  <2>5. CASE outcome = "fail"
    <3>1. /\ Keeps(d[w], Mark(d[w], k, "failed", "failed"))
          /\ Progress(d[w], Mark(d[w], k, "failed", "failed"))
      BY <2>1, <2>2, MarkKeeps, MarkProgress
    <3>2. QED
      BY <2>1, <2>2, <2>5, <3>1, UpdateProgress DEF EvaluateTask
  <2>6. QED
    BY <2>3, <2>4, <2>5 DEF Outcome
<1>8. CASE Restored(d, e)
  <2>1. PICK w \in Workflow, k \in Pos : IsCurrent(d[w], k) /\ e = RestoreTask(d, w, k)
    BY <1>8 DEF Restored
  <2>2. /\ SameTasks(d[w], e[w])
        /\ \A j \in Pos \ {k} : e[w].tasks[j].status = d[w].tasks[j].status
        /\ e[w].tasks[k].status \in {d[w].tasks[k].status, "awaiting_user", "running"}
        /\ e[w].status = IF d[w].status = "evaluating"
                         THEN Activated(d[w].tasks[k].type) ELSE d[w].status
        /\ \A x \in Workflow \ {w} : e[x] = d[x]
    BY <2>1, RestoreTasks DEF Activated
  <2>3. Open(d[w].tasks[k])
    BY <2>1 DEF IsCurrent
  <2>4. Progress(d[w], e[w])
    BY <2>2, <2>3 DEF Progress, Blank, Undefined, Open, Activated, TerminalStatus
  <2>5. QED
    BY <2>2, <2>4, ProgressStays DEF Progresses
<1>9. CASE Cancelled(d, e)
  <2>1. PICK w \in Workflow : d[w].status \in ActiveStatus /\ e = CancelWorkflow(d, w)
    BY <1>9 DEF Cancelled, IsActive
  <2>2. PICK row : row = [d[w] EXCEPT !.status = "cancelled"]
    OBVIOUS
  <2>3. Keeps(d[w], row) /\ row.status = "cancelled" /\ row.tasks = d[w].tasks
    BY <2>2 DEF Database, Row, Keeps, WorkflowStatus, TerminalStatus
  <2>4. Progress(d[w], row)
    BY <2>1, <2>3, ActiveProgress DEF Undefined, SameTasks
  <2>5. d[w].status # "none"
    BY <2>1 DEF ActiveStatus
  <2>6. QED
    BY <2>1, <2>2, <2>3, <2>4, <2>5, UpdateProgress DEF CancelWorkflow
<1>10. CASE Dropped(d, e)
  <2>1. PICK w \in Workflow :
          d[w].status = "pending_definition" /\ e = [d EXCEPT ![w].status = "cancelled"]
    BY <1>10 DEF Dropped
  <2>2. PICK row : row = [d[w] EXCEPT !.status = "cancelled"]
    OBVIOUS
  <2>3. row.status = "cancelled"
    BY <2>2 DEF Database, Row
  <2>4. Progress(d[w], row)
    BY <2>1, <2>3, UndefinedProgress DEF Undefined, Blank
  <2>5. QED
    BY <2>1, <2>2, <2>4, <1>0
<1>11. CASE Adopted(d, e, s)
  <2>1. PICK r \in Workflow : e = AdoptTree(d, r, s)
    BY <1>11 DEF Adopted
  <2>2. \A x \in Workflow : e[x].status = d[x].status /\ e[x].tasks = d[x].tasks
    BY <2>1 DEF AdoptTree, Database, Row
  <2>3. QED
    BY <2>2 DEF Progresses, Progress, Blank, Undefined, SameTasks
<1>12. QED
  BY <1>1, <1>2, <1>3, <1>4, <1>5, <1>6, <1>7, <1>8, <1>9, <1>10, <1>11 DEF Move

-----------------------------------------------------------------------------
(* Every step of Next is a transaction or leaves the tables alone.         *)
LEMMA InitType == Init => TypeInv
<1>1. NewTask("action", FALSE, "absent") \in Task
  BY TablesAssumption DEF NewTask, Task, TaskType, TaskStatus, NoRow
<1>2. NoRows \in Database
  BY <1>1 DEF NoRows, Database, Row, NoTasks, WorkflowStatus
<1>3. QED
  BY <1>2, SessionAssumption DEF Init, TypeInv, HostTypeOK, NoMode, ToolList, Creation

LEMMA CommitIsTransaction ==
  ASSUME NEW s \in Session, NEW d, NEW stack, Move(db, d, s), Commit(s, d, stack)
  PROVE  Transaction(s)
  BY DEF Commit, Transaction, Move

(* A result that is judged in the transaction that records it.             *)
LEMMA JudgedRecordIsTransaction ==
  ASSUME db \in Database, NEW s \in Session, NEW w \in Workflow, NEW k \in Pos, NEW v \in Verdict,
         NEW stack, IsActive(db, w), IsCurrent(db[w], k),
         db[w].tasks[k].type \in {"action", "collect"}, db[w].tasks[k].status # "evaluating",
         IF db[w].tasks[k].criteria THEN MayJudge(v) /\ MayEvaluate(w, k, v) ELSE v = "none",
         Commit(s, Judge(RecordResult(db, w, k), w, k, v), stack)
  PROVE  Transaction(s)
<1> DEFINE m == RecordResult(db, w, k)
           e == Judge(m, w, k, v)
<1>1. Move(db, m, s)
  BY DEF Move, Recorded
<1>2. Move(m, e, s)
  <2>1. CASE v = "none"
    BY <2>1 DEF Move, Judge, Outcome
  <2>2. CASE v # "none"
    <3>1. db[w].tasks[k].criteria /\ MayEvaluate(w, k, v)
      BY <2>2
    <3>2. /\ IsActive(m, w) /\ IsCurrent(m[w], k) /\ m[w].tasks[k].status = "evaluating"
          /\ v = "retry" => m[w].tasks[k].attempts < AttemptBound
          /\ m[w].tasks[k].type \in {"action", "collect"}
      BY <3>1, RecordedAwaitsJudgement DEF MayEvaluate
    <3>3. CASE v = "unresolved"
      <4>1. e = RestoreTask(m, w, k)
        BY <3>3 DEF Judge, Outcome
      <4>2. QED
        BY <3>2, <4>1 DEF Move, Restored
    <3>4. CASE v \in Outcome
      <4>1. e = EvaluateTask(m, w, k, v)
        BY <3>4 DEF Judge, Outcome
      <4>2. QED
        BY <3>2, <3>4, <4>1 DEF Move, Evaluated
    <3>5. QED
      BY <2>2, <3>3, <3>4 DEF Verdict
  <2>3. QED
    BY <2>1, <2>2
<1>3. e = m \/ RecordedToJudge(db, m)
  <2>1. CASE v = "none"
    BY <2>1 DEF Judge, Outcome
  <2>2. CASE v # "none"
    <3>1. m = [db EXCEPT ![w] = Mark(db[w], k, "evaluating", "evaluating")]
      BY <2>2, RecordedAwaitsJudgement
    <3>2. "system_one" \in Evaluator
      BY <2>2 DEF MayJudge
    <3>3. QED
      BY <3>1, <3>2 DEF RecordedToJudge
  <2>3. QED
    BY <2>1, <2>2
<1>4. QED
  BY <1>1, <1>2, <1>3 DEF Commit, Transaction

(* The input handler of s changes the tables in its two transactions only. *)
LEMMA HandlerIsTransaction ==
  ASSUME BaseInv, NEW s \in Session, Handler(s)
  PROVE  Transaction(s) \/ UNCHANGED db
<1>0. TypeInv /\ HandlersAnswerCollect
  BY DEF BaseInv
<1> USE <1>0 DEF TypeInv
<1>1. input[s] \in Busy \cup {IdleInput}
  BY DEF HostTypeOK
<1>2. CASE InputRecord(s)
  <2>1. input[s].w \in Workflow
    BY <1>1, <1>2 DEF InputRecord, Busy, IdleInput
  <2>2. CASE \E k \in Pos : /\ CanRecord(input[s].w, k)
                            /\ Commit(s, RecordResult(db, input[s].w, k), saved[s])
    <3>1. PICK k \in Pos : /\ CanRecord(input[s].w, k)
                           /\ Commit(s, RecordResult(db, input[s].w, k), saved[s])
      BY <2>2
    <3>2. Move(db, RecordResult(db, input[s].w, k), s)
      BY <2>1, <3>1 DEF Move, Recorded, CanRecord
    <3>3. QED
      BY <3>1, <3>2, CommitIsTransaction
  <2>3. CASE UNCHANGED db
    BY <2>3
  <2>4. QED
    BY <1>2, <2>2, <2>3 DEF InputRecord
<1>3. CASE InputEvaluate(s)
  <2>0. /\ input[s].w \in Workflow /\ input[s].k \in Pos
        /\ db[input[s].w].tasks[input[s].k].type = "collect"
    <3>1. input[s].phase = "recorded"
      BY <1>3 DEF InputEvaluate
    <3>2. input[s] \in Busy
      BY <1>1, <3>1 DEF IdleInput
    <3>3. QED
      BY <3>1, <3>2 DEF Busy, HandlersAnswerCollect
  <2> DEFINE w == input[s].w
             k == input[s].k
  <2>1. w \in Workflow /\ k \in Pos
    BY <2>0
  <2>2. CASE Commit(s, db, saved[s])
    BY <2>2, CommitIsTransaction DEF Move
  <2>3. CASE /\ IsCurrent(db[w], k)
             /\ \E v \in Verdict :
                  /\ MayEvaluate(w, k, v)
                  /\ v \in Outcome => (IsActive(db, w) /\ db[w].tasks[k].status = "evaluating")
                  /\ Commit(s, Judge(db, w, k, v), saved[s])
    <3>1. PICK v \in Verdict :
                  /\ MayEvaluate(w, k, v)
                  /\ v \in Outcome => (IsActive(db, w) /\ db[w].tasks[k].status = "evaluating")
                  /\ Commit(s, Judge(db, w, k, v), saved[s])
      BY <2>3
    <3>2. CASE v = "none"
      <4>1. Judge(db, w, k, v) = db
        BY <3>2 DEF Judge, Outcome
      <4>2. QED
        BY <3>1, <4>1, CommitIsTransaction DEF Move
    <3>3. CASE v = "unresolved"
      <4>1. Judge(db, w, k, v) = RestoreTask(db, w, k)
        BY <3>3 DEF Judge, Outcome
      <4>2. Move(db, Judge(db, w, k, v), s)
        BY <2>0, <2>1, <2>3, <4>1 DEF Move, Restored
      <4>3. QED
        BY <3>1, <4>2, CommitIsTransaction
    <3>4. CASE v \in Outcome
      <4>1. Judge(db, w, k, v) = EvaluateTask(db, w, k, v)
        BY <3>4 DEF Judge, Outcome
      <4>2. Move(db, Judge(db, w, k, v), s)
        BY <2>1, <2>3, <3>1, <3>4, <4>1 DEF Move, Evaluated, MayEvaluate
      <4>3. QED
        BY <3>1, <4>2, CommitIsTransaction
    <3>5. QED
      BY <3>2, <3>3, <3>4 DEF Verdict
  <2>4. CASE UNCHANGED db
    BY <2>4
  <2>5. QED
    BY <1>3, <2>2, <2>3, <2>4 DEF InputEvaluate
<1>4. CASE InputSettle(s)
  BY <1>4 DEF InputSettle
<1>5. QED
  BY <1>2, <1>3, <1>4 DEF Handler

LEMMA AgentIsTransaction ==
  ASSUME TypeInv, NEW s \in Session, Agent(s)
  PROVE  Transaction(s) \/ UNCHANGED db
<1>1. ASSUME NEW def \in Definition, NEW via \in Creation, CreateRoot(s, def, via)
      PROVE  Transaction(s)
  <2>1. CASE \E w \in Workflow : Unused(w) /\
               Commit(s, CreateRootWorkflow(db, w, s, def), Append(saved[s], w))
    BY <2>1, CommitIsTransaction DEF Move, NewRoot, Unused
  <2>2. CASE \E w \in Workflow : Pending(s, w) /\ Commit(s, HydrateWorkflow(db, w, def), saved[s])
    BY <2>2, CommitIsTransaction DEF Move, Hydrated, Pending, InFocus, OnTop
  <2>3. QED
    BY <1>1, <2>1, <2>2 DEF CreateRoot, Supplies
<1>2. ASSUME NEW def \in Definition, CreateSub(s, def)
      PROVE  Transaction(s)
  <2>1. PICK p \in Workflow, c \in Workflow, k \in Pos :
       /\ InFocus(s, p) /\ IsCurrent(db[p], k)
       /\ db[p].tasks[k].type = "workflow" /\ db[p].tasks[k].status = "running"
       /\ db[p].tasks[k].child = NoWorkflow
       /\ Unused(c)
       /\ Commit(s, CreateSubworkflow(db, p, k, c, s, def), Append(saved[s], c))
    BY <1>2 DEF CreateSub
  <2>2. NewChild(db, CreateSubworkflow(db, p, k, c, s, def), s)
    BY <2>1 DEF NewChild, InFocus, OnTop, Unused
  <2>3. QED
    BY <2>1, <2>2, CommitIsTransaction DEF Move
<1>3. CASE Record(s)
  <2>1. PICK w \in Workflow, k \in Pos, v \in Verdict :
       /\ InFocus(s, w) /\ IsCurrent(db[w], k)
       /\ db[w].tasks[k].type \in {"action", "collect"}
       /\ db[w].tasks[k].status # "evaluating"
       /\ IF db[w].tasks[k].criteria THEN MayJudge(v) /\ MayEvaluate(w, k, v) ELSE v = "none"
       /\ Commit(s, Judge(RecordResult(db, w, k), w, k, v), saved[s])
    BY <1>3 DEF Record
  <2>2. QED
    BY <2>1, JudgedRecordIsTransaction DEF InFocus, OnTop, Live, TypeInv
<1>4. CASE Evaluate(s)
  <2>1. PICK w \in Workflow, k \in Pos, outcome \in Outcome :
       /\ InFocus(s, w) /\ IsCurrent(db[w], k)
       /\ db[w].tasks[k].type = "evaluate" \/ db[w].tasks[k].status = "evaluating"
       /\ MayEvaluate(w, k, outcome)
       /\ Commit(s, EvaluateTask(db, w, k, outcome), saved[s])
    BY <1>4 DEF Evaluate
  <2>2. Evaluated(db, EvaluateTask(db, w, k, outcome))
    BY <2>1 DEF Evaluated, InFocus, OnTop, Live, MayEvaluate
  <2>3. QED
    BY <2>1, <2>2, CommitIsTransaction DEF Move
<1>5. ASSUME NEW a, StartDefinition(s, a)
      PROVE  Transaction(s)
  BY <1>5, CommitIsTransaction DEF StartDefinition, Move, NewPending, Unused
<1>6. CASE SkillRequirement(s)
  BY <1>5, <1>6, CommitIsTransaction DEF SkillRequirement, Move
<1>7. QED
  BY <1>1, <1>2, <1>3, <1>4, <1>6 DEF Agent

LEMMA UserIsTransaction ==
  ASSUME NEW s \in Session, User(s)
  PROVE  Transaction(s) \/ UNCHANGED db
<1>1. CASE Cancel(s)
  BY <1>1, CommitIsTransaction DEF Cancel, Move, Cancelled
<1>2. CASE Status(s) \/ Suspend(s) \/ FocusOn(s)
  BY <1>2, CommitIsTransaction DEF Status, Suspend, FocusOn, Move
<1>3. CASE Adopt(s)
  <2>1. PICK p \in Paths : /\ IsActive(db, p[1]) /\ db[p[1]].parent = NoWorkflow
                           /\ Commit(s, AdoptTree(db, p[1], s), p)
    BY <1>3 DEF Adopt
  <2>2. p[1] \in Workflow
    BY DEF Paths
  <2>3. QED
    BY <2>1, <2>2, CommitIsTransaction DEF Move, Adopted
<1>4. CASE InputPlain(s) \/ InputRead(s)
  BY <1>4 DEF InputPlain, InputRead
<1>5. CASE InputOverride(s)
  BY <1>5, CommitIsTransaction DEF InputOverride, Pending, Move, Dropped
<1>6. CASE InputRequirement(s)
  <2>1. ASSUME NEW a, StartDefinition(s, a)
        PROVE  Transaction(s)
    BY <2>1, CommitIsTransaction DEF StartDefinition, Move, NewPending, Unused
  <2>2. QED
    BY <1>6, <2>1, CommitIsTransaction DEF InputRequirement, Move
<1>7. QED
  BY <1>1, <1>2, <1>3, <1>4, <1>5, <1>6 DEF User

LEMMA StepIsTransaction ==
  ASSUME BaseInv, [Next]_vars
  PROVE  (\E s \in Session : Transaction(s)) \/ UNCHANGED db
  BY HandlerIsTransaction, AgentIsTransaction, UserIsTransaction DEF Next, Restart, vars, BaseInv

-----------------------------------------------------------------------------
(* The host's variables keep their types.                                  *)
LEMMA AsksType ==
  ASSUME NEW s, NEW d, HostTypeOK
  PROVE  Asks(s, d) \in [Workflow -> [Pos -> [at : 0..MaxMessages, excused : BOOLEAN]]]
<1>1. ASSUME NEW w \in Workflow, NEW k \in Pos, NEW b \in BOOLEAN
      PROVE  [asked[w][k] EXCEPT !.excused = asked[w][k].excused \/ b]
                   \in [at : 0..MaxMessages, excused : BOOLEAN]
  <2>1. asked[w][k] \in [at : 0..MaxMessages, excused : BOOLEAN]
    BY DEF HostTypeOK
  <2>2. (asked[w][k].excused \/ b) \in BOOLEAN
    BY Zenon
  <2>3. \A v \in BOOLEAN : [asked[w][k] EXCEPT !.excused = v]
                             \in [at : 0..MaxMessages, excused : BOOLEAN]
    BY <2>1
  <2>4. QED
    BY <2>2, <2>3
<1>2. ASSUME NEW w \in Workflow, NEW k \in Pos
      PROVE  [at |-> said, excused |-> PutBack(s, d, w, k) \/ EchoExpected(d, w)]
                \in [at : 0..MaxMessages, excused : BOOLEAN]
  <2>1. (PutBack(s, d, w, k) \/ EchoExpected(d, w)) \in BOOLEAN
    BY Zenon
  <2>2. \A v \in BOOLEAN : [at |-> said, excused |-> v] \in [at : 0..MaxMessages, excused : BOOLEAN]
    BY DEF HostTypeOK
  <2>3. QED
    BY <2>1, <2>2
<1>3. QED
  BY <1>1, <1>2 DEF Asks

LEMMA CommitType ==
  ASSUME HostTypeOK, NEW s \in Session, NEW d, NEW stack, Commit(s, d, stack)
  PROVE  asked' \in [Workflow -> [Pos -> [at : 0..MaxMessages, excused : BOOLEAN]]]
  BY AsksType DEF Commit

LEMMA StartDefinitionType ==
  ASSUME HostTypeOK, NEW s \in Session, NEW a \in Activation, StartDefinition(s, a)
  PROVE  /\ mode' \in [Workflow -> [activation : Creation \cup {"none"}, activeTools : ToolList]]
         /\ tools' \in [Session -> ToolList]
<1>1. PICK w \in Workflow :
        mode' = [mode EXCEPT ![w] = [activation |-> a, activeTools |-> tools[s]]]
  BY DEF StartDefinition
<1>2. a \in Creation /\ a \in ToolList
  BY SessionAssumption DEF ToolList, Creation
<1>3. [activation |-> a, activeTools |-> tools[s]]
        \in [activation : Creation \cup {"none"}, activeTools : ToolList]
  BY <1>2 DEF HostTypeOK
<1>4. mode' \in [Workflow -> [activation : Creation \cup {"none"}, activeTools : ToolList]]
  BY <1>1, <1>3 DEF HostTypeOK
<1>5. tools' \in [Session -> ToolList]
  BY <1>2 DEF StartDefinition, HostTypeOK
<1>6. QED
  BY <1>4, <1>5

LEMMA AgentKeepsHost ==
  ASSUME TypeInv, NEW s \in Session, Agent(s)
  PROVE  HostTypeOK'
<1> USE DEF TypeInv
<1>1. ASSUME NEW def \in Definition, NEW via \in Creation, CreateRoot(s, def, via)
      PROVE  HostTypeOK'
  <2>1. asked' \in [Workflow -> [Pos -> [at : 0..MaxMessages, excused : BOOLEAN]]]
    BY <1>1, CommitType DEF CreateRoot
  <2>2. tools' \in [Session -> ToolList]
    BY <1>1 DEF CreateRoot, HostTypeOK
  <2>3. QED
    BY <1>1, <2>1, <2>2 DEF CreateRoot, HostTypeOK
<1>2. ASSUME NEW def \in Definition, CreateSub(s, def)
      PROVE  HostTypeOK'
  BY <1>2, CommitType DEF CreateSub, HostTypeOK
<1>3. CASE Record(s)
  BY <1>3, CommitType DEF Record, BlockIfUnresolved, HostTypeOK
<1>4. CASE Evaluate(s)
  BY <1>4, CommitType DEF Evaluate, HostTypeOK
<1>5. CASE SkillRequirement(s)
  <2>1. asked' \in [Workflow -> [Pos -> [at : 0..MaxMessages, excused : BOOLEAN]]]
    BY <1>5, CommitType DEF SkillRequirement, StartDefinition
  <2>2. /\ mode' \in [Workflow -> [activation : Creation \cup {"none"}, activeTools : ToolList]]
        /\ tools' \in [Session -> ToolList]
    BY <1>5, StartDefinitionType DEF SkillRequirement, HostTypeOK
  <2>3. QED
    BY <1>5, <2>1, <2>2 DEF SkillRequirement, StartDefinition, HostTypeOK
<1>6. QED
  BY <1>1, <1>2, <1>3, <1>4, <1>5 DEF Agent

LEMMA UserKeepsHost ==
  ASSUME TypeInv, NEW s \in Session, User(s)
  PROVE  HostTypeOK'
<1> USE DEF TypeInv
<1>1. CASE Cancel(s) \/ Status(s) \/ Suspend(s) \/ FocusOn(s) \/ Adopt(s)
  BY <1>1, CommitType DEF Cancel, Status, Suspend, FocusOn, Adopt, HostTypeOK
<1>2. ASSUME Submit(s)
      PROVE  /\ said' \in 0..MaxMessages
             /\ ToBranch(s) => latest' \in [Session -> 0..MaxMessages]
  BY <1>2, SessionAssumption DEF Submit, ToBranch, HostTypeOK
<1>3. CASE InputPlain(s)
  BY <1>2, <1>3 DEF InputPlain, HostTypeOK
<1>4. CASE InputOverride(s)
  BY <1>2, <1>4, CommitType DEF InputOverride, HostTypeOK
<1>5. CASE InputRequirement(s)
  <2>1. asked' \in [Workflow -> [Pos -> [at : 0..MaxMessages, excused : BOOLEAN]]]
    BY <1>5, CommitType DEF InputRequirement, StartDefinition
  <2>2. /\ mode' \in [Workflow -> [activation : Creation \cup {"none"}, activeTools : ToolList]]
        /\ tools' \in [Session -> ToolList]
    BY <1>5, StartDefinitionType DEF InputRequirement, HostTypeOK
  <2>3. QED
    BY <1>2, <1>5, <2>1, <2>2 DEF InputRequirement, StartDefinition, HostTypeOK
<1>6. CASE InputRead(s)
  <2>1. PICK w \in Workflow, k \in Pos :
          input' = [input EXCEPT ![s] = [phase |-> "read", w |-> w, k |-> k, msg |-> said + 1]]
    BY <1>6 DEF InputRead
  <2>2. [phase |-> "read", w |-> w, k |-> k, msg |-> said + 1] \in Busy
    BY <1>6, SessionAssumption DEF InputRead, Submit, HostTypeOK, Busy
  <2>3. input' \in [Session -> Busy \cup {IdleInput}]
    BY <2>1, <2>2 DEF HostTypeOK
  <2>4. latest' \in [Session -> 0..MaxMessages]
    BY <1>2, <1>6 DEF InputRead, HostTypeOK
  <2>5. QED
    BY <1>2, <1>6, <2>3, <2>4 DEF InputRead, HostTypeOK
<1>7. QED
  BY <1>1, <1>3, <1>4, <1>5, <1>6 DEF User

LEMMA HandlerKeepsHost ==
  ASSUME TypeInv, NEW s \in Session, Handler(s) \/ Restart(s)
  PROVE  HostTypeOK'
<1> USE DEF TypeInv
<1>1. input[s] \in Busy \cup {IdleInput}
  BY DEF HostTypeOK
<1>2. ASSUME NEW phase \in {"recorded", "settled"}, To(s, phase), input[s].phase # "idle"
      PROVE  input' \in [Session -> Busy \cup {IdleInput}]
  <2>1. input[s] \in Busy
    BY <1>1, <1>2 DEF IdleInput
  <2>2. [input[s] EXCEPT !.phase = phase] \in Busy
    BY <2>1 DEF Busy
  <2>3. QED
    BY <1>2, <2>2 DEF To, HostTypeOK
<1>3. CASE InputRecord(s)
  <2>1. asked' \in [Workflow -> [Pos -> [at : 0..MaxMessages, excused : BOOLEAN]]]
    BY <1>3, CommitType DEF InputRecord, HostTypeOK
  <2>2. input' \in [Session -> Busy \cup {IdleInput}]
    BY <1>2, <1>3 DEF InputRecord
  <2>3. QED
    BY <1>3, <2>1, <2>2 DEF InputRecord, HostTypeOK
<1>4. CASE InputEvaluate(s)
  <2>1. asked' \in [Workflow -> [Pos -> [at : 0..MaxMessages, excused : BOOLEAN]]]
    BY <1>4, CommitType DEF InputEvaluate, HostTypeOK
  <2>2. input' \in [Session -> Busy \cup {IdleInput}]
    BY <1>2, <1>4 DEF InputEvaluate
  <2>3. blocked' \in SUBSET Session
    BY <1>4 DEF InputEvaluate, BlockIfUnresolved, HostTypeOK
  <2>4. QED
    BY <1>4, <2>1, <2>2, <2>3 DEF InputEvaluate, HostTypeOK
<1>5. CASE InputSettle(s)
  <2>1. input[s].msg \in 0..MaxMessages
    BY <1>1, SessionAssumption DEF Busy, IdleInput
  <2>2. QED
    BY <1>5, <2>1 DEF InputSettle, HostTypeOK
<1>6. CASE Restart(s)
  BY <1>6 DEF Restart, HostTypeOK, ToolList
<1>7. QED
  BY <1>3, <1>4, <1>5, <1>6 DEF Handler

LEMMA HostUnchanged ==
  ASSUME TypeInv, UNCHANGED vars
  PROVE  HostTypeOK'
  BY DEF TypeInv, HostTypeOK, vars

-----------------------------------------------------------------------------
(* The tables and the host hold what their types say, whatever the size of *)
(* definitions and the number of workflows, sessions and messages: in      *)
(* particular no retry takes an attempts column past its bound.            *)
LEMMA StepType ==
  ASSUME BaseInv, [Next]_vars
  PROVE  TypeInv'
<1>0. TypeInv
  BY DEF BaseInv
<1>1. HostTypeOK'
  BY <1>0, AgentKeepsHost, UserKeepsHost, HandlerKeepsHost, HostUnchanged DEF Next
<1>2. CASE \E s \in Session : Transaction(s)
  <2>0. PICK s \in Session : Transaction(s)
    BY <1>2
  <2>1. PICK d1, d2, stack :
          Move(db, d1, s) /\ Move(d1, d2, s) /\ db' = Checkpoint(d2, s, stack)
    BY <2>0 DEF Transaction
  <2>2. db \in Database /\ latest[s] \in Nat
    BY <1>0 DEF TypeInv, HostTypeOK
  <2>3. d2 \in Database
    BY <2>1, <2>2, MoveType
  <2>4. db' \in Database
    BY <2>1, <2>2, <2>3, CheckpointType
  <2>5. QED
    BY <1>1, <2>4 DEF TypeInv
<1>3. CASE UNCHANGED db
  BY <1>0, <1>1, <1>3 DEF TypeInv
<1>4. QED
  BY <1>2, <1>3, StepIsTransaction

(* Every step lets every row go on as Progress says.                       *)
LEMMA StepProgress ==
  ASSUME BaseInv, [Next]_vars
  PROVE  Progresses(db, db')
<1>1. CASE \E s \in Session : Transaction(s)
  <2>0. PICK s \in Session : Transaction(s)
    BY <1>1
  <2>1. PICK d1, d2, stack :
          Move(db, d1, s) /\ Move(d1, d2, s) /\ db' = Checkpoint(d2, s, stack)
    BY <2>0 DEF Transaction
  <2>2. db \in Database /\ latest[s] \in Nat
    BY DEF BaseInv, TypeInv, HostTypeOK
  <2>3. d1 \in Database /\ d2 \in Database
    BY <2>1, <2>2, MoveType
  <2>4. Progresses(db, d1) /\ Progresses(d1, d2)
    BY <2>1, <2>2, <2>3, MoveProgress
  <2>5. PICK e : e = Checkpoint(d2, s, stack)
    OBVIOUS
  <2>6. Progresses(d2, e)
    BY <2>2, <2>3, <2>5, CheckpointType, CheckpointTasks
       DEF Progresses, Progress, Blank, Undefined, SameTasks
  <2>7. Progresses(db, e)
    BY <2>4, <2>6, ProgressGoesOn
  <2>8. QED
    BY <2>1, <2>5, <2>7
<1>2. CASE UNCHANGED db
  BY <1>2, ProgressStays DEF Progresses
<1>3. QED
  BY <1>1, <1>2, StepIsTransaction

(* A handler keeps working on the task it read, or reads an awaiting one.  *)
LEMMA HandlerReads ==
  ASSUME TypeInv, [Next]_vars, NEW t \in Session, input'[t].phase # "idle"
  PROVE  \/ /\ input[t].phase # "idle"
            /\ input'[t].w = input[t].w /\ input'[t].k = input[t].k
         \/ UNCHANGED db /\ AwaitsReply(input'[t].w, input'[t].k)
<1> DEFINE Stays(s) == /\ input[s].phase # "idle"
                       /\ input'[s].w = input[s].w /\ input'[s].k = input[s].k
           Reads(s) == UNCHANGED db /\ AwaitsReply(input'[s].w, input'[s].k)
           Goes == Stays(t) \/ Reads(t)
<1>0. \A s \in Session : input[s] \in Busy \cup {IdleInput}
  BY DEF TypeInv, HostTypeOK
<1>1. CASE UNCHANGED input
  BY <1>1
<1>2. ASSUME NEW s \in Session, NEW phase, To(s, phase), input[s].phase # "idle"
      PROVE  Goes
  <2>1. input[s] \in Busy
    BY <1>0, <1>2 DEF IdleInput
  <2>2. CASE s = t
    <3>1. input'[t] = [input[t] EXCEPT !.phase = phase]
      BY <1>2, <2>2 DEF To, TypeInv, HostTypeOK
    <3>2. QED
      BY <1>2, <2>1, <2>2, <3>1 DEF Busy
  <2>3. CASE s # t
    BY <1>2, <2>3 DEF To, TypeInv, HostTypeOK
  <2>4. QED
    BY <2>2, <2>3
<1>3. ASSUME NEW s \in Session, Agent(s)
      PROVE  UNCHANGED input
  BY <1>3 DEF Agent, CreateRoot, CreateSub, Record, Evaluate, SkillRequirement
<1>4. ASSUME NEW s \in Session, User(s), ~InputRead(s)
      PROVE  UNCHANGED input
  BY <1>4 DEF User, Cancel, Status, Suspend, FocusOn, Adopt, InputPlain, InputOverride,
              InputRequirement
<1>5. ASSUME NEW s \in Session, InputRead(s)
      PROVE  Goes
  <2>1. PICK w \in Workflow, k \in Pos :
          /\ AwaitsReply(w, k)
          /\ input' = [input EXCEPT ![s] = [phase |-> "read", w |-> w, k |-> k, msg |-> said + 1]]
    BY <1>5 DEF InputRead
  <2>2. CASE s = t
    <3>1. input'[t].w = w /\ input'[t].k = k
      BY <2>1, <2>2 DEF TypeInv, HostTypeOK
    <3>2. QED
      BY <1>5, <2>1, <3>1 DEF InputRead
  <2>3. CASE s # t
    BY <2>1, <2>3 DEF TypeInv, HostTypeOK
  <2>4. QED
    BY <2>2, <2>3
<1>6. ASSUME NEW s \in Session, InputRecord(s) \/ InputEvaluate(s)
      PROVE  Goes
  BY <1>2, <1>6 DEF InputRecord, InputEvaluate
<1>7. ASSUME NEW s \in Session, InputSettle(s) \/ Restart(s)
      PROVE  Goes
  <2>1. input' = [input EXCEPT ![s] = IdleInput]
    BY <1>7 DEF InputSettle, Restart
  <2>2. CASE s = t
    BY <2>1, <2>2 DEF TypeInv, HostTypeOK, IdleInput
  <2>3. CASE s # t
    BY <2>1, <2>3 DEF TypeInv, HostTypeOK
  <2>4. QED
    BY <2>2, <2>3
<1>8. CASE UNCHANGED vars
  BY <1>1, <1>8 DEF vars
<1>9. QED
  BY <1>1, <1>3, <1>4, <1>5, <1>6, <1>7, <1>8 DEF Next, Handler

LEMMA StepBase == BaseInv /\ [Next]_vars => BaseInv'
<1> SUFFICES ASSUME BaseInv, [Next]_vars
             PROVE  BaseInv'
  OBVIOUS
<1>1. TypeInv /\ TypeInv' /\ Progresses(db, db')
  BY StepType, StepProgress DEF BaseInv
<1>2. (\A w \in Workflow : Blank(db[w]))'
  BY <1>1 DEF BaseInv, Progresses, Progress
<1>3. ASSUME NEW t \in Session, input'[t].phase # "idle"
      PROVE  /\ ~Undefined(db'[input'[t].w])
             /\ db'[input'[t].w].tasks[input'[t].k].type = "collect"
  <2>1. input'[t].w \in Workflow /\ input'[t].k \in Pos
    <3>1. input'[t] \in Busy \cup {IdleInput}
      BY <1>1 DEF TypeInv, HostTypeOK
    <3>2. QED
      BY <1>3, <3>1 DEF Busy, IdleInput
  <2>2. CASE /\ input[t].phase # "idle"
             /\ input'[t].w = input[t].w /\ input'[t].k = input[t].k
    <3>1. /\ ~Undefined(db[input'[t].w])
          /\ db[input'[t].w].tasks[input'[t].k].type = "collect"
      BY <2>2 DEF BaseInv, HandlersAnswerCollect
    <3>2. QED
      BY <1>1, <2>1, <3>1 DEF Progresses, Progress, SameTasks
  <2>3. CASE UNCHANGED db /\ AwaitsReply(input'[t].w, input'[t].k)
    BY <2>1, <2>3 DEF AwaitsReply, BaseInv, Blank, IsCurrent
  <2>4. QED
    BY <1>1, <1>3, <2>2, <2>3, HandlerReads
<1>4. HandlersAnswerCollect'
  BY <1>3 DEF HandlersAnswerCollect
<1>5. QED
  BY <1>1, <1>2, <1>4 DEF BaseInv

LEMMA InitBase == Init => BaseInv
<1> SUFFICES ASSUME Init
             PROVE  BaseInv
  OBVIOUS
<1>2. \A w \in Workflow : Blank(db[w])
  BY DEF Init, NoRows, NoTasks, NewTask, Blank
<1>3. HandlersAnswerCollect
  BY DEF Init, IdleInput, HandlersAnswerCollect
<1>4. QED
  BY <1>2, <1>3, InitType DEF BaseInv

LEMMA BaseHolds == Spec => []BaseInv
<1>1. QED
  BY InitBase, StepBase, PTL DEF Spec

(* The tables of a profile and the variables of its sessions keep their    *)
(* types through every tool call, command, message and restart.            *)
THEOREM TypeCorrect == Spec => []TypeInv
<1>1. BaseInv => TypeInv
  BY DEF BaseInv
<1>2. QED
  BY <1>1, BaseHolds, PTL

-----------------------------------------------------------------------------
(* DefinitionIsKept: every operation that reaches a workflow with tasks    *)
(* leaves their definition alone, and no retry, restored evaluation or     *)
(* late handler takes back the acceptance of a task.                       *)
THEOREM DefinitionStays == Spec => DefinitionIsKept
<1> DEFINE SameDefinition(w) == db[w].status \notin {"none", "pending_definition"} =>
       \A k \in Pos : /\ db'[w].tasks[k].type = db[w].tasks[k].type
                      /\ db'[w].tasks[k].criteria = db[w].tasks[k].criteria
                      /\ db[w].tasks[k].status = "accepted"
                           => db'[w].tasks[k].status = "accepted"
<1>1. ASSUME BaseInv, [Next]_vars, NEW w \in Workflow
      PROVE  SameDefinition(w)
  BY <1>1, StepProgress DEF Progresses, Progress, Undefined, SameTasks
<1>2. BaseInv /\ [Next]_vars => [\A w \in Workflow : SameDefinition(w)]_vars
  BY <1>1
<1>3. QED
  BY <1>2, BaseHolds, PTL DEF Spec, DefinitionIsKept

(* TerminalIsFinal: the cascade of endings, the input handler that finishes*)
(* late and the adoption of a tree leave an ended workflow as it ended.    *)
THEOREM TerminalStays == Spec => TerminalIsFinal
<1> DEFINE Final(w) == db[w].status \in TerminalStatus =>
       /\ db'[w].status = db[w].status
       /\ \A k \in Pos : db'[w].tasks[k].status = "accepted"
                           => db[w].tasks[k].status = "accepted"
<1>1. ASSUME BaseInv, [Next]_vars, NEW w \in Workflow
      PROVE  Final(w)
  BY <1>1, StepProgress DEF Progresses, Progress
<1>2. BaseInv /\ [Next]_vars => [\A w \in Workflow : Final(w)]_vars
  BY <1>1
<1>3. QED
  BY <1>2, BaseHolds, PTL DEF Spec, TerminalIsFinal

-----------------------------------------------------------------------------
(* TreeHasOneOwner holds in every state, for trees of any depth: adoption  *)
(* moves all of a tree, and a child is only created by the session that    *)
(* owns its parent.                                                        *)
THEOREM OneOwnerHolds == Spec => []TreeHasOneOwner
<1>1. Init => TreeHasOneOwner
  BY DEF Init, NoRows, TreeHasOneOwner, OneOwner
<1>2. BaseInv /\ TreeHasOneOwner /\ [Next]_vars => TreeHasOneOwner'
  <2> SUFFICES ASSUME BaseInv, TreeHasOneOwner, [Next]_vars
               PROVE  TreeHasOneOwner'
    OBVIOUS
  <2>1. CASE \E s \in Session : Transaction(s)
    <3>0. PICK s \in Session : Transaction(s)
      BY <2>1
    <3>1. PICK d1, d2, stack :
            Move(db, d1, s) /\ Move(d1, d2, s) /\ db' = Checkpoint(d2, s, stack)
      BY <3>0 DEF Transaction
    <3>2. db \in Database /\ latest[s] \in Nat
      BY DEF BaseInv, TypeInv, HostTypeOK
    <3>3. d1 \in Database /\ d2 \in Database
      BY <3>1, <3>2, MoveType
    <3>4. OneOwner(d2)
      BY <3>1, <3>2, <3>3, MoveOneOwner DEF TreeHasOneOwner
    <3>5. db' \in Database /\ KeepsOwners(d2, db')
      BY <3>1, <3>2, <3>3, CheckpointType DEF KeepsOwners
    <3>6. OneOwner(db')
      BY <3>3, <3>4, <3>5, KeepsOwnersOneOwner
    <3>7. QED
      BY <3>6 DEF TreeHasOneOwner, OneOwner
  <2>2. CASE UNCHANGED db
    BY <2>2 DEF TreeHasOneOwner, OneOwner
  <2>3. QED
    BY <2>1, <2>2, StepIsTransaction
<1>3. QED
  BY <1>1, <1>2, BaseHolds, PTL DEF Spec
-----------------------------------------------------------------------------
(* Where a workflow stands: its tasks run strictly in order, parent and    *)
(* child agree on who waits for whom, a task is accepted only in its turn. *)
(* As above, an invariant of the tables is proved for each Move of a       *)
(* transaction, here from what the row operations of WorkflowTables make   *)
(* of one row.                                                             *)


(* Definition 1.  A row in order, and the child column: only a workflow    *)
(* task that has begun names a child.                                      *)
ChildrenInOrder(row) ==
  \A k \in Pos : row.tasks[k].child # NoWorkflow =>
     row.tasks[k].type = "workflow" /\ row.tasks[k].status \notin {"pending", "absent"}
InOrder(row) == RowInOrder(row) /\ ChildrenInOrder(row)
AllInOrder(d) == \A x \in Workflow : InOrder(d[x])

(* Definition 2.  Task k is the front of a row whose tasks are in order.   *)
Stands(row, k) ==
  /\ Front(row, k) /\ Sparse(row) /\ ChildrenInOrder(row)
  /\ row.tasks[k].status \in FrontStatus

-----------------------------------------------------------------------------
(* In an active row the front is the current task, and the only task whose *)
(* status is one of the front's.                                           *)
LEMMA ActiveStands ==
  ASSUME NEW row \in Row, InOrder(row), row.status \in ActiveStatus, NEW k \in Pos,
         IsCurrent(row, k) \/ row.tasks[k].status \in FrontStatus
  PROVE  Stands(row, k) /\ Matches(row, row.tasks[k])
<1>1. row.status # "pending_definition"
  BY DEF InOrder, RowInOrder, IsCurrent, Open, FrontStatus
<1>2. PICK j \in Pos : Front(row, j) /\ Matches(row, row.tasks[j])
  BY <1>1 DEF InOrder, RowInOrder, ActiveStatus
<1>3. row.tasks[j].status \in FrontStatus
  BY <1>2 DEF Matches, FrontStatus
<1>4. k = j
  <2>1. ~(k < j)
    BY <1>2 DEF Front, IsCurrent, Open, FrontStatus
  <2>2. ~(j < k)
    <3>1. Open(row.tasks[j])
      BY <1>3 DEF Open, FrontStatus
    <3>2. j < k => row.tasks[k].status \in {"pending", "absent"}
      BY <1>2 DEF Front
    <3>3. QED
      BY <3>1, <3>2 DEF IsCurrent, FrontStatus
  <2>3. QED
    BY <2>1, <2>2, TablesAssumption DEF Pos
<1>5. QED
  BY <1>2, <1>3, <1>4 DEF InOrder, RowInOrder, Stands

(* The same for a cancelled row, whose front is where it was.              *)
LEMMA CancelledStands ==
  ASSUME NEW row \in Row, InOrder(row), row.status = "cancelled", NEW k \in Pos,
         IsCurrent(row, k)
  PROVE  Stands(row, k)
<1>1. PICK j \in Pos : Front(row, j) /\ row.tasks[j].status \in FrontStatus
  BY DEF InOrder, RowInOrder, IsCurrent, Open
<1>2. k = j
  <2>1. ~(k < j)
    BY <1>1 DEF Front, IsCurrent, Open
  <2>2. ~(j < k)
    BY <1>1 DEF IsCurrent, Open, FrontStatus
  <2>3. QED
    BY <2>1, <2>2, TablesAssumption DEF Pos
<1>3. QED
  BY <1>1, <1>2 DEF InOrder, RowInOrder, Stands

(* A row that goes on with the same front.                                 *)
LEMMA SameFront ==
  ASSUME NEW row, NEW n, NEW k \in Pos, Stands(row, k), SameTasks(row, n),
         \A j \in Pos \ {k} : /\ n.tasks[j].status = row.tasks[j].status
                              /\ n.tasks[j].child = row.tasks[j].child,
         n.tasks[k].status \in FrontStatus \cup {"failed"},
         n.tasks[k].child = NoWorkflow \/ row.tasks[k].type = "workflow"
  PROVE  Front(n, k) /\ Sparse(n) /\ ChildrenInOrder(n)
<1>1. Front(n, k)
  BY DEF Front, Stands, Pos
<1>2. row.tasks[k].status # "absent" /\ n.tasks[k].status \notin {"absent", "pending"}
  BY DEF Stands, FrontStatus
<1>3. Sparse(n)
  BY <1>2 DEF Sparse, Stands, Pos
<1>4. ChildrenInOrder(n)
  BY <1>2 DEF ChildrenInOrder, Stands, SameTasks
<1>5. QED
  BY <1>1, <1>3, <1>4

LEMMA FrontMatches ==
  ASSUME NEW n, NEW k \in Pos, Front(n, k), Sparse(n), ChildrenInOrder(n),
         Matches(n, n.tasks[k])
  PROVE  InOrder(n)
  BY DEF InOrder, RowInOrder, Matches

(* The row operations keep a row in order.                                 *)
LEMMA EvaluatingInOrder ==
  ASSUME NEW row \in Row, NEW k \in Pos, Stands(row, k), row.tasks[k].type # "evaluate"
  PROVE  InOrder(Mark(row, k, "evaluating", "evaluating"))
<1> DEFINE n == Mark(row, k, "evaluating", "evaluating")
<1>1. "evaluating" \in TaskStatus /\ "evaluating" \in WorkflowStatus
  BY DEF TaskStatus, FrontStatus, WorkflowStatus, ActiveStatus
<1>2. /\ SameTasks(row, n) /\ n.tasks[k].status = "evaluating" /\ n.status = "evaluating"
      /\ \A j \in Pos \ {k} : n.tasks[j].status = row.tasks[j].status
      /\ \A j \in Pos : n.tasks[j].child = row.tasks[j].child
  BY <1>1, MarkType, MarkTasks
<1> HIDE DEF n
<1>3. n.tasks[k].child = NoWorkflow \/ row.tasks[k].type = "workflow"
  BY <1>2 DEF Stands, ChildrenInOrder
<1>4. Front(n, k) /\ Sparse(n) /\ ChildrenInOrder(n)
  BY <1>2, <1>3, SameFront DEF FrontStatus
<1>5. Matches(n, n.tasks[k])
  BY <1>2 DEF Matches, SameTasks
<1>6. InOrder(n)
  BY <1>4, <1>5, FrontMatches
<1>7. QED
  BY <1>6 DEF n

LEMMA FailedInOrder ==
  ASSUME NEW row, NEW n, NEW k \in Pos, Stands(row, k), SameTasks(row, n),
         \A j \in Pos \ {k} : /\ n.tasks[j].status = row.tasks[j].status
                              /\ n.tasks[j].child = row.tasks[j].child,
         n.tasks[k].status = "failed", n.status = "failed",
         n.tasks[k].child = row.tasks[k].child
  PROVE  InOrder(n)
<1>1. n.tasks[k].child = NoWorkflow \/ row.tasks[k].type = "workflow"
  BY DEF Stands, ChildrenInOrder
<1>2. Front(n, k) /\ Sparse(n) /\ ChildrenInOrder(n)
  BY <1>1, SameFront
<1>3. QED
  BY <1>2 DEF InOrder, RowInOrder

(* A task that runs or awaits its user again.                              *)
LEMMA AgainInOrder ==
  ASSUME NEW row, NEW n, NEW k \in Pos, Stands(row, k), SameTasks(row, n),
         row.tasks[k].type \in TaskType,
         \A j \in Pos \ {k} : /\ n.tasks[j].status = row.tasks[j].status
                              /\ n.tasks[j].child = row.tasks[j].child,
         n.tasks[k].status = Activated(row.tasks[k].type),
         n.status = Activated(row.tasks[k].type),
         n.tasks[k].child = IF row.tasks[k].type = "workflow" THEN NoWorkflow
                            ELSE row.tasks[k].child
  PROVE  InOrder(n)
<1>1. n.tasks[k].child = NoWorkflow
  BY DEF Stands, ChildrenInOrder
<1>2. Front(n, k) /\ Sparse(n) /\ ChildrenInOrder(n)
  BY <1>1, SameFront DEF Activated, FrontStatus
<1>3. Matches(n, n.tasks[k])
  BY <1>1 DEF Matches, Activated, SameTasks
<1>4. QED
  BY <1>2, <1>3, FrontMatches

LEMMA AcceptedInOrder ==
  ASSUME NEW row \in Row, NEW k \in Pos, Stands(row, k)
  PROVE  InOrder(AcceptTask(row, k))
<1> DEFINE n == AcceptTask(row, k)
<1>1. /\ SameTasks(row, n) /\ \A j \in Pos : n.tasks[j].child = row.tasks[j].child
      /\ n.tasks[k].status = "accepted"
      /\ \A j \in Pos \ {k} : n.tasks[j].status =
           IF NextOpen(row, k, j) THEN Activated(row.tasks[j].type) ELSE row.tasks[j].status
      /\ n.status =
           IF \E j \in Pos : NextOpen(row, k, j) /\ row.tasks[j].type = "collect"
           THEN "awaiting_user"
           ELSE IF \E j \in Pos : NextOpen(row, k, j) THEN "running" ELSE "completed"
  BY AcceptTaskTasks
<1> HIDE DEF n
<1>2. \A j \in Pos : /\ j < k => row.tasks[j].status = "accepted"
                     /\ j > k => row.tasks[j].status \in {"pending", "absent"}
  BY DEF Stands, Front
<1>3. \A i, j \in Pos : (i < j /\ row.tasks[i].status = "absent") => row.tasks[j].status = "absent"
  BY DEF Stands, Sparse
<1>4. ChildrenInOrder(n)
  BY <1>1 DEF ChildrenInOrder, Stands, SameTasks, Activated, NextOpen, Open
<1>5. ASSUME NEW j \in Pos, NextOpen(row, k, j)
      PROVE  InOrder(n)
  <2>1. j > k /\ row.tasks[j].status = "pending"
    BY <1>2, <1>5, TablesAssumption DEF NextOpen, Open, Pos
  <2>2. \A i \in Pos \ {k} : NextOpen(row, k, i) => i = j
    BY <1>5, TablesAssumption DEF NextOpen, Pos
  <2>3. \A i \in Pos : (i > k /\ i < j) => row.tasks[i].status = "absent"
    BY <1>2, <1>5, TablesAssumption DEF NextOpen, Open, Pos
  <2>4. \A i \in Pos : ~(i > k /\ i < j)
    BY <1>3, <2>1, <2>3
  <2>5. /\ n.tasks[j].status = Activated(row.tasks[j].type)
        /\ \A i \in Pos \ {j, k} : n.tasks[i].status = row.tasks[i].status
    BY <1>1, <1>5, <2>2 DEF NextOpen
  <2>6. Front(n, j)
    <3>1. ASSUME NEW i \in Pos, i < j
          PROVE  n.tasks[i].status = "accepted"
      <4>1. i < k \/ i = k
        BY <2>4, <3>1, TablesAssumption DEF Pos
      <4>2. i # j
        BY <3>1 DEF Pos
      <4>3. QED
        BY <1>1, <1>2, <2>5, <4>1, <4>2
    <3>2. ASSUME NEW i \in Pos, i > j
          PROVE  n.tasks[i].status \in {"pending", "absent"}
      BY <1>2, <2>1, <2>5, <3>2, TablesAssumption DEF Pos
    <3>3. QED
      BY <3>1, <3>2 DEF Front
  <2>7. Sparse(n)
    <3>0. /\ n.tasks[j].status # "absent" /\ row.tasks[j].status # "absent"
          /\ n.tasks[k].status # "absent" /\ row.tasks[k].status # "absent"
      BY <1>1, <2>1, <2>5 DEF Activated, Stands, FrontStatus
    <3>1. \A i \in Pos : n.tasks[i].status = "absent" <=> row.tasks[i].status = "absent"
      BY <2>5, <3>0
    <3>2. QED
      BY <1>3, <3>1 DEF Sparse
  <2>8. Matches(n, n.tasks[j])
    <3>1. n.tasks[j].child = NoWorkflow /\ n.tasks[j].type = row.tasks[j].type
      BY <1>1, <2>1 DEF Stands, ChildrenInOrder, SameTasks
    <3>2. CASE row.tasks[j].type = "collect"
      BY <1>1, <1>5, <2>5, <3>1, <3>2 DEF Matches, Activated
    <3>3. CASE row.tasks[j].type # "collect"
      <4>1. n.status = "running"
        BY <1>1, <1>5, <2>2, <3>3 DEF NextOpen
      <4>2. QED
        BY <2>5, <3>1, <3>3, <4>1 DEF Matches, Activated
    <3>4. QED
      BY <3>2, <3>3
  <2>9. QED
    BY <1>4, <2>6, <2>7, <2>8, FrontMatches
<1>6. ASSUME \A j \in Pos : ~NextOpen(row, k, j)
      PROVE  InOrder(n)
  <2>1. ASSUME NEW j \in Pos, j > k
        PROVE  row.tasks[j].status = "absent"
    <3>1. k + 1 \in Pos
      BY <2>1, TablesAssumption DEF Pos
    <3>2. row.tasks[k + 1].status \in {"pending", "absent"}
      BY <1>2, <3>1, TablesAssumption DEF Pos
    <3>3. \A i \in Pos : i < k + 1 => i <= k
      BY TablesAssumption DEF Pos
    <3>4. row.tasks[k + 1].status = "absent"
      BY <1>2, <1>6, <3>1, <3>2, <3>3, TablesAssumption DEF NextOpen, Open, Pos
    <3>5. j = k + 1 \/ k + 1 < j
      BY <2>1, TablesAssumption DEF Pos
    <3>6. QED
      BY <1>3, <3>1, <3>4, <3>5
  <2>2. n.status = "completed" /\ \A j \in Pos \ {k} : n.tasks[j].status = row.tasks[j].status
    BY <1>1, <1>6
  <2>3. \A j \in Pos : \/ j <= k /\ n.tasks[j].status = "accepted"
                       \/ j > k /\ n.tasks[j].status = "absent"
    BY <1>1, <1>2, <2>1, <2>2, TablesAssumption DEF Pos
  <2>4. Sparse(n)
    BY <2>3, TablesAssumption DEF Sparse, Pos
  <2>5. QED
    BY <1>4, <2>2, <2>3, <2>4 DEF InOrder, RowInOrder
<1>7. InOrder(n)
  BY <1>5, <1>6
<1>8. QED
  BY <1>7 DEF n

(* A new definition: every task is pending but the first, which begins.    *)
LEMMA DefinedInOrder ==
  ASSUME NEW row \in Row, NEW def \in Definition, row.tasks = InsertTasks(def)
  PROVE  InOrder(ActivateNext(row))
<1> DEFINE n == ActivateNext(row)
<1>1. PICK m \in Pos : DOMAIN def = 1..m
  BY TablesAssumption
<1>2. /\ \A j \in Pos : row.tasks[j].status = IF j <= m THEN "pending" ELSE "absent"
      /\ \A j \in Pos : row.tasks[j].child = NoWorkflow
  BY <1>1, TablesAssumption DEF InsertTasks, NewTask, Pos
<1>3. 1 \in Pos /\ \A j \in Pos : IsCurrent(row, j) <=> j = 1
  BY <1>1, <1>2, TablesAssumption DEF IsCurrent, Open, Pos
<1>4. /\ SameTasks(row, n) /\ \A j \in Pos : n.tasks[j].child = row.tasks[j].child
      /\ \A j \in Pos : n.tasks[j].status =
           IF IsCurrent(row, j) THEN Activated(row.tasks[j].type) ELSE row.tasks[j].status
      /\ n.status = IF \E j \in Pos : IsCurrent(row, j) /\ row.tasks[j].type = "collect"
                    THEN "awaiting_user"
                    ELSE IF \E j \in Pos : IsCurrent(row, j) THEN "running" ELSE "completed"
  BY ActivateNextTasks
<1> HIDE DEF n
<1>5. /\ n.tasks[1].status = Activated(row.tasks[1].type)
      /\ n.status = Activated(row.tasks[1].type)
      /\ n.tasks[1].child = NoWorkflow /\ n.tasks[1].type = row.tasks[1].type
      /\ \A j \in Pos \ {1} : n.tasks[j].status = row.tasks[j].status
  BY <1>2, <1>3, <1>4 DEF SameTasks, Activated
<1>6. Front(n, 1)
  BY <1>2, <1>3, <1>5, TablesAssumption DEF Front, Pos
<1>7. Sparse(n)
  <2>1. n.tasks[1].status # "absent"
    BY <1>5 DEF Activated
  <2>2. \A j \in Pos : n.tasks[j].status = "absent" => j > m
    BY <1>1, <1>2, <1>5, <2>1, TablesAssumption DEF Pos
  <2>3. \A j \in Pos : j > m => n.tasks[j].status = "absent"
    BY <1>1, <1>2, <1>5, TablesAssumption DEF Pos
  <2>4. QED
    BY <2>2, <2>3, TablesAssumption DEF Sparse, Pos
<1>8. ChildrenInOrder(n)
  BY <1>2, <1>4 DEF ChildrenInOrder
<1>9. Matches(n, n.tasks[1])
  BY <1>5 DEF Matches, Activated
<1>10. InOrder(n)
  BY <1>3, <1>6, <1>7, <1>8, <1>9, FrontMatches
<1>11. QED
  BY <1>10 DEF n

(* Rows that agree on what order is about.                                 *)
LEMMA SameInOrder ==
  ASSUME NEW row, NEW n, InOrder(row), SameTasks(row, n), n.status = row.status,
         \A j \in Pos : /\ n.tasks[j].status = row.tasks[j].status
                        /\ n.tasks[j].child = row.tasks[j].child
  PROVE  InOrder(n)
<1>1. Sparse(n) /\ ChildrenInOrder(n)
  BY DEF InOrder, RowInOrder, Sparse, ChildrenInOrder, SameTasks
<1>2. \A k \in Pos : Front(row, k) => Front(n, k)
  BY DEF Front
<1>3. \A k \in Pos : Matches(row, row.tasks[k]) => Matches(n, n.tasks[k])
  BY DEF Matches, SameTasks
<1>4. /\ n.status \in {"none", "pending_definition"}
           => \A k \in Pos : n.tasks[k].status = "absent"
      /\ n.status = "completed" => \A k \in Pos : n.tasks[k].status \in {"accepted", "absent"}
  BY DEF InOrder, RowInOrder
<1>5. n.status \in {"running", "awaiting_user", "evaluating"}
        => \E k \in Pos : Front(n, k) /\ Matches(n, n.tasks[k])
  BY <1>2, <1>3 DEF InOrder, RowInOrder
<1>6. n.status = "failed" => \E k \in Pos : Front(n, k) /\ n.tasks[k].status = "failed"
  BY <1>2 DEF InOrder, RowInOrder
<1>7. n.status = "cancelled"
        => \/ \A k \in Pos : n.tasks[k].status = "absent"
           \/ \E k \in Pos : Front(n, k) /\ n.tasks[k].status \in FrontStatus
  BY <1>2 DEF InOrder, RowInOrder
<1>8. QED
  BY <1>1, <1>4, <1>5, <1>6, <1>7 DEF InOrder, RowInOrder

(* The cancellation of an active row.                                      *)
LEMMA CancelledInOrder ==
  ASSUME NEW row, NEW n, InOrder(row), row.status \in ActiveStatus,
         n.status = "cancelled", n.tasks = row.tasks
  PROVE  InOrder(n)
<1>1. Sparse(n) /\ ChildrenInOrder(n) /\ \A k \in Pos : Front(row, k) => Front(n, k)
  BY DEF InOrder, RowInOrder, Sparse, ChildrenInOrder, Front
<1>2. \/ \A k \in Pos : row.tasks[k].status = "absent"
      \/ \E k \in Pos : Front(row, k) /\ Matches(row, row.tasks[k])
  BY DEF InOrder, RowInOrder, ActiveStatus
<1>3. \/ \A k \in Pos : n.tasks[k].status = "absent"
      \/ \E k \in Pos : Front(n, k) /\ n.tasks[k].status \in FrontStatus
  BY <1>1, <1>2 DEF Matches, FrontStatus
<1>4. QED
  BY <1>1, <1>3 DEF InOrder, RowInOrder

-----------------------------------------------------------------------------
(* Every Move keeps every row in order.                                    *)
LEMMA ResolveInOrder ==
  ASSUME NEW d \in Database, AllInOrder(d), NEW w \in Workflow
  PROVE  AllInOrder(ResolveParentAfterChild(d, w))
<1> SUFFICES ASSUME NEW p \in Workflow
             PROVE  InOrder(ResolveParentAfterChild(d, w)[p])
  BY DEF AllInOrder
<1>0. d[p] \in Row /\ InOrder(d[p])
  BY DEF AllInOrder, Database
<1>1. CASE ResolveParentAfterChild(d, w)[p] = d[p]
  BY <1>0, <1>1
<1>2. ASSUME NEW k \in Pos, Informed(d, Ended(d, w), p, k),
             ResolveParentAfterChild(d, w)[p] =
               IF Passes(d, w, d[p].tasks[k]) THEN AcceptTask(d[p], k)
               ELSE Mark(d[p], k, "evaluating", "evaluating")
      PROVE  InOrder(ResolveParentAfterChild(d, w)[p])
  <2>1. d[p].status \in ActiveStatus /\ d[p].tasks[k].status = "waiting_subworkflow"
    BY <1>2 DEF Informed, IsActive
  <2>2. Stands(d[p], k) /\ d[p].tasks[k].type # "evaluate"
    BY <1>0, <2>1, ActiveStands DEF Matches, FrontStatus
  <2>3. QED
    BY <1>0, <1>2, <2>2, AcceptedInOrder, EvaluatingInOrder
<1>3. QED
  BY <1>1, <1>2, ResolveCases

LEMMA PutInOrder ==
  ASSUME NEW d \in Database, AllInOrder(d), NEW w \in Workflow, NEW row, InOrder(row)
  PROVE  AllInOrder([d EXCEPT ![w] = row])
  BY DEF AllInOrder, Database

LEMMA UpdateInOrder ==
  ASSUME NEW d \in Database, AllInOrder(d), NEW w \in Workflow, NEW row \in Row, InOrder(row)
  PROVE  AllInOrder(Update(d, w, row))
<1> DEFINE new == [d EXCEPT ![w] = row]
<1>1. new \in Database
  BY DEF Database
<1>2. AllInOrder(new)
  BY PutInOrder
<1>3. QED
  BY <1>1, <1>2, ResolveInOrder DEF Update

LEMMA MoveInOrder ==
  ASSUME NEW d \in Database, AllInOrder(d), NEW s \in Session, NEW e, Move(d, e, s)
  PROVE  AllInOrder(e)
<1>0. \A x \in Workflow : d[x] \in Row /\ InOrder(d[x])
  BY DEF AllInOrder, Database
<1>1. CASE e = d
  BY <1>1
<1>2. ASSUME NEW def \in Definition, NEW parent \in Workflow \cup {NoWorkflow}
      PROVE  InOrder(NewRow(s, parent, def))
  <2> DEFINE row == [status |-> "running", parent |-> parent, session |-> s,
                     tasks |-> InsertTasks(def)]
  <2>1. row \in Row /\ row.tasks = InsertTasks(def)
    BY InsertTasksType DEF Row, WorkflowStatus, ActiveStatus
  <2>2. QED
    BY <2>1, DefinedInOrder DEF NewRow
<1>3. CASE NewRoot(d, e, s)
  <2>1. PICK w \in Workflow, def \in Definition : e = [d EXCEPT ![w] = NewRow(s, NoWorkflow, def)]
    BY <1>3 DEF NewRoot, CreateRootWorkflow
  <2>2. QED
    BY <1>2, <2>1, PutInOrder
<1>4. CASE NewPending(d, e, s)
  <2> DEFINE row == [status |-> "pending_definition", parent |-> NoWorkflow,
                     session |-> s, tasks |-> NoTasks]
  <2>1. PICK w \in Workflow : e = [d EXCEPT ![w] = row]
    BY <1>4 DEF NewPending
  <2>2. \A k \in Pos : row.tasks[k].status = "absent" /\ row.tasks[k].child = NoWorkflow
    BY DEF NoTasks, NewTask
  <2>3. InOrder(row)
    BY <2>2 DEF InOrder, RowInOrder, Sparse, ChildrenInOrder
  <2>4. QED
    BY <2>1, <2>3, PutInOrder
<1>5. CASE Hydrated(d, e, s)
  <2>1. PICK w \in Workflow, def \in Definition : e = HydrateWorkflow(d, w, def)
    BY <1>5 DEF Hydrated
  <2>2. PICK row : row = [d[w] EXCEPT !.status = "running", !.tasks = InsertTasks(def)]
    OBVIOUS
  <2>3. row \in Row /\ row.tasks = InsertTasks(def)
    BY <2>2, InsertTasksType DEF Database, Row, WorkflowStatus, ActiveStatus
  <2>4. e = [d EXCEPT ![w] = ActivateNext(row)]
    BY <2>1, <2>2 DEF HydrateWorkflow
  <2>5. QED
    BY <2>3, <2>4, DefinedInOrder, PutInOrder
<1>6. CASE NewChild(d, e, s)
  <2>1. PICK p \in Workflow, c \in Workflow, k \in Pos, def \in Definition :
          /\ d[p].status \in ActiveStatus /\ IsCurrent(d[p], k)
          /\ d[p].tasks[k].type = "workflow" /\ d[p].tasks[k].status = "running"
          /\ d[c].status = "none"
          /\ e = CreateSubworkflow(d, p, k, c, s, def)
    BY <1>6 DEF NewChild, Live, IsActive
  <2> DEFINE n == LinkChild(d[p], k, c)
  <2>2. /\ n.status = d[p].status /\ SameTasks(d[p], n)
        /\ n.tasks[k].status = "waiting_subworkflow"
        /\ \A j \in Pos \ {k} : n.tasks[j] = d[p].tasks[j]
    BY <1>0, <2>1, LinkChildType, LinkChildTasks
  <2>3. /\ c # p /\ e[c] = NewRow(s, p, def) /\ e[p] = n
        /\ \A x \in Workflow \ {c, p} : e[x] = d[x]
    BY <2>1 DEF CreateSubworkflow, Database, ActiveStatus
  <2> HIDE DEF n
  <2>4. Stands(d[p], k) /\ d[p].status = "running"
    BY <1>0, <2>1, ActiveStands DEF Matches
  <2>5. Front(n, k) /\ Sparse(n) /\ ChildrenInOrder(n)
    BY <2>1, <2>2, <2>4, SameFront DEF FrontStatus
  <2>6. Matches(n, n.tasks[k])
    BY <2>1, <2>2, <2>4 DEF Matches, SameTasks
  <2>7. InOrder(n)
    BY <2>5, <2>6, FrontMatches
  <2>8. QED
    BY <1>0, <1>2, <2>3, <2>7 DEF AllInOrder
<1>7. CASE Recorded(d, e)
  <2>1. PICK w \in Workflow, k \in Pos :
          /\ d[w].status \in ActiveStatus /\ IsCurrent(d[w], k)
          /\ d[w].tasks[k].type \in {"action", "collect"}
          /\ e = RecordResult(d, w, k)
    BY <1>7 DEF Recorded, IsActive
  <2>2. Stands(d[w], k) /\ d[w].tasks[k].type # "evaluate"
    BY <1>0, <2>1, ActiveStands
  <2>3. InOrder(Mark(d[w], k, "evaluating", "evaluating")) /\ InOrder(AcceptTask(d[w], k))
    BY <1>0, <2>2, AcceptedInOrder, EvaluatingInOrder
  <2>4. Mark(d[w], k, "evaluating", "evaluating") \in Row /\ AcceptTask(d[w], k) \in Row
    <3>1. /\ "evaluating" \in TaskStatus /\ "evaluating" \in WorkflowStatus \ {"none"}
          /\ d[w].status # "none"
      BY <2>1 DEF TaskStatus, FrontStatus, WorkflowStatus, ActiveStatus
    <3>2. QED
      BY <1>0, <3>1, MarkKeeps, AcceptTaskKeeps DEF Keeps
  <2>5. QED
    BY <2>1, <2>3, <2>4, UpdateInOrder DEF RecordResult
<1>8. CASE Evaluated(d, e)
  <2>1. PICK w \in Workflow, k \in Pos, outcome \in Outcome :
          /\ d[w].status \in ActiveStatus /\ IsCurrent(d[w], k)
          /\ outcome = "retry" => d[w].tasks[k].attempts < AttemptBound
          /\ e = EvaluateTask(d, w, k, outcome)
    BY <1>8 DEF Evaluated, IsActive
  <2>2. /\ d[w] \in Row /\ d[w].status # "none" /\ d[w].tasks[k].type \in TaskType
        /\ "failed" \in TaskStatus /\ "failed" \in WorkflowStatus \ {"none"}
    BY <2>1 DEF Database, Row, Task, TaskStatus, WorkflowStatus, ActiveStatus, TerminalStatus
  <2>3. Stands(d[w], k)
    BY <1>0, <2>1, ActiveStands
  <2>4. CASE outcome = "accept"
    <3>1. InOrder(AcceptTask(d[w], k)) /\ AcceptTask(d[w], k) \in Row
      BY <2>2, <2>3, AcceptedInOrder, AcceptTaskKeeps DEF Keeps
    <3>2. QED
      BY <2>1, <2>4, <3>1, UpdateInOrder DEF EvaluateTask
  <2>5. CASE outcome = "retry"
    <3> DEFINE n == RetryTask(d[w], k)
    <3>1. n \in Row /\ e = Update(d, w, n)
      BY <2>1, <2>2, <2>5, RetryTaskKeeps DEF Keeps, EvaluateTask
    <3>2. /\ SameTasks(d[w], n)
          /\ \A j \in Pos \ {k} : /\ n.tasks[j].status = d[w].tasks[j].status
                                  /\ n.tasks[j].child = d[w].tasks[j].child
          /\ \/ /\ n.status = "failed" /\ n.tasks[k].status = "failed"
                /\ n.tasks[k].child = d[w].tasks[k].child
             \/ /\ n.status = Activated(d[w].tasks[k].type)
                /\ n.tasks[k].status = Activated(d[w].tasks[k].type)
                /\ n.tasks[k].child = IF d[w].tasks[k].type = "workflow" THEN NoWorkflow
                                      ELSE d[w].tasks[k].child
      BY <2>1, <2>2, <2>5, RetryTaskTasks
    <3> HIDE DEF n
    <3>3. InOrder(n)
      BY <2>2, <2>3, <3>2, FailedInOrder, AgainInOrder
    <3>4. QED
      BY <3>1, <3>3, UpdateInOrder
  <2>6. CASE outcome = "fail"
    <3> DEFINE n == Mark(d[w], k, "failed", "failed")
    <3>1. n \in Row /\ e = Update(d, w, n)
      BY <2>1, <2>2, <2>6, MarkKeeps DEF Keeps, EvaluateTask
    <3>2. /\ SameTasks(d[w], n) /\ n.tasks[k].status = "failed" /\ n.status = "failed"
          /\ \A j \in Pos \ {k} : n.tasks[j].status = d[w].tasks[j].status
          /\ \A j \in Pos : n.tasks[j].child = d[w].tasks[j].child
      BY <2>2, MarkType, MarkTasks
    <3> HIDE DEF n
    <3>3. InOrder(n)
      BY <2>3, <3>2, FailedInOrder
    <3>4. QED
      BY <3>1, <3>3, UpdateInOrder
  <2>7. QED
    BY <2>4, <2>5, <2>6 DEF Outcome
<1>9. CASE Restored(d, e)
  <2>1. PICK w \in Workflow, k \in Pos :
          /\ IsCurrent(d[w], k) /\ d[w].tasks[k].type \in {"action", "collect"}
          /\ e = RestoreTask(d, w, k)
    BY <1>9 DEF Restored
  <2> DEFINE n == e[w]
  <2>2. /\ SameTasks(d[w], n)
        /\ \A j \in Pos : n.tasks[j].child = d[w].tasks[j].child
        /\ \A j \in Pos \ {k} : n.tasks[j].status = d[w].tasks[j].status
        /\ n.tasks[k].status = IF d[w].tasks[k].status = "evaluating"
                               THEN Activated(d[w].tasks[k].type) ELSE d[w].tasks[k].status
        /\ n.status = IF d[w].status = "evaluating"
                      THEN Activated(d[w].tasks[k].type) ELSE d[w].status
        /\ \A x \in Workflow \ {w} : e[x] = d[x]
    BY <2>1, RestoreTasks
  <2>3. d[w] \in Row /\ InOrder(d[w]) /\ d[w].tasks[k].type \in TaskType
    BY <1>0, <2>1 DEF TaskType
  <2> HIDE DEF n
  <2>4. ASSUME d[w].status \in ActiveStatus
        PROVE  InOrder(n)
    <3>1. Stands(d[w], k) /\ Matches(d[w], d[w].tasks[k])
      BY <2>1, <2>3, <2>4, ActiveStands
    <3>2. CASE d[w].status = "evaluating"
      <4>1. d[w].tasks[k].status = "evaluating"
        BY <3>1, <3>2 DEF Matches
      <4>2. InOrder(n)
        BY <2>1, <2>2, <2>3, <3>1, <3>2, <4>1, AgainInOrder
      <4>3. QED
        BY <4>2
    <3>3. CASE d[w].status # "evaluating"
      <4>1. d[w].tasks[k].status # "evaluating"
        BY <3>1, <3>3 DEF Matches
      <4>2. QED
        BY <2>2, <2>3, <3>3, <4>1, SameInOrder
    <3>4. QED
      BY <3>2, <3>3
  <2>5. ASSUME d[w].status = "cancelled"
        PROVE  InOrder(n)
    <3>1. Stands(d[w], k)
      BY <2>1, <2>3, <2>5, CancelledStands
    <3>2. n.tasks[k].status \in FrontStatus
      BY <2>2, <3>1 DEF Stands, Activated, FrontStatus
    <3>3. n.tasks[k].child = NoWorkflow \/ d[w].tasks[k].type = "workflow"
      BY <2>2, <3>1 DEF Stands, ChildrenInOrder
    <3>4. Front(n, k) /\ Sparse(n) /\ ChildrenInOrder(n)
      BY <2>2, <3>1, <3>2, <3>3, SameFront
    <3>5. QED
      BY <2>2, <2>5, <3>2, <3>4 DEF InOrder, RowInOrder
  <2>6. ASSUME d[w].status \notin ActiveStatus \cup {"cancelled"}
        PROVE  InOrder(n)
    <3>1. d[w].status \in {"none", "completed", "failed"}
      BY <2>3, <2>6 DEF Row, WorkflowStatus, ActiveStatus, TerminalStatus
    <3>2. d[w].tasks[k].status # "evaluating"
      BY <2>3, <3>1 DEF InOrder, RowInOrder, Front, Pos
    <3>3. QED
      BY <2>2, <2>3, <3>1, <3>2, SameInOrder
  <2>7. InOrder(n)
    BY <2>4, <2>5, <2>6
  <2>8. QED
    BY <1>0, <2>2, <2>7 DEF AllInOrder, n
<1>10. CASE Cancelled(d, e)
  <2>1. PICK w \in Workflow : d[w].status \in ActiveStatus /\ e = CancelWorkflow(d, w)
    BY <1>10 DEF Cancelled, IsActive
  <2>2. PICK row : row = [d[w] EXCEPT !.status = "cancelled"]
    OBVIOUS
  <2>3. row \in Row /\ row.status = "cancelled" /\ row.tasks = d[w].tasks
    BY <2>2 DEF Database, Row, WorkflowStatus, TerminalStatus
  <2>4. InOrder(row)
    BY <1>0, <2>1, <2>3, CancelledInOrder
  <2>5. QED
    BY <2>1, <2>2, <2>3, <2>4, UpdateInOrder DEF CancelWorkflow
<1>11. CASE Dropped(d, e)
  <2>1. PICK w \in Workflow :
          d[w].status = "pending_definition" /\ e = [d EXCEPT ![w].status = "cancelled"]
    BY <1>11 DEF Dropped
  <2>2. PICK row : row = [d[w] EXCEPT !.status = "cancelled"]
    OBVIOUS
  <2>3. row.status = "cancelled" /\ row.tasks = d[w].tasks
    BY <2>2 DEF Database, Row
  <2>4. InOrder(row)
    BY <1>0, <2>1, <2>3, CancelledInOrder DEF ActiveStatus
  <2>5. QED
    BY <2>1, <2>2, <2>4, PutInOrder
<1>12. CASE Adopted(d, e, s)
  <2>1. PICK r \in Workflow : e = AdoptTree(d, r, s)
    BY <1>12 DEF Adopted
  <2>2. \A x \in Workflow : e[x].status = d[x].status /\ e[x].tasks = d[x].tasks
    BY <2>1 DEF AdoptTree, Database, Row
  <2>3. ASSUME NEW x \in Workflow
        PROVE  InOrder(e[x])
    BY <1>0, <2>2, SameInOrder DEF SameTasks
  <2>4. QED
    BY <2>3 DEF AllInOrder
<1>13. QED
  BY <1>1, <1>3, <1>4, <1>5, <1>6, <1>7, <1>8, <1>9, <1>10, <1>11, <1>12 DEF Move

(* The checkpoint that ends a transaction is no matter of order.           *)
LEMMA TransactionMoves ==
  ASSUME BaseInv, NEW s \in Session, Transaction(s)
  PROVE  \E d1, d2 \in Database :
           /\ Move(db, d1, s) /\ Move(d1, d2, s)
           /\ d1 = db \/ d2 = d1 \/ RecordedToJudge(db, d1)
           /\ \A x \in Workflow :
                /\ SameTasks(d2[x], db'[x])
                /\ db'[x].status = d2[x].status /\ db'[x].parent = d2[x].parent
                /\ \A k \in Pos : /\ db'[x].tasks[k].status = d2[x].tasks[k].status
                                  /\ db'[x].tasks[k].child = d2[x].tasks[k].child
<1>1. PICK d1, d2, stack :
        /\ Move(db, d1, s) /\ Move(d1, d2, s) /\ db' = Checkpoint(d2, s, stack)
        /\ d1 = db \/ d2 = d1 \/ RecordedToJudge(db, d1)
  BY DEF Transaction
<1>2. db \in Database /\ latest[s] \in Nat
  BY DEF BaseInv, TypeInv, HostTypeOK
<1>3. d1 \in Database /\ d2 \in Database
  BY <1>1, <1>2, MoveType
<1>4. \A x \in Workflow :
        /\ SameTasks(d2[x], db'[x])
        /\ db'[x].status = d2[x].status /\ db'[x].parent = d2[x].parent
        /\ \A k \in Pos : /\ db'[x].tasks[k].status = d2[x].tasks[k].status
                          /\ db'[x].tasks[k].child = d2[x].tasks[k].child
  BY <1>1, <1>2, <1>3, CheckpointType, CheckpointTasks
<1>5. QED
  BY <1>1, <1>3, <1>4

LEMMA StepInOrder ==
  ASSUME BaseInv, AllInOrder(db), [Next]_vars
  PROVE  AllInOrder(db')
<1>1. CASE \E s \in Session : Transaction(s)
  <2>0. PICK s \in Session : Transaction(s)
    BY <1>1
  <2>1. PICK d1 \in Database, d2 \in Database :
          /\ Move(db, d1, s) /\ Move(d1, d2, s)
          /\ \A x \in Workflow :
                /\ SameTasks(d2[x], db'[x]) /\ db'[x].status = d2[x].status
                /\ \A k \in Pos : /\ db'[x].tasks[k].status = d2[x].tasks[k].status
                                  /\ db'[x].tasks[k].child = d2[x].tasks[k].child
    BY <2>0, TransactionMoves
  <2>2. AllInOrder(d2)
    BY <2>1, MoveInOrder DEF BaseInv, TypeInv
  <2>3. \A x \in Workflow : InOrder(db'[x])
    BY <2>1, <2>2, SameInOrder DEF AllInOrder
  <2>4. QED
    BY <2>3 DEF AllInOrder
<1>2. CASE UNCHANGED db
  BY <1>2
<1>3. QED
  BY <1>1, <1>2, StepIsTransaction

(* Every row is in order in every reachable state.                         *)
LEMMA OrderHolds == Spec => []AllInOrder(db)
<1>1. Init => AllInOrder(db)
  <2> SUFFICES ASSUME Init, NEW w \in Workflow
               PROVE  InOrder(db[w])
    BY DEF AllInOrder
  <2>1. /\ db[w].status = "none"
        /\ \A k \in Pos : db[w].tasks[k].status = "absent" /\ db[w].tasks[k].child = NoWorkflow
    BY DEF Init, NoRows, NoTasks, NewTask
  <2>2. QED
    BY <2>1 DEF InOrder, RowInOrder, Sparse, ChildrenInOrder
<1>2. BaseInv /\ AllInOrder(db) /\ [Next]_vars => AllInOrder(db)'
  BY StepInOrder
<1>3. QED
  BY <1>1, <1>2, BaseHolds, PTL DEF Spec

(* TasksInOrder holds for definitions of any length and any number of      *)
(* workflows, whichever command, evaluator or ending child moves them.  By *)
(* itself it is not inductive: a task that is tried again runs as a task   *)
(* without a child only because no other type of task ever had one.        *)
THEOREM TasksStayInOrder == Spec => []TasksInOrder
<1>1. AllInOrder(db) => TasksInOrder
  BY DEF AllInOrder, InOrder, TasksInOrder
<1>2. QED
  BY <1>1, OrderHolds, PTL

-----------------------------------------------------------------------------
(* Definition 3.  Parent and child agree, for a database d; a workflow that*)
(* waits for its definition is a root, so that its user may drop it without*)
(* telling a parent.                                                       *)
Active(d, w) == d[w].status \in ActiveStatus
ParentsWait(d) ==
  \A p \in Workflow, k \in Pos :
     (Active(d, p) /\ d[p].tasks[k].status = "waiting_subworkflow") =>
        /\ d[p].tasks[k].child \in Workflow
        /\ d[d[p].tasks[k].child].parent = p
        /\ Active(d, d[p].tasks[k].child)
ChildrenAwaited(d) ==
  \A c, p \in Workflow : (d[c].parent = p /\ Active(d, p) /\ Active(d, c)) =>
     \E k \in Pos : WaitsFor(d[p], k, c)
PendingIsRoot(d) ==
  \A w \in Workflow : d[w].status = "pending_definition" => d[w].parent = NoWorkflow
Mutual(d) == ParentsWait(d) /\ ChildrenAwaited(d) /\ PendingIsRoot(d)

(* The same while w has just ended and its parent does not know yet.       *)
MutualBut(d, w) ==
  /\ \A p \in Workflow, k \in Pos :
       (Active(d, p) /\ d[p].tasks[k].status = "waiting_subworkflow") =>
          /\ d[p].tasks[k].child \in Workflow
          /\ d[d[p].tasks[k].child].parent = p
          /\ Active(d, d[p].tasks[k].child) \/ d[p].tasks[k].child = w
  /\ ChildrenAwaited(d) /\ PendingIsRoot(d)

(* The set of workflows that end with w is the least one closed upwards.   *)
LEMMA EndedHasOrigin ==
  ASSUME NEW d, NEW w \in Workflow
  PROVE  w \in Ended(d, w)
  BY DEF Ended, UpwardClosed

LEMMA EndedGoesUp ==
  ASSUME NEW d, NEW w \in Workflow, d[w].status = "completed",
         NEW p \in Workflow, NEW c \in Ended(d, w), Lifts(d, p, c)
  PROVE  p \in Ended(d, w)
<1>1. ASSUME NEW S \in SUBSET Workflow, UpwardClosed(d, w, S)
      PROVE  p \in S
  <2>1. c \in S
    BY <1>1 DEF Ended
  <2>2. QED
    BY <1>1, <2>1 DEF UpwardClosed
<1>2. QED
  BY <1>1 DEF Ended

LEMMA EndedNoOther ==
  ASSUME NEW d, NEW w \in Workflow, NEW x \in Ended(d, w), x # w
  PROVE  /\ d[w].status = "completed"
         /\ \E c \in Ended(d, w) : Lifts(d, x, c)
<1> DEFINE E == Ended(d, w)
           S == {y \in E : y = w \/ \E c \in E : Lifts(d, y, c)}
<1>1. d[w].status = "completed"
  BY DEF Ended
<1>2. S \in SUBSET Workflow
  BY DEF Ended
<1>3. w \in S
  BY EndedHasOrigin
<1>4. \A p, c \in Workflow : (c \in S /\ Lifts(d, p, c)) => p \in S
  <2> SUFFICES ASSUME NEW p \in Workflow, NEW c \in Workflow, c \in S, Lifts(d, p, c)
               PROVE  p \in S
    OBVIOUS
  <2>1. c \in E
    OBVIOUS
  <2>2. p \in E
    BY <1>1, <2>1, EndedGoesUp
  <2>3. QED
    BY <2>1, <2>2
<1>5. x \in S
  <2>1. UpwardClosed(d, w, S)
    BY <1>3, <1>4 DEF UpwardClosed
  <2> HIDE DEF S
  <2>2. QED
    BY <1>1, <1>2, <2>1 DEF Ended
<1>6. QED
  BY <1>1, <1>5

-----------------------------------------------------------------------------
(* A workflow that learns of the end of a child stops waiting.             *)
LEMMA StopsWaiting ==
  ASSUME NEW row \in Row, NEW k \in Pos, Stands(row, k), NEW n,
         n = AcceptTask(row, k) \/ n = Mark(row, k, "evaluating", "evaluating"),
         NEW j \in Pos
  PROVE  n.tasks[j].status # "waiting_subworkflow"
<1>1. j # k => row.tasks[j].status # "waiting_subworkflow"
  BY TablesAssumption DEF Stands, Front, Pos
<1>2. CASE n = AcceptTask(row, k)
  BY <1>1, <1>2, AcceptTaskTasks DEF Activated
<1>3. CASE n = Mark(row, k, "evaluating", "evaluating")
  <2>1. "evaluating" \in TaskStatus /\ "evaluating" \in WorkflowStatus
    BY DEF TaskStatus, FrontStatus, WorkflowStatus, ActiveStatus
  <2>2. QED
    BY <1>1, <1>3, <2>1, MarkTasks
<1>4. QED
  BY <1>2, <1>3

(* What the end of w makes of row p, in a database whose rows are in order.*)
LEMMA ResolveInformed ==
  ASSUME NEW d \in Database, AllInOrder(d), NEW w \in Workflow, NEW p \in Workflow,
         NEW k \in Pos, Informed(d, Ended(d, w), p, k)
  PROVE  /\ Stands(d[p], k) /\ Matches(d[p], d[p].tasks[k])
         /\ ResolveParentAfterChild(d, w)[p] =
               IF Passes(d, w, d[p].tasks[k]) THEN AcceptTask(d[p], k)
               ELSE Mark(d[p], k, "evaluating", "evaluating")
<1>0. d[p] \in Row /\ InOrder(d[p])
  BY DEF AllInOrder, Database
<1>1. ASSUME NEW j \in Pos, Informed(d, Ended(d, w), p, j)
      PROVE  Stands(d[p], j) /\ Matches(d[p], d[p].tasks[j])
  <2>1. d[p].status \in ActiveStatus /\ d[p].tasks[j].status \in FrontStatus
    BY <1>1 DEF Informed, IsActive, FrontStatus
  <2>2. QED
    BY <1>0, <2>1, ActiveStands
<1>2. PICK j \in Pos :
        /\ Informed(d, Ended(d, w), p, j)
        /\ ResolveParentAfterChild(d, w)[p] =
              IF Passes(d, w, d[p].tasks[j]) THEN AcceptTask(d[p], j)
              ELSE Mark(d[p], j, "evaluating", "evaluating")
  BY ResolveCases
<1>3. j = k
  <2>1. Stands(d[p], j) /\ Stands(d[p], k)
    BY <1>1, <1>2
  <2>2. QED
    BY <2>1, TablesAssumption DEF Stands, Front, FrontStatus, Pos
<1>4. QED
  BY <1>1, <1>2, <1>3

(* Everything that ends with w has ended afterwards.                       *)
LEMMA EndedEnds ==
  ASSUME NEW d \in Database, AllInOrder(d), NEW w \in Workflow, d[w].status \in TerminalStatus,
         NEW x \in Ended(d, w)
  PROVE  /\ ~Active(ResolveParentAfterChild(d, w), x)
         /\ d[w].status = "completed" => ResolveParentAfterChild(d, w)[x].status = "completed"
<1> DEFINE e == ResolveParentAfterChild(d, w)
<1>0. x \in Workflow
  BY DEF Ended
<1>1. CASE x = w
  <2>1. e[w] = d[w]
    BY ResolveCases DEF Informed, IsActive, ActiveStatus, TerminalStatus
  <2>2. QED
    BY <1>1, <2>1 DEF Active, ActiveStatus, TerminalStatus
<1>2. CASE x # w
  <2>1. PICK c \in Ended(d, w) : Lifts(d, x, c)
    BY <1>2, EndedNoOther
  <2>2. d[w].status = "completed"
    BY <1>2, EndedNoOther
  <2>3. PICK k \in Pos : /\ WaitsFor(d[x], k, c) /\ ~d[x].tasks[k].criteria
                         /\ \A j \in Pos \ {k} : ~Open(d[x].tasks[j])
    BY <2>1 DEF Lifts
  <2>4. Informed(d, Ended(d, w), x, k)
    BY <2>1, <2>3 DEF Informed, Lifts, WaitsFor
  <2>5. e[x] = AcceptTask(d[x], k)
    BY <1>0, <2>2, <2>3, <2>4, ResolveInformed DEF Passes
  <2>6. \A j \in Pos : ~NextOpen(d[x], k, j)
    BY <2>3 DEF NextOpen
  <2>7. AcceptTask(d[x], k).status = "completed"
    BY <1>0, <2>6, AcceptTaskTasks DEF Database
  <2>8. QED
    BY <2>5, <2>7 DEF Active, ActiveStatus
<1>3. QED
  BY <1>1, <1>2

(* Nothing else ends.                                                      *)
LEMMA OthersGoOn ==
  ASSUME NEW d \in Database, AllInOrder(d), NEW w \in Workflow, NEW x \in Workflow,
         Active(d, x), x \notin Ended(d, w)
  PROVE  Active(ResolveParentAfterChild(d, w), x)
<1> DEFINE e == ResolveParentAfterChild(d, w)
<1>1. CASE e[x] = d[x]
  BY <1>1 DEF Active
<1>2. ASSUME NEW k \in Pos, Informed(d, Ended(d, w), x, k)
      PROVE  Active(e, x)
  <2>1. e[x] = IF Passes(d, w, d[x].tasks[k]) THEN AcceptTask(d[x], k)
               ELSE Mark(d[x], k, "evaluating", "evaluating")
    BY <1>2, ResolveInformed
  <2>2. d[x] \in Row
    BY DEF Database
  <2>3. CASE ~Passes(d, w, d[x].tasks[k])
    <3>1. "evaluating" \in TaskStatus /\ "evaluating" \in WorkflowStatus
      BY DEF TaskStatus, FrontStatus, WorkflowStatus, ActiveStatus
    <3>2. e[x].status = "evaluating"
      BY <2>1, <2>2, <2>3, <3>1, MarkType
    <3>3. QED
      BY <3>2 DEF Active, ActiveStatus
  <2>4. CASE Passes(d, w, d[x].tasks[k])
    <3>1. ~Lifts(d, x, d[x].tasks[k].child)
      BY <1>2, <2>4, EndedGoesUp DEF Informed, Passes
    <3>2. PICK j \in Pos \ {k} : Open(d[x].tasks[j])
      BY <1>2, <2>4, <3>1 DEF Lifts, Informed, WaitsFor, Passes
    <3>3. \E i \in Pos : NextOpen(d[x], k, i)
      <4>1. Stands(d[x], k)
        BY <1>2, ResolveInformed
      <4>2. k + 1 \in Pos /\ k < j
        BY <3>2, <4>1, TablesAssumption DEF Stands, Front, Open, Pos
      <4>3. d[x].tasks[k + 1].status = "pending"
        <5>1. d[x].tasks[k + 1].status \in {"pending", "absent"}
          BY <4>1, <4>2, TablesAssumption DEF Stands, Front, Pos
        <5>2. j = k + 1 \/ k + 1 < j
          BY <4>2, TablesAssumption DEF Pos
        <5>3. QED
          BY <3>2, <4>1, <4>2, <5>1, <5>2 DEF Stands, Sparse, Open
      <4>4. \A i \in Pos \ {k} : i < k + 1 => ~Open(d[x].tasks[i])
        BY <4>1, TablesAssumption DEF Stands, Front, Open, Pos
      <4>5. NextOpen(d[x], k, k + 1)
        BY <4>2, <4>3, <4>4, TablesAssumption DEF NextOpen, Open, Pos
      <4>6. QED
        BY <4>2, <4>5
    <3>4. e[x].status \in {"awaiting_user", "running"}
      BY <2>1, <2>2, <2>4, <3>3, AcceptTaskTasks
    <3>5. QED
      BY <3>4 DEF Active, ActiveStatus
  <2>5. QED
    BY <2>3, <2>4
<1>3. QED
  BY <1>1, <1>2, ResolveCases

(* A row that still waits was not told of an end, and waits as before.     *)
LEMMA WaitsAsBefore ==
  ASSUME NEW d \in Database, AllInOrder(d), NEW w \in Workflow, NEW p \in Workflow,
         NEW k \in Pos,
         ResolveParentAfterChild(d, w)[p].tasks[k].status = "waiting_subworkflow"
  PROVE  ResolveParentAfterChild(d, w)[p] = d[p]
<1>1. ASSUME NEW j \in Pos, Informed(d, Ended(d, w), p, j)
      PROVE  FALSE
  <2>1. /\ Stands(d[p], j) /\ d[p] \in Row
        /\ \/ ResolveParentAfterChild(d, w)[p] = AcceptTask(d[p], j)
           \/ ResolveParentAfterChild(d, w)[p] = Mark(d[p], j, "evaluating", "evaluating")
    BY <1>1, ResolveInformed DEF Database
  <2>2. QED
    BY <2>1, StopsWaiting
<1>2. QED
  BY <1>1, ResolveCases

(* The end of w told to everybody it concerns.                             *)
LEMMA ResolveMutual ==
  ASSUME NEW d \in Database, AllInOrder(d), NEW w \in Workflow, d[w].status \in TerminalStatus,
         MutualBut(d, w)
  PROVE  Mutual(ResolveParentAfterChild(d, w))
<1> DEFINE e == ResolveParentAfterChild(d, w)
           E == Ended(d, w)
<1>1. \A x \in Workflow : e[x].parent = d[x].parent
  BY ResolveKeeps DEF KeepsOwners
<1>2. \A x \in Workflow : Active(e, x) => Active(d, x)
  BY ResolveCases DEF Active, Informed, IsActive
<1>3. \A x \in E : ~Active(e, x)
  BY EndedEnds
<1>4. \A x \in Workflow : (Active(d, x) /\ x \notin E) => Active(e, x)
  BY OthersGoOn
<1>5. \A p \in Workflow, k \in Pos :
        e[p].tasks[k].status = "waiting_subworkflow" => e[p] = d[p]
  BY WaitsAsBefore
<1>6. \A p \in Workflow, k \in Pos :
        (Active(d, p) /\ e[p] = d[p] /\ d[p].tasks[k].status = "waiting_subworkflow")
           => d[p].tasks[k].child \notin E
  <2> SUFFICES ASSUME NEW p \in Workflow, NEW k \in Pos, Active(d, p), e[p] = d[p],
                      d[p].tasks[k].status = "waiting_subworkflow", d[p].tasks[k].child \in E
               PROVE  FALSE
    OBVIOUS
  <2>1. Informed(d, E, p, k)
    BY DEF Informed, IsActive, Active
  <2>2. /\ Stands(d[p], k) /\ d[p] \in Row
        /\ e[p] = AcceptTask(d[p], k) \/ e[p] = Mark(d[p], k, "evaluating", "evaluating")
    BY <2>1, ResolveInformed DEF Database
  <2>3. QED
    BY <2>2, StopsWaiting
<1>7. w \in E
  BY EndedHasOrigin
<1> HIDE DEF e, E
<1>8. ParentsWait(e)
  <2> SUFFICES ASSUME NEW p \in Workflow, NEW k \in Pos, Active(e, p),
                      e[p].tasks[k].status = "waiting_subworkflow"
               PROVE  /\ e[p].tasks[k].child \in Workflow
                      /\ e[e[p].tasks[k].child].parent = p
                      /\ Active(e, e[p].tasks[k].child)
    BY DEF ParentsWait
  <2>1. Active(d, p) /\ e[p] = d[p]
    BY <1>2, <1>5
  <2>2. d[p].tasks[k].child \notin E
    BY <1>6, <2>1
  <2>3. /\ d[p].tasks[k].child \in Workflow /\ d[d[p].tasks[k].child].parent = p
        /\ Active(d, d[p].tasks[k].child)
    BY <1>7, <2>1, <2>2 DEF MutualBut
  <2>4. QED
    BY <1>1, <1>4, <2>1, <2>2, <2>3
<1>9. ChildrenAwaited(e)
  <2> SUFFICES ASSUME NEW c \in Workflow, NEW p \in Workflow,
                      e[c].parent = p, Active(e, p), Active(e, c)
               PROVE  \E k \in Pos : WaitsFor(e[p], k, c)
    BY DEF ChildrenAwaited
  <2>1. Active(d, p) /\ Active(d, c) /\ d[c].parent = p /\ c \notin E
    BY <1>1, <1>2, <1>3
  <2>2. PICK k \in Pos : WaitsFor(d[p], k, c)
    BY <2>1 DEF MutualBut, ChildrenAwaited
  <2>3. e[p] = d[p]
    <3>1. ASSUME NEW j \in Pos, Informed(d, E, p, j)
          PROVE  FALSE
      <4>1. Stands(d[p], j)
        BY <3>1, ResolveInformed DEF E
      <4>2. j = k
        BY <2>2, <4>1, TablesAssumption DEF Stands, Front, WaitsFor, Pos
      <4>3. QED
        BY <2>1, <2>2, <3>1, <4>2 DEF Informed, WaitsFor
    <3>2. QED
      BY <3>1, ResolveCases DEF e, E
  <2>4. QED
    BY <2>2, <2>3
<1>10. PendingIsRoot(e)
  <2> SUFFICES ASSUME NEW x \in Workflow, e[x].status = "pending_definition"
               PROVE  e[x].parent = NoWorkflow
    BY DEF PendingIsRoot
  <2>1. e[x] = d[x]
    <3>1. ASSUME NEW j \in Pos, Informed(d, E, x, j)
          PROVE  FALSE
      <4>1. /\ Stands(d[x], j) /\ d[x] \in Row
            /\ e[x] = AcceptTask(d[x], j) \/ e[x] = Mark(d[x], j, "evaluating", "evaluating")
        BY <3>1, ResolveInformed DEF Database, e, E
      <4>2. "evaluating" \in TaskStatus /\ "evaluating" \in WorkflowStatus
        BY DEF TaskStatus, FrontStatus, WorkflowStatus, ActiveStatus
      <4>3. QED
        BY <4>1, <4>2, MarkType, AcceptTaskTasks
    <3>2. QED
      BY <3>1, ResolveCases DEF e, E
  <2>2. QED
    BY <2>1 DEF MutualBut, PendingIsRoot
<1>11. QED
  BY <1>8, <1>9, <1>10 DEF Mutual, e

(* A workflow gets a new row: it ends, or it waits neither before nor after*)
LEMMA UpdateMutual ==
  ASSUME NEW d \in Database, AllInOrder(d), Mutual(d), NEW w \in Workflow, Active(d, w),
         NEW row \in Row, InOrder(row), row.parent = d[w].parent,
         \/ row.status \in TerminalStatus
         \/ /\ row.status \in ActiveStatus /\ row.status # "pending_definition"
            /\ \A k \in Pos : /\ d[w].tasks[k].status # "waiting_subworkflow"
                              /\ row.tasks[k].status # "waiting_subworkflow"
  PROVE  Mutual(Update(d, w, row))
<1> DEFINE new == [d EXCEPT ![w] = row]
<1>1. /\ new \in Database /\ new[w] = row /\ \A x \in Workflow \ {w} : new[x] = d[x]
      /\ AllInOrder(new)
  BY PutInOrder DEF Database
<1> HIDE DEF new
<1>2. \A x \in Workflow : new[x].parent = d[x].parent
  BY <1>1
<1>3. PendingIsRoot(new)
  BY <1>1 DEF PendingIsRoot, Mutual, TerminalStatus
<1>4. CASE row.status \in TerminalStatus
  <2>1. ~Active(new, w) /\ \A x \in Workflow \ {w} : Active(new, x) <=> Active(d, x)
    BY <1>1, <1>4 DEF Active, ActiveStatus, TerminalStatus
  <2>2. ChildrenAwaited(new)
    BY <1>1, <1>2, <2>1 DEF ChildrenAwaited, Mutual
  <2>3. ASSUME NEW p \in Workflow, NEW k \in Pos, Active(new, p),
               new[p].tasks[k].status = "waiting_subworkflow"
        PROVE  /\ new[p].tasks[k].child \in Workflow
               /\ new[new[p].tasks[k].child].parent = p
               /\ Active(new, new[p].tasks[k].child) \/ new[p].tasks[k].child = w
    <3>1. p # w /\ new[p] = d[p] /\ Active(d, p)
      BY <1>1, <2>1, <2>3
    <3>2. /\ d[p].tasks[k].child \in Workflow /\ d[d[p].tasks[k].child].parent = p
          /\ Active(d, d[p].tasks[k].child)
      BY <2>3, <3>1 DEF Mutual, ParentsWait
    <3>3. QED
      BY <1>2, <2>1, <3>1, <3>2
  <2>4. MutualBut(new, w)
    BY <1>3, <2>2, <2>3 DEF MutualBut
  <2>5. Mutual(ResolveParentAfterChild(new, w))
    BY <1>1, <1>4, <2>4, ResolveMutual
  <2>6. QED
    BY <1>4, <2>5 DEF Update, new
<1>5. CASE row.status \notin TerminalStatus
  <2>1. /\ row.status \in ActiveStatus
        /\ \A k \in Pos : /\ d[w].tasks[k].status # "waiting_subworkflow"
                          /\ row.tasks[k].status # "waiting_subworkflow"
    BY <1>5
  <2>2. \A x \in Workflow : Active(new, x) <=> Active(d, x)
    BY <1>1, <2>1 DEF Active
  <2>3. ParentsWait(new)
    <3> SUFFICES ASSUME NEW p \in Workflow, NEW k \in Pos, Active(new, p),
                        new[p].tasks[k].status = "waiting_subworkflow"
                 PROVE  /\ new[p].tasks[k].child \in Workflow
                        /\ new[new[p].tasks[k].child].parent = p
                        /\ Active(new, new[p].tasks[k].child)
      BY DEF ParentsWait
    <3>1. p # w /\ new[p] = d[p] /\ Active(d, p)
      BY <1>1, <2>1, <2>2
    <3>2. /\ d[p].tasks[k].child \in Workflow /\ d[d[p].tasks[k].child].parent = p
          /\ Active(d, d[p].tasks[k].child)
      BY <3>1 DEF Mutual, ParentsWait
    <3>3. QED
      BY <1>2, <2>2, <3>1, <3>2
  <2>4. ChildrenAwaited(new)
    <3> SUFFICES ASSUME NEW c \in Workflow, NEW p \in Workflow,
                        new[c].parent = p, Active(new, p), Active(new, c)
                 PROVE  \E k \in Pos : WaitsFor(new[p], k, c)
      BY DEF ChildrenAwaited
    <3>1. \E k \in Pos : WaitsFor(d[p], k, c)
      BY <1>2, <2>2 DEF Mutual, ChildrenAwaited
    <3>2. p # w
      BY <2>1, <3>1 DEF WaitsFor
    <3>3. QED
      BY <1>1, <3>1, <3>2
  <2>5. Mutual(new)
    BY <1>3, <2>3, <2>4 DEF Mutual
  <2>6. QED
    BY <1>5, <2>5 DEF Update, new
<1>6. QED
  BY <1>4, <1>5

(* A step that changes neither who is active, nor parents, nor waits.      *)
LEMMA SameMutual ==
  ASSUME NEW d, NEW e, Mutual(d),
         \A x \in Workflow :
           /\ e[x].status \in ActiveStatus <=> d[x].status \in ActiveStatus
           /\ e[x].status = "pending_definition" => d[x].status = "pending_definition"
           /\ e[x].parent = d[x].parent
           /\ Active(d, x) => \A k \in Pos :
                /\ e[x].tasks[k].status = "waiting_subworkflow"
                      <=> d[x].tasks[k].status = "waiting_subworkflow"
                /\ d[x].tasks[k].status = "waiting_subworkflow"
                      => e[x].tasks[k].child = d[x].tasks[k].child
  PROVE  Mutual(e)
<1>1. \A x \in Workflow : Active(e, x) <=> Active(d, x)
  BY DEF Active
<1>2. ParentsWait(e)
  <2> SUFFICES ASSUME NEW p \in Workflow, NEW k \in Pos, Active(e, p),
                      e[p].tasks[k].status = "waiting_subworkflow"
               PROVE  /\ e[p].tasks[k].child \in Workflow
                      /\ e[e[p].tasks[k].child].parent = p
                      /\ Active(e, e[p].tasks[k].child)
    BY DEF ParentsWait
  <2>1. d[p].tasks[k].status = "waiting_subworkflow" /\ e[p].tasks[k].child = d[p].tasks[k].child
    BY <1>1
  <2>2. /\ d[p].tasks[k].child \in Workflow /\ d[d[p].tasks[k].child].parent = p
        /\ Active(d, d[p].tasks[k].child)
    BY <1>1, <2>1 DEF Mutual, ParentsWait
  <2>3. QED
    BY <1>1, <2>1, <2>2
<1>3. ChildrenAwaited(e)
  <2> SUFFICES ASSUME NEW c \in Workflow, NEW p \in Workflow,
                      e[c].parent = p, Active(e, p), Active(e, c)
               PROVE  \E k \in Pos : WaitsFor(e[p], k, c)
    BY DEF ChildrenAwaited
  <2>1. PICK k \in Pos : WaitsFor(d[p], k, c)
    BY <1>1 DEF Mutual, ChildrenAwaited
  <2>2. QED
    BY <1>1, <2>1 DEF WaitsFor
<1>4. PendingIsRoot(e)
  BY DEF Mutual, PendingIsRoot
<1>5. QED
  BY <1>2, <1>3, <1>4 DEF Mutual

(* A new root: nobody waits for it and it waits for nobody.                *)
LEMMA NewRootMutual ==
  ASSUME NEW d \in Database, OneOwner(d), Mutual(d), NEW w \in Workflow, d[w].status = "none",
         NEW row, row.parent = NoWorkflow, row.status \in ActiveStatus \cup {"completed"},
         \A k \in Pos : row.tasks[k].status # "waiting_subworkflow"
  PROVE  Mutual([d EXCEPT ![w] = row])
<1> DEFINE e == [d EXCEPT ![w] = row]
<1>1. e[w] = row /\ \A x \in Workflow \ {w} : e[x] = d[x]
  BY DEF Database
<1> HIDE DEF e
<1>2. \A x \in Workflow : d[x].parent # w
  BY TablesAssumption DEF OneOwner
<1>3. ~Active(d, w)
  BY DEF Active, ActiveStatus
<1>4. ParentsWait(e)
  <2> SUFFICES ASSUME NEW p \in Workflow, NEW k \in Pos, Active(e, p),
                      e[p].tasks[k].status = "waiting_subworkflow"
               PROVE  /\ e[p].tasks[k].child \in Workflow
                      /\ e[e[p].tasks[k].child].parent = p
                      /\ Active(e, e[p].tasks[k].child)
    BY DEF ParentsWait
  <2>1. p # w /\ e[p] = d[p] /\ Active(d, p)
    BY <1>1 DEF Active
  <2>2. /\ d[p].tasks[k].child \in Workflow /\ d[d[p].tasks[k].child].parent = p
        /\ Active(d, d[p].tasks[k].child)
    BY <2>1 DEF Mutual, ParentsWait
  <2>3. d[p].tasks[k].child # w
    BY <1>3, <2>2
  <2>4. QED
    BY <1>1, <2>1, <2>2, <2>3 DEF Active
<1>5. ChildrenAwaited(e)
  <2> SUFFICES ASSUME NEW c \in Workflow, NEW p \in Workflow,
                      e[c].parent = p, Active(e, p), Active(e, c)
               PROVE  \E k \in Pos : WaitsFor(e[p], k, c)
    BY DEF ChildrenAwaited
  <2>1. c # w /\ e[c] = d[c]
    BY <1>1, TablesAssumption
  <2>2. p # w /\ e[p] = d[p]
    BY <1>1, <1>2, <2>1
  <2>3. QED
    BY <2>1, <2>2 DEF Active, Mutual, ChildrenAwaited
<1>6. PendingIsRoot(e)
  BY <1>1 DEF Mutual, PendingIsRoot
<1>7. Mutual(e)
  BY <1>4, <1>5, <1>6 DEF Mutual
<1>8. QED
  BY <1>7 DEF e

(* The row of a new workflow.                                              *)
LEMMA NewRowWaitsForNobody ==
  ASSUME NEW s \in Session, NEW parent \in Workflow \cup {NoWorkflow}, NEW def \in Definition,
         NEW k \in Pos
  PROVE  NewRow(s, parent, def).tasks[k].status # "waiting_subworkflow"
<1> DEFINE row == [status |-> "running", parent |-> parent, session |-> s,
                   tasks |-> InsertTasks(def)]
<1>1. row \in Row /\ row.tasks = InsertTasks(def)
  BY InsertTasksType DEF Row, WorkflowStatus, ActiveStatus
<1>2. row.tasks[k].status \in {"pending", "absent"}
  BY <1>1 DEF InsertTasks, NewTask
<1>3. NewRow(s, parent, def) = ActivateNext(row)
  BY DEF NewRow
<1> HIDE DEF row
<1>4. QED
  BY <1>1, <1>2, <1>3, ActivateNextTasks DEF Activated

(* The current task of an active row is the only one that may wait.        *)
LEMMA OnlyCurrentWaits ==
  ASSUME NEW row \in Row, InOrder(row), row.status \in ActiveStatus, NEW k \in Pos,
         IsCurrent(row, k), row.tasks[k].status # "waiting_subworkflow", NEW j \in Pos
  PROVE  row.tasks[j].status # "waiting_subworkflow"
<1>1. Stands(row, k)
  BY ActiveStands
<1>2. QED
  BY <1>1, TablesAssumption DEF Stands, Front, Pos

LEMMA MoveMutual ==
  ASSUME NEW d \in Database, AllInOrder(d), OneOwner(d), Mutual(d), NEW s \in Session, NEW e,
         Move(d, e, s)
  PROVE  Mutual(e)
<1>0. \A x \in Workflow : d[x] \in Row /\ InOrder(d[x])
  BY DEF AllInOrder, Database
<1>1. CASE e = d
  BY <1>1
<1>2. CASE NewRoot(d, e, s)
  <2>1. PICK w \in Workflow, def \in Definition :
          d[w].status = "none" /\ e = [d EXCEPT ![w] = NewRow(s, NoWorkflow, def)]
    BY <1>2 DEF NewRoot, CreateRootWorkflow
  <2>2. /\ NewRow(s, NoWorkflow, def).parent = NoWorkflow
        /\ NewRow(s, NoWorkflow, def).status \in ActiveStatus \cup {"completed"}
        /\ \A k \in Pos : NewRow(s, NoWorkflow, def).tasks[k].status # "waiting_subworkflow"
    BY NewRowType, NewRowDefined, NewRowWaitsForNobody DEF ActiveStatus
  <2>3. QED
    BY <2>1, <2>2, NewRootMutual
<1>3. CASE NewPending(d, e, s)
  <2>1. PICK row : row = [status |-> "pending_definition", parent |-> NoWorkflow,
                          session |-> s, tasks |-> NoTasks]
    OBVIOUS
  <2>2. PICK w \in Workflow : d[w].status = "none" /\ e = [d EXCEPT ![w] = row]
    BY <1>3, <2>1 DEF NewPending
  <2>3. /\ row.parent = NoWorkflow /\ row.status \in ActiveStatus \cup {"completed"}
        /\ \A k \in Pos : row.tasks[k].status # "waiting_subworkflow"
    BY <2>1 DEF ActiveStatus, NoTasks, NewTask
  <2>4. QED
    BY <2>2, <2>3, NewRootMutual
<1>4. CASE Hydrated(d, e, s)
  <2>1. PICK w \in Workflow, def \in Definition :
          d[w].status = "pending_definition" /\ e = HydrateWorkflow(d, w, def)
    BY <1>4 DEF Hydrated
  <2>2. PICK row : row = [d[w] EXCEPT !.status = "running", !.tasks = InsertTasks(def)]
    OBVIOUS
  <2>3. row \in Row /\ row.tasks = InsertTasks(def) /\ row.parent = d[w].parent
    BY <2>2, InsertTasksType DEF Database, Row, WorkflowStatus, ActiveStatus
  <2> DEFINE n == ActivateNext(row)
  <2>4. e = [d EXCEPT ![w] = n] /\ n.parent = row.parent
    BY <2>1, <2>2, <2>3, ActivateNextKeeps DEF HydrateWorkflow, Keeps
  <2>5. e[w] = n /\ \A x \in Workflow \ {w} : e[x] = d[x]
    BY <2>4 DEF Database
  <2>6. 1 \in Pos /\ IsCurrent(row, 1)
    <3>1. PICK m \in Pos : DOMAIN def = 1..m
      BY TablesAssumption
    <3>2. QED
      BY <2>3, <3>1, TablesAssumption DEF InsertTasks, NewTask, IsCurrent, Open, Pos
  <2>7. n.status \in {"awaiting_user", "running"}
    BY <2>3, <2>6, ActivateNextTasks
  <2>8. \A k \in Pos : n.tasks[k].status # "waiting_subworkflow"
    <3>1. \A k \in Pos : row.tasks[k].status \in {"pending", "absent"}
      BY <2>3 DEF InsertTasks, NewTask
    <3>2. QED
      BY <2>3, <3>1, ActivateNextTasks DEF Activated
  <2> HIDE DEF n
  <2>9. \A k \in Pos : d[w].tasks[k].status # "waiting_subworkflow"
    BY <1>0, <2>1 DEF InOrder, RowInOrder
  <2>10. \A x \in Workflow :
           /\ e[x].status \in ActiveStatus <=> d[x].status \in ActiveStatus
           /\ e[x].status = "pending_definition" => d[x].status = "pending_definition"
           /\ e[x].parent = d[x].parent
    BY <2>1, <2>3, <2>4, <2>5, <2>7 DEF ActiveStatus
  <2>11. QED
    BY <2>5, <2>8, <2>9, <2>10, SameMutual
<1>5. CASE NewChild(d, e, s)
  <2>1. PICK p \in Workflow, c \in Workflow, k \in Pos, def \in Definition :
          /\ Active(d, p) /\ IsCurrent(d[p], k)
          /\ d[p].tasks[k].status = "running"
          /\ d[c].status = "none"
          /\ e = CreateSubworkflow(d, p, k, c, s, def)
    BY <1>5 DEF NewChild, Live, IsActive, Active
  <2> DEFINE n == LinkChild(d[p], k, c)
             r == NewRow(s, p, def)
  <2>2. /\ n.status = d[p].status /\ n.parent = d[p].parent
        /\ n.tasks[k].status = "waiting_subworkflow" /\ n.tasks[k].child = c
        /\ \A j \in Pos \ {k} : n.tasks[j] = d[p].tasks[j]
    BY <1>0, <2>1, LinkChildType, LinkChildTasks
  <2>3. /\ r.parent = p /\ r.status \in {"awaiting_user", "running", "completed"}
        /\ \A j \in Pos : r.tasks[j].status # "waiting_subworkflow"
    BY NewRowType, NewRowDefined, NewRowWaitsForNobody
  <2>4. r.status \in {"awaiting_user", "running"}
    <3>1. PICK row : row = [status |-> "running", parent |-> p, session |-> s,
                            tasks |-> InsertTasks(def)]
      OBVIOUS
    <3>2. row \in Row /\ row.tasks = InsertTasks(def) /\ r = ActivateNext(row)
      BY <3>1, InsertTasksType DEF Row, WorkflowStatus, ActiveStatus, NewRow
    <3>3. PICK m \in Pos : DOMAIN def = 1..m
      BY TablesAssumption
    <3>4. 1 \in Pos /\ IsCurrent(row, 1)
      BY <3>2, <3>3, TablesAssumption DEF InsertTasks, NewTask, IsCurrent, Open, Pos
    <3>5. QED
      BY <3>2, <3>4, ActivateNextTasks
  <2>5. /\ c # p /\ e[c] = r /\ e[p] = n
        /\ \A x \in Workflow \ {c, p} : e[x] = d[x]
    BY <2>1 DEF CreateSubworkflow, Database, Active, ActiveStatus
  <2> HIDE DEF n, r
  <2>6. \A j \in Pos : d[p].tasks[j].status # "waiting_subworkflow"
    BY <1>0, <2>1, OnlyCurrentWaits DEF Active
  <2>7. Active(e, c) /\ ~Active(d, c) /\ e[c].parent = p
    BY <2>1, <2>3, <2>4, <2>5 DEF Active, ActiveStatus
  <2>8. \A x \in Workflow \ {c} : (Active(e, x) <=> Active(d, x)) /\ e[x].parent = d[x].parent
    BY <2>2, <2>5 DEF Active
  <2>9. \A x \in Workflow : d[x].parent # c
    BY <2>1, TablesAssumption DEF OneOwner
  <2>10. ParentsWait(e)
    <3> SUFFICES ASSUME NEW q \in Workflow, NEW j \in Pos, Active(e, q),
                        e[q].tasks[j].status = "waiting_subworkflow"
                 PROVE  /\ e[q].tasks[j].child \in Workflow
                        /\ e[e[q].tasks[j].child].parent = q
                        /\ Active(e, e[q].tasks[j].child)
      BY DEF ParentsWait
    <3>1. CASE q = p
      <4>1. j = k
        BY <2>2, <2>5, <2>6, <3>1
      <4>2. e[q].tasks[j].child = c
        BY <2>2, <2>5, <3>1, <4>1
      <4>3. QED
        BY <2>7, <3>1, <4>2
    <3>2. CASE q # p
      <4>1. q # c /\ e[q] = d[q] /\ Active(d, q)
        BY <2>3, <2>5, <2>8, <3>2
      <4>2. /\ d[q].tasks[j].child \in Workflow /\ d[d[q].tasks[j].child].parent = q
            /\ Active(d, d[q].tasks[j].child)
        BY <4>1 DEF Mutual, ParentsWait
      <4>3. QED
        BY <2>7, <2>8, <4>1, <4>2
    <3>3. QED
      BY <3>1, <3>2
  <2>11. ChildrenAwaited(e)
    <3> SUFFICES ASSUME NEW x \in Workflow, NEW q \in Workflow,
                        e[x].parent = q, Active(e, q), Active(e, x)
                 PROVE  \E j \in Pos : WaitsFor(e[q], j, x)
      BY DEF ChildrenAwaited
    <3>1. CASE x = c
      <4>1. q = p
        BY <2>7, <3>1
      <4>2. WaitsFor(e[p], k, c)
        BY <2>2, <2>5 DEF WaitsFor
      <4>3. QED
        BY <3>1, <4>1, <4>2
    <3>2. CASE x # c
      <4>1. d[x].parent = q /\ q # c /\ Active(d, x) /\ Active(d, q)
        BY <2>8, <2>9, <3>2
      <4>2. PICK j \in Pos : WaitsFor(d[q], j, x)
        BY <4>1 DEF Mutual, ChildrenAwaited
      <4>3. q # p
        BY <2>6, <4>2 DEF WaitsFor
      <4>4. QED
        BY <2>5, <4>1, <4>2, <4>3
    <3>3. QED
      BY <3>1, <3>2
  <2>12. PendingIsRoot(e)
    <3>1. e[p].status = d[p].status /\ e[p].parent = d[p].parent
      BY <2>2, <2>5
    <3>2. e[c].status # "pending_definition"
      BY <2>4, <2>5
    <3>3. QED
      BY <2>5, <3>1, <3>2 DEF Mutual, PendingIsRoot
  <2>13. QED
    BY <2>10, <2>11, <2>12 DEF Mutual
<1>6. ASSUME NEW w \in Workflow, NEW k \in Pos, Active(d, w), IsCurrent(d[w], k),
             d[w].tasks[k].type \in {"action", "collect", "evaluate"} \/
                d[w].tasks[k].status = "evaluating"
      PROVE  Stands(d[w], k) /\ \A j \in Pos : d[w].tasks[j].status # "waiting_subworkflow"
  <2>1. Stands(d[w], k) /\ Matches(d[w], d[w].tasks[k])
    BY <1>0, <1>6, ActiveStands DEF Active
  <2>2. d[w].tasks[k].status # "waiting_subworkflow"
    BY <1>6, <2>1 DEF Matches
  <2>3. QED
    BY <1>0, <1>6, <2>1, <2>2, OnlyCurrentWaits DEF Active
<1>7. ASSUME NEW w \in Workflow, NEW k \in Pos, Active(d, w), Stands(d[w], k),
             \A j \in Pos : d[w].tasks[j].status # "waiting_subworkflow", NEW row,
             row = AcceptTask(d[w], k) \/ row = Mark(d[w], k, "evaluating", "evaluating"),
             InOrder(row)
      PROVE  Mutual(Update(d, w, row))
  <2>1. /\ d[w] \in Row /\ d[w].status # "none"
        /\ "evaluating" \in TaskStatus /\ "evaluating" \in WorkflowStatus \ {"none"}
    BY <1>0, <1>7 DEF TaskStatus, FrontStatus, WorkflowStatus, Active, ActiveStatus
  <2>2. /\ row \in Row /\ row.parent = d[w].parent
        /\ row.status \in {"awaiting_user", "running", "completed", "evaluating"}
    <3>1. CASE row = AcceptTask(d[w], k)
      BY <2>1, <3>1, AcceptTaskKeeps DEF Keeps
    <3>2. CASE row = Mark(d[w], k, "evaluating", "evaluating")
      BY <2>1, <3>2, MarkType
    <3>3. QED
      BY <1>7, <3>1, <3>2
  <2>3. \A j \in Pos : row.tasks[j].status # "waiting_subworkflow"
    BY <1>7, <2>1, StopsWaiting
  <2>4. QED
    BY <1>7, <2>2, <2>3, UpdateMutual DEF ActiveStatus, TerminalStatus
<1>8. CASE Recorded(d, e)
  <2>1. PICK w \in Workflow, k \in Pos :
          /\ Active(d, w) /\ IsCurrent(d[w], k)
          /\ d[w].tasks[k].type \in {"action", "collect"}
          /\ e = RecordResult(d, w, k)
    BY <1>8 DEF Recorded, IsActive, Active
  <2>2. Stands(d[w], k) /\ \A j \in Pos : d[w].tasks[j].status # "waiting_subworkflow"
    BY <1>6, <2>1
  <2>3. InOrder(Mark(d[w], k, "evaluating", "evaluating")) /\ InOrder(AcceptTask(d[w], k))
    BY <1>0, <2>1, <2>2, AcceptedInOrder, EvaluatingInOrder
  <2>4. QED
    BY <1>7, <2>1, <2>2, <2>3 DEF RecordResult
<1>9. CASE Evaluated(d, e)
  <2>1. PICK w \in Workflow, k \in Pos, outcome \in Outcome :
          /\ Active(d, w) /\ IsCurrent(d[w], k)
          /\ d[w].tasks[k].type = "evaluate" \/ d[w].tasks[k].status = "evaluating"
          /\ outcome = "retry" => d[w].tasks[k].attempts < AttemptBound
          /\ e = EvaluateTask(d, w, k, outcome)
    BY <1>9 DEF Evaluated, IsActive, Active
  <2>2. Stands(d[w], k) /\ \A j \in Pos : d[w].tasks[j].status # "waiting_subworkflow"
    BY <1>6, <2>1
  <2>3. /\ d[w] \in Row /\ d[w].status # "none" /\ d[w].tasks[k].type \in TaskType
        /\ "failed" \in TaskStatus /\ "failed" \in WorkflowStatus \ {"none"}
    BY <1>0, <2>1 DEF Row, Task, TaskStatus, WorkflowStatus, Active, ActiveStatus, TerminalStatus
  <2>4. CASE outcome = "accept"
    <3>1. InOrder(AcceptTask(d[w], k))
      BY <2>2, <2>3, AcceptedInOrder
    <3>2. QED
      BY <1>7, <2>1, <2>2, <2>4, <3>1 DEF EvaluateTask
  <2>5. CASE outcome = "retry"
    <3> DEFINE n == RetryTask(d[w], k)
    <3>1. n \in Row /\ n.parent = d[w].parent /\ e = Update(d, w, n)
      BY <2>1, <2>3, <2>5, RetryTaskKeeps DEF Keeps, EvaluateTask
    <3>2. /\ SameTasks(d[w], n)
          /\ \A j \in Pos \ {k} : /\ n.tasks[j].status = d[w].tasks[j].status
                                  /\ n.tasks[j].child = d[w].tasks[j].child
          /\ \/ /\ n.status = "failed" /\ n.tasks[k].status = "failed"
                /\ n.tasks[k].child = d[w].tasks[k].child
             \/ /\ n.status = Activated(d[w].tasks[k].type)
                /\ n.tasks[k].status = Activated(d[w].tasks[k].type)
                /\ n.tasks[k].child = IF d[w].tasks[k].type = "workflow" THEN NoWorkflow
                                      ELSE d[w].tasks[k].child
      BY <2>1, <2>3, <2>5, RetryTaskTasks
    <3> HIDE DEF n
    <3>3. InOrder(n)
      BY <2>2, <2>3, <3>2, FailedInOrder, AgainInOrder
    <3>4. \/ n.status \in TerminalStatus
          \/ /\ n.status \in ActiveStatus /\ n.status # "pending_definition"
             /\ \A j \in Pos : n.tasks[j].status # "waiting_subworkflow"
      BY <2>2, <3>2 DEF Activated, TerminalStatus, ActiveStatus
    <3>5. QED
      BY <2>1, <2>2, <3>1, <3>3, <3>4, UpdateMutual
  <2>6. CASE outcome = "fail"
    <3> DEFINE n == Mark(d[w], k, "failed", "failed")
    <3>1. n \in Row /\ n.parent = d[w].parent /\ e = Update(d, w, n)
      BY <2>1, <2>3, <2>6, MarkKeeps DEF Keeps, EvaluateTask
    <3>2. /\ SameTasks(d[w], n) /\ n.tasks[k].status = "failed" /\ n.status = "failed"
          /\ \A j \in Pos \ {k} : n.tasks[j].status = d[w].tasks[j].status
          /\ \A j \in Pos : n.tasks[j].child = d[w].tasks[j].child
      BY <2>3, MarkType, MarkTasks
    <3> HIDE DEF n
    <3>3. InOrder(n)
      BY <2>2, <3>2, FailedInOrder
    <3>4. QED
      BY <2>1, <3>1, <3>2, <3>3, UpdateMutual DEF TerminalStatus
  <2>7. QED
    BY <2>4, <2>5, <2>6 DEF Outcome
<1>10. CASE Restored(d, e)
  <2>1. PICK w \in Workflow, k \in Pos :
          /\ IsCurrent(d[w], k) /\ d[w].tasks[k].type \in {"action", "collect"}
          /\ e = RestoreTask(d, w, k)
    BY <1>10 DEF Restored
  <2>2. /\ \A j \in Pos : e[w].tasks[j].child = d[w].tasks[j].child
        /\ \A j \in Pos \ {k} : e[w].tasks[j].status = d[w].tasks[j].status
        /\ e[w].tasks[k].status = IF d[w].tasks[k].status = "evaluating"
                                  THEN Activated(d[w].tasks[k].type) ELSE d[w].tasks[k].status
        /\ e[w].status = IF d[w].status = "evaluating"
                         THEN Activated(d[w].tasks[k].type) ELSE d[w].status
        /\ \A x \in Workflow \ {w} : e[x] = d[x]
    BY <2>1, RestoreTasks
  <2>3. \A x \in Workflow : e[x].parent = d[x].parent
    BY <2>1, RestoreKeeps DEF KeepsOwners
  <2>4. \A x \in Workflow :
          /\ e[x].status \in ActiveStatus <=> d[x].status \in ActiveStatus
          /\ e[x].status = "pending_definition" => d[x].status = "pending_definition"
    BY <2>2 DEF Activated, ActiveStatus
  <2>5. \A x \in Workflow, j \in Pos :
          /\ e[x].tasks[j].status = "waiting_subworkflow"
                <=> d[x].tasks[j].status = "waiting_subworkflow"
          /\ e[x].tasks[j].child = d[x].tasks[j].child
    BY <2>2 DEF Activated
  <2>6. QED
    BY <2>3, <2>4, <2>5, SameMutual
<1>11. CASE Cancelled(d, e)
  <2>1. PICK w \in Workflow : Active(d, w) /\ e = CancelWorkflow(d, w)
    BY <1>11 DEF Cancelled, IsActive, Active
  <2>2. PICK row : row = [d[w] EXCEPT !.status = "cancelled"]
    OBVIOUS
  <2>3. /\ row \in Row /\ row.status = "cancelled" /\ row.tasks = d[w].tasks
        /\ row.parent = d[w].parent
    BY <2>2 DEF Database, Row, WorkflowStatus, TerminalStatus
  <2>4. InOrder(row)
    BY <1>0, <2>1, <2>3, CancelledInOrder DEF Active
  <2>5. QED
    BY <2>1, <2>2, <2>3, <2>4, UpdateMutual DEF CancelWorkflow, TerminalStatus
<1>12. CASE Dropped(d, e)
  <2>1. PICK w \in Workflow :
          d[w].status = "pending_definition" /\ e = [d EXCEPT ![w].status = "cancelled"]
    BY <1>12 DEF Dropped
  <2>2. /\ e[w].status = "cancelled" /\ e[w].tasks = d[w].tasks /\ e[w].parent = d[w].parent
        /\ \A x \in Workflow \ {w} : e[x] = d[x]
    BY <2>1 DEF Database, Row
  <2>3. /\ ~Active(e, w) /\ \A x \in Workflow \ {w} : Active(e, x) <=> Active(d, x)
        /\ \A x \in Workflow : e[x].parent = d[x].parent
    BY <2>2 DEF Active, ActiveStatus
  <2>4. d[w].parent = NoWorkflow
    BY <2>1 DEF Mutual, PendingIsRoot
  <2>5. ParentsWait(e)
    <3> SUFFICES ASSUME NEW p \in Workflow, NEW k \in Pos, Active(e, p),
                        e[p].tasks[k].status = "waiting_subworkflow"
                 PROVE  /\ e[p].tasks[k].child \in Workflow
                        /\ e[e[p].tasks[k].child].parent = p
                        /\ Active(e, e[p].tasks[k].child)
      BY DEF ParentsWait
    <3>1. p # w /\ e[p] = d[p] /\ Active(d, p)
      BY <2>2, <2>3
    <3>2. /\ d[p].tasks[k].child \in Workflow /\ d[d[p].tasks[k].child].parent = p
          /\ Active(d, d[p].tasks[k].child)
      BY <3>1 DEF Mutual, ParentsWait
    <3>3. d[p].tasks[k].child # w
      BY <2>4, <3>2, TablesAssumption
    <3>4. QED
      BY <2>3, <3>1, <3>2, <3>3
  <2>6. ChildrenAwaited(e)
    BY <2>2, <2>3 DEF Mutual, ChildrenAwaited
  <2>7. PendingIsRoot(e)
    BY <2>2 DEF Mutual, PendingIsRoot
  <2>8. QED
    BY <2>5, <2>6, <2>7 DEF Mutual
<1>13. CASE Adopted(d, e, s)
  <2>1. PICK r \in Workflow : e = AdoptTree(d, r, s)
    BY <1>13 DEF Adopted
  <2>2. \A x \in Workflow : /\ e[x].status = d[x].status /\ e[x].tasks = d[x].tasks
                            /\ e[x].parent = d[x].parent
    BY <2>1 DEF AdoptTree, Database, Row
  <2>3. QED
    BY <2>2, SameMutual
<1>14. QED
  BY <1>1, <1>2, <1>3, <1>4, <1>5, <1>8, <1>9, <1>10, <1>11, <1>12, <1>13 DEF Move

LEMMA StepMutual ==
  ASSUME BaseInv, AllInOrder(db), TreeHasOneOwner, Mutual(db), [Next]_vars
  PROVE  Mutual(db')
<1>1. CASE \E s \in Session : Transaction(s)
  <2>0. PICK s \in Session : Transaction(s)
    BY <1>1
  <2>1. PICK d1 \in Database, d2 \in Database :
          /\ Move(db, d1, s) /\ Move(d1, d2, s)
          /\ \A x \in Workflow :
                /\ db'[x].status = d2[x].status /\ db'[x].parent = d2[x].parent
                /\ \A k \in Pos : /\ db'[x].tasks[k].status = d2[x].tasks[k].status
                                  /\ db'[x].tasks[k].child = d2[x].tasks[k].child
    BY <2>0, TransactionMoves
  <2>2. db \in Database /\ OneOwner(db)
    BY DEF BaseInv, TypeInv, TreeHasOneOwner
  <2>3. AllInOrder(d1) /\ OneOwner(d1) /\ Mutual(d1)
    BY <2>1, <2>2, MoveInOrder, MoveOneOwner, MoveMutual
  <2>4. Mutual(d2)
    BY <2>1, <2>3, MoveMutual
  <2>5. QED
    BY <2>1, <2>4, SameMutual
<1>2. CASE UNCHANGED db
  BY <1>2
<1>3. QED
  BY <1>1, <1>2, StepIsTransaction

LEMMA MutualHolds == Spec => []Mutual(db)
<1>1. Init => Mutual(db)
  BY DEF Init, NoRows, Mutual, ParentsWait, ChildrenAwaited, PendingIsRoot, Active,
         ActiveStatus
<1>2. /\ BaseInv /\ AllInOrder(db) /\ TreeHasOneOwner /\ Mutual(db) /\ [Next]_vars
      => Mutual(db)'
  BY StepMutual
<1>3. QED
  BY <1>1, <1>2, BaseHolds, OrderHolds, OneOwnerHolds, PTL DEF Spec

(* WaitingIsMutual holds for trees of any depth: when a child ends, by a   *)
(* result, an evaluation, a cancellation or the cascade of another ending, *)
(* the parent that waits is told in the same transaction, and no step ends *)
(* or replaces a child behind the back of a parent.                        *)
THEOREM WaitingStaysMutual == Spec => []WaitingIsMutual
<1>1. BaseInv /\ Mutual(db) => WaitingIsMutual
  <2> SUFFICES ASSUME BaseInv, Mutual(db), NEW w \in Workflow
               PROVE  ParentWaits(w) /\ ChildAwaited(w)
    BY DEF WaitingIsMutual
  <2>1. ParentWaits(w)
    BY DEF ParentWaits, Mutual, ParentsWait, Active, IsActive
  <2>2. db[w].parent \in Workflow \cup {NoWorkflow}
    BY DEF BaseInv, TypeInv, Database, Row
  <2>3. ChildAwaited(w)
    BY <2>2 DEF ChildAwaited, Mutual, ChildrenAwaited, Active, IsActive
  <2>4. QED
    BY <2>1, <2>3
<1>2. QED
  BY <1>1, BaseHolds, MutualHolds, PTL

-----------------------------------------------------------------------------
(* Definition 4.  From d to e a task is accepted only in its turn: what    *)
(* AcceptedInTurn says of a step, for the databases of one Move.  The child*)
(* a task waited for is a workflow, and it has completed.                  *)
NewlyAccepted(row, n, k) == n.tasks[k].status = "accepted" /\ row.tasks[k].status # "accepted"
Judged(task) == (task.criteria /\ task.type # "evaluate") => task.status = "evaluating"
ChildCompleted(task, e) ==
  task.status = "waiting_subworkflow" =>
     ~task.criteria /\ task.child \in Workflow /\ e[task.child].status = "completed"
AcceptsInTurn(d, e) ==
  \A w \in Workflow, k \in Pos : NewlyAccepted(d[w], e[w], k) =>
     /\ IsActive(d, w) /\ IsCurrent(d[w], k)
     /\ ChildCompleted(d[w].tasks[k], e)
     /\ Judged(d[w].tasks[k])

(* The cascade accepts the waiting task of each parent whose child ended   *)
(* as completed; the workflow that ended accepts what its own row says.    *)
LEMMA UpdateAccepts ==
  ASSUME NEW d \in Database, AllInOrder(d), NEW w \in Workflow, IsActive(d, w),
         NEW row \in Row, InOrder(row),
         \A k \in Pos : NewlyAccepted(d[w], row, k) =>
            /\ IsCurrent(d[w], k) /\ Judged(d[w].tasks[k])
            /\ d[w].tasks[k].status # "waiting_subworkflow"
  PROVE  AcceptsInTurn(d, Update(d, w, row))
<1> DEFINE new == [d EXCEPT ![w] = row]
           e == Update(d, w, row)
<1>1. /\ new \in Database /\ new[w] = row /\ \A x \in Workflow \ {w} : new[x] = d[x]
      /\ AllInOrder(new)
  BY PutInOrder DEF Database
<1>2. e = IF row.status \in TerminalStatus THEN ResolveParentAfterChild(new, w) ELSE new
  BY DEF Update
<1> HIDE DEF new, e
<1>3. e[w] = row
  <2>1. CASE row.status \in TerminalStatus
    <3>1. ~IsActive(new, w)
      BY <1>1, <2>1 DEF IsActive, ActiveStatus, TerminalStatus
    <3>2. QED
      BY <1>1, <1>2, <2>1, <3>1, ResolveCases DEF Informed
  <2>2. QED
    BY <1>1, <1>2, <2>1
<1>4. ASSUME NEW x \in Workflow \ {w}, NEW k \in Pos, NewlyAccepted(d[x], e[x], k)
      PROVE  /\ IsActive(d, x) /\ IsCurrent(d[x], k)
             /\ ChildCompleted(d[x].tasks[k], e) /\ Judged(d[x].tasks[k])
  <2>1. row.status \in TerminalStatus /\ e = ResolveParentAfterChild(new, w) /\ e[x] # new[x]
    BY <1>1, <1>2, <1>4 DEF NewlyAccepted
  <2>2. PICK j \in Pos : Informed(new, Ended(new, w), x, j)
    BY <1>1, <2>1, ResolveCases
  <2>3. /\ Stands(d[x], j) /\ d[x] \in Row
        /\ e[x] = IF Passes(new, w, d[x].tasks[j]) THEN AcceptTask(d[x], j)
                  ELSE Mark(d[x], j, "evaluating", "evaluating")
    BY <1>1, <2>1, <2>2, ResolveInformed DEF Database
  <2>4. Passes(new, w, d[x].tasks[j])
    <3>1. "evaluating" \in TaskStatus /\ "evaluating" \in WorkflowStatus
      BY DEF TaskStatus, FrontStatus, WorkflowStatus, ActiveStatus
    <3>2. QED
      BY <1>4, <2>3, <3>1, MarkTasks DEF NewlyAccepted
  <2>5. k = j
    BY <1>4, <2>3, <2>4, AcceptTaskTasks DEF NewlyAccepted, Activated
  <2>6. IsActive(d, x) /\ d[x].tasks[j].child \in Ended(new, w)
    BY <1>1, <2>2 DEF Informed, IsActive
  <2>7. IsCurrent(d[x], j)
    BY <2>3, TablesAssumption DEF Stands, Front, IsCurrent, Open, FrontStatus
  <2>8. /\ d[x].tasks[j].child \in Workflow /\ ~d[x].tasks[j].criteria
        /\ e[d[x].tasks[j].child].status = "completed"
    BY <1>1, <2>1, <2>4, <2>6, EndedEnds DEF Passes, Ended
  <2>9. QED
    BY <2>5, <2>6, <2>7, <2>8 DEF ChildCompleted, Judged
<1>5. ASSUME NEW k \in Pos, NewlyAccepted(d[w], e[w], k)
      PROVE  /\ IsActive(d, w) /\ IsCurrent(d[w], k)
             /\ ChildCompleted(d[w].tasks[k], e) /\ Judged(d[w].tasks[k])
  BY <1>3, <1>5 DEF ChildCompleted
<1>6. AcceptsInTurn(d, e)
  BY <1>4, <1>5 DEF AcceptsInTurn
<1>7. QED
  BY <1>6 DEF e

(* Every Move accepts tasks in turn.                                       *)
LEMMA MoveAccepts ==
  ASSUME NEW d \in Database, AllInOrder(d), NEW s \in Session, NEW e, Move(d, e, s)
  PROVE  AcceptsInTurn(d, e)
<1>0. \A x \in Workflow : d[x] \in Row /\ InOrder(d[x])
  BY DEF AllInOrder, Database
<1>1. ASSUME \A x \in Workflow, k \in Pos : ~NewlyAccepted(d[x], e[x], k)
      PROVE  AcceptsInTurn(d, e)
  BY <1>1 DEF AcceptsInTurn
<1>2. CASE e = d
  BY <1>1, <1>2 DEF NewlyAccepted
<1>3. ASSUME NEW row \in Row, NEW def \in Definition, row.tasks = InsertTasks(def), NEW k \in Pos
      PROVE  ActivateNext(row).tasks[k].status # "accepted"
  <2>1. row.tasks[k].status \in {"pending", "absent"}
    BY <1>3 DEF InsertTasks, NewTask
  <2>2. QED
    BY <1>3, <2>1, ActivateNextTasks DEF Activated
<1>4. ASSUME NEW def \in Definition, NEW parent \in Workflow \cup {NoWorkflow}, NEW k \in Pos
      PROVE  NewRow(s, parent, def).tasks[k].status # "accepted"
  <2> DEFINE row == [status |-> "running", parent |-> parent, session |-> s,
                     tasks |-> InsertTasks(def)]
  <2>1. row \in Row /\ row.tasks = InsertTasks(def)
    BY InsertTasksType DEF Row, WorkflowStatus, ActiveStatus
  <2>2. QED
    BY <1>3, <2>1 DEF NewRow
<1>5. CASE NewRoot(d, e, s)
  <2>1. PICK w \in Workflow, def \in Definition : e = [d EXCEPT ![w] = NewRow(s, NoWorkflow, def)]
    BY <1>5 DEF NewRoot, CreateRootWorkflow
  <2>2. e[w] = NewRow(s, NoWorkflow, def) /\ \A x \in Workflow \ {w} : e[x] = d[x]
    BY <2>1 DEF Database
  <2>3. QED
    BY <1>1, <1>4, <2>2 DEF NewlyAccepted
<1>6. CASE NewPending(d, e, s)
  <2>1. PICK w \in Workflow : e = [d EXCEPT ![w] = [status |-> "pending_definition",
                                parent |-> NoWorkflow, session |-> s, tasks |-> NoTasks]]
    BY <1>6 DEF NewPending
  <2>2. e[w].tasks = NoTasks /\ \A x \in Workflow \ {w} : e[x] = d[x]
    BY <2>1 DEF Database
  <2>3. \A k \in Pos : NoTasks[k].status = "absent"
    BY DEF NoTasks, NewTask
  <2>4. QED
    BY <1>1, <2>2, <2>3 DEF NewlyAccepted
<1>7. CASE Hydrated(d, e, s)
  <2>1. PICK w \in Workflow, def \in Definition : e = HydrateWorkflow(d, w, def)
    BY <1>7 DEF Hydrated
  <2>2. PICK row : row = [d[w] EXCEPT !.status = "running", !.tasks = InsertTasks(def)]
    OBVIOUS
  <2>3. row \in Row /\ row.tasks = InsertTasks(def)
    BY <2>2, InsertTasksType DEF Database, Row, WorkflowStatus, ActiveStatus
  <2>4. e[w] = ActivateNext(row) /\ \A x \in Workflow \ {w} : e[x] = d[x]
    BY <2>1, <2>2 DEF HydrateWorkflow, Database
  <2>5. QED
    BY <1>1, <1>3, <2>3, <2>4 DEF NewlyAccepted
<1>8. CASE NewChild(d, e, s)
  <2>1. PICK p \in Workflow, c \in Workflow, k \in Pos, def \in Definition :
          d[p].status # d[c].status /\ e = CreateSubworkflow(d, p, k, c, s, def)
    BY <1>8 DEF NewChild, Live, IsActive, ActiveStatus
  <2>2. /\ e[c] = NewRow(s, p, def) /\ e[p] = LinkChild(d[p], k, c)
        /\ \A x \in Workflow \ {c, p} : e[x] = d[x]
    BY <2>1 DEF CreateSubworkflow, Database
  <2>3. \A j \in Pos : ~NewlyAccepted(d[p], e[p], j)
    BY <1>0, <2>2, LinkChildTasks DEF NewlyAccepted
  <2>4. QED
    BY <1>1, <1>4, <2>2, <2>3 DEF NewlyAccepted
<1>9. ASSUME NEW w \in Workflow, NEW k \in Pos, IsActive(d, w), IsCurrent(d[w], k)
      PROVE  /\ Stands(d[w], k) /\ Matches(d[w], d[w].tasks[k]) /\ d[w] \in Row
             /\ d[w].status # "none" /\ d[w].tasks[k].type \in TaskType
  BY <1>0, <1>9, ActiveStands DEF IsActive, ActiveStatus, Row, Task
<1>10. /\ "evaluating" \in TaskStatus /\ "evaluating" \in WorkflowStatus \ {"none"}
       /\ "failed" \in TaskStatus /\ "failed" \in WorkflowStatus \ {"none"}
  BY DEF TaskStatus, FrontStatus, WorkflowStatus, ActiveStatus, TerminalStatus
<1>11. ASSUME NEW w \in Workflow, NEW k \in Pos, IsActive(d, w), IsCurrent(d[w], k),
              Judged(d[w].tasks[k]), d[w].tasks[k].status # "waiting_subworkflow"
       PROVE  AcceptsInTurn(d, Update(d, w, AcceptTask(d[w], k)))
  <2>1. Stands(d[w], k) /\ d[w] \in Row /\ d[w].status # "none"
    BY <1>9, <1>11
  <2>2. AcceptTask(d[w], k) \in Row /\ InOrder(AcceptTask(d[w], k))
    BY <2>1, AcceptTaskKeeps, AcceptedInOrder DEF Keeps
  <2>3. \A j \in Pos : NewlyAccepted(d[w], AcceptTask(d[w], k), j) => j = k
    BY <2>1, AcceptTaskTasks DEF NewlyAccepted, Activated
  <2>4. QED
    BY <1>11, <2>2, <2>3, UpdateAccepts
<1>12. ASSUME NEW w \in Workflow, IsActive(d, w), NEW n \in Row, InOrder(n),
              \A j \in Pos : ~NewlyAccepted(d[w], n, j)
       PROVE  AcceptsInTurn(d, Update(d, w, n))
  BY <1>12, UpdateAccepts
<1>13. CASE Recorded(d, e)
  <2>1. PICK w \in Workflow, k \in Pos :
          /\ IsActive(d, w) /\ IsCurrent(d[w], k)
          /\ d[w].tasks[k].type \in {"action", "collect"}
          /\ e = RecordResult(d, w, k)
    BY <1>13 DEF Recorded
  <2>2. Stands(d[w], k) /\ Matches(d[w], d[w].tasks[k]) /\ d[w] \in Row /\ d[w].status # "none"
    BY <1>9, <2>1
  <2>3. CASE d[w].tasks[k].criteria
    <3> DEFINE n == Mark(d[w], k, "evaluating", "evaluating")
    <3>1. n \in Row
      BY <1>10, <2>2, MarkType
    <3>2. InOrder(n)
      BY <2>1, <2>2, EvaluatingInOrder
    <3>3. \A j \in Pos : ~NewlyAccepted(d[w], n, j)
      BY <1>10, <2>2, MarkTasks DEF NewlyAccepted
    <3>4. e = Update(d, w, n)
      BY <2>1, <2>3 DEF RecordResult
    <3> HIDE DEF n
    <3>5. QED
      BY <1>12, <2>1, <3>1, <3>2, <3>3, <3>4
  <2>4. CASE ~d[w].tasks[k].criteria
    <3>1. Judged(d[w].tasks[k]) /\ d[w].tasks[k].status # "waiting_subworkflow"
      BY <2>1, <2>2, <2>4 DEF Judged, Matches
    <3>2. QED
      BY <1>11, <2>1, <2>4, <3>1 DEF RecordResult
  <2>5. QED
    BY <2>3, <2>4
<1>14. CASE Evaluated(d, e)
  <2>1. PICK w \in Workflow, k \in Pos, outcome \in Outcome :
          /\ IsActive(d, w) /\ IsCurrent(d[w], k)
          /\ d[w].tasks[k].type = "evaluate" \/ d[w].tasks[k].status = "evaluating"
          /\ outcome = "retry" => d[w].tasks[k].attempts < AttemptBound
          /\ e = EvaluateTask(d, w, k, outcome)
    BY <1>14 DEF Evaluated
  <2>2. /\ Stands(d[w], k) /\ Matches(d[w], d[w].tasks[k]) /\ d[w] \in Row
        /\ d[w].status # "none" /\ d[w].tasks[k].type \in TaskType
    BY <1>9, <2>1
  <2>3. CASE outcome = "accept"
    <3>1. Judged(d[w].tasks[k]) /\ d[w].tasks[k].status # "waiting_subworkflow"
      BY <2>1, <2>2 DEF Judged, Matches
    <3>2. QED
      BY <1>11, <2>1, <2>3, <3>1 DEF EvaluateTask
  <2>4. CASE outcome = "retry"
    <3> DEFINE n == RetryTask(d[w], k)
    <3>1. n \in Row /\ e = Update(d, w, n)
      BY <2>1, <2>2, <2>4, RetryTaskKeeps DEF Keeps, EvaluateTask
    <3>2. /\ SameTasks(d[w], n)
          /\ \A j \in Pos \ {k} : /\ n.tasks[j].status = d[w].tasks[j].status
                                  /\ n.tasks[j].child = d[w].tasks[j].child
          /\ \/ /\ n.status = "failed" /\ n.tasks[k].status = "failed"
                /\ n.tasks[k].child = d[w].tasks[k].child
             \/ /\ n.status = Activated(d[w].tasks[k].type)
                /\ n.tasks[k].status = Activated(d[w].tasks[k].type)
                /\ n.tasks[k].child = IF d[w].tasks[k].type = "workflow" THEN NoWorkflow
                                      ELSE d[w].tasks[k].child
      BY <2>1, <2>2, <2>4, RetryTaskTasks
    <3> HIDE DEF n
    <3>3. InOrder(n)
      BY <2>2, <3>2, FailedInOrder, AgainInOrder
    <3>4. \A j \in Pos : ~NewlyAccepted(d[w], n, j)
      BY <3>2 DEF NewlyAccepted, Activated
    <3>5. QED
      BY <1>12, <2>1, <3>1, <3>3, <3>4
  <2>5. CASE outcome = "fail"
    <3> DEFINE n == Mark(d[w], k, "failed", "failed")
    <3>1. n \in Row /\ e = Update(d, w, n)
      BY <1>10, <2>1, <2>2, <2>5, MarkKeeps DEF Keeps, EvaluateTask
    <3>2. /\ SameTasks(d[w], n) /\ n.tasks[k].status = "failed" /\ n.status = "failed"
          /\ \A j \in Pos \ {k} : n.tasks[j].status = d[w].tasks[j].status
          /\ \A j \in Pos : n.tasks[j].child = d[w].tasks[j].child
      BY <1>10, <2>2, MarkType, MarkTasks
    <3> HIDE DEF n
    <3>3. InOrder(n)
      BY <2>2, <3>2, FailedInOrder
    <3>4. \A j \in Pos : ~NewlyAccepted(d[w], n, j)
      BY <3>2 DEF NewlyAccepted
    <3>5. QED
      BY <1>12, <2>1, <3>1, <3>3, <3>4
  <2>6. QED
    BY <2>3, <2>4, <2>5 DEF Outcome
<1>15. CASE Restored(d, e)
  <2>1. PICK w \in Workflow, k \in Pos : e = RestoreTask(d, w, k)
    BY <1>15 DEF Restored
  <2>2. /\ \A j \in Pos \ {k} : e[w].tasks[j].status = d[w].tasks[j].status
        /\ e[w].tasks[k].status = IF d[w].tasks[k].status = "evaluating"
                                  THEN Activated(d[w].tasks[k].type) ELSE d[w].tasks[k].status
        /\ \A x \in Workflow \ {w} : e[x] = d[x]
    BY <2>1, RestoreTasks
  <2>3. QED
    BY <1>1, <2>2 DEF NewlyAccepted, Activated
<1>16. CASE Cancelled(d, e)
  <2>1. PICK w \in Workflow : IsActive(d, w) /\ e = CancelWorkflow(d, w)
    BY <1>16 DEF Cancelled
  <2>2. PICK row : row = [d[w] EXCEPT !.status = "cancelled"]
    OBVIOUS
  <2>3. row \in Row /\ row.status = "cancelled" /\ row.tasks = d[w].tasks
    BY <2>2 DEF Database, Row, WorkflowStatus, TerminalStatus
  <2>4. InOrder(row)
    BY <1>0, <2>1, <2>3, CancelledInOrder DEF IsActive
  <2>5. QED
    BY <1>12, <2>1, <2>2, <2>3, <2>4 DEF CancelWorkflow, NewlyAccepted
<1>17. CASE Dropped(d, e)
  <2>1. \A x \in Workflow : e[x].tasks = d[x].tasks
    BY <1>17 DEF Dropped, Database, Row
  <2>2. QED
    BY <1>1, <2>1 DEF NewlyAccepted
<1>18. CASE Adopted(d, e, s)
  <2>1. \A x \in Workflow : e[x].tasks = d[x].tasks
    BY <1>18 DEF Adopted, AdoptTree, Database, Row
  <2>2. QED
    BY <1>1, <2>1 DEF NewlyAccepted
<1>19. QED
  BY <1>2, <1>5, <1>6, <1>7, <1>8, <1>13, <1>14, <1>15, <1>16, <1>17, <1>18 DEF Move

(* A result that is judged at once: the evaluation may accept only the task*)
(* that was recorded, and it was not waiting for a child.                  *)
LEMMA JudgedAccepts ==
  ASSUME NEW d \in Database, AllInOrder(d), NEW d1 \in Database, RecordedToJudge(d, d1),
         NEW e, AcceptsInTurn(d1, e), NEW x \in Workflow, NEW k \in Pos,
         NewlyAccepted(d[x], e[x], k)
  PROVE  /\ IsActive(d, x) /\ IsCurrent(d[x], k)
         /\ ChildCompleted(d[x].tasks[k], e)
         /\ "system_one" \in Evaluator
<1>1. PICK w \in Workflow, j \in Pos :
        /\ IsActive(d, w) /\ IsCurrent(d[w], j)
        /\ d[w].tasks[j].type \in {"action", "collect"}
        /\ d1 = [d EXCEPT ![w] = Mark(d[w], j, "evaluating", "evaluating")]
  BY DEF RecordedToJudge
<1>2. "system_one" \in Evaluator
  BY DEF RecordedToJudge
<1>3. /\ "evaluating" \in TaskStatus /\ "evaluating" \in WorkflowStatus /\ d[w] \in Row
      /\ d1[w] = Mark(d[w], j, "evaluating", "evaluating")
      /\ \A y \in Workflow \ {w} : d1[y] = d[y]
  BY <1>1 DEF TaskStatus, FrontStatus, WorkflowStatus, ActiveStatus, Database
<1>4. /\ d1[w].tasks[j].status = "evaluating"
      /\ \A i \in Pos \ {j} : d1[w].tasks[i].status = d[w].tasks[i].status
  BY <1>3, MarkTasks
<1>5. NewlyAccepted(d1[x], e[x], k)
  BY <1>3, <1>4 DEF NewlyAccepted
<1>6. IsActive(d1, x) /\ IsCurrent(d1[x], k) /\ ChildCompleted(d1[x].tasks[k], e)
  BY <1>5 DEF AcceptsInTurn
<1>7. CASE x # w
  BY <1>2, <1>3, <1>6, <1>7 DEF IsActive
<1>8. CASE x = w
  <2>1. IsCurrent(d1[w], j)
    BY <1>1, <1>4 DEF IsCurrent, Open, Pos
  <2>2. k = j
    BY <1>6, <1>8, <2>1, TablesAssumption DEF IsCurrent, Pos
  <2>3. d[w].tasks[j].status # "waiting_subworkflow"
    BY <1>1, <1>3, ActiveStands DEF AllInOrder, IsActive, Matches
  <2>4. QED
    BY <1>1, <1>2, <1>8, <2>2, <2>3 DEF ChildCompleted
<1>9. QED
  BY <1>7, <1>8

(* What one step of the system accepts.                                    *)
LEMMA StepAccepts ==
  ASSUME BaseInv, AllInOrder(db), [Next]_vars, NEW x \in Workflow, NEW k \in Pos,
         NewlyAccepted(db[x], db'[x], k)
  PROVE  /\ IsActive(db, x) /\ IsCurrent(db[x], k)
         /\ ChildCompleted(db[x].tasks[k], db')
         /\ Judged(db[x].tasks[k]) \/ "system_one" \in Evaluator
<1>1. PICK s \in Session : Transaction(s)
  <2>1. ~UNCHANGED db
    BY DEF NewlyAccepted
  <2>2. QED
    BY <2>1, StepIsTransaction
<1>2. PICK d1 \in Database, d2 \in Database :
        /\ Move(db, d1, s) /\ Move(d1, d2, s)
        /\ d1 = db \/ d2 = d1 \/ RecordedToJudge(db, d1)
        /\ \A y \in Workflow : /\ db'[y].status = d2[y].status
                               /\ \A j \in Pos : db'[y].tasks[j].status = d2[y].tasks[j].status
  BY <1>1, TransactionMoves
<1>3. db \in Database
  BY DEF BaseInv, TypeInv
<1>4. AcceptsInTurn(db, d1) /\ AcceptsInTurn(d1, d2)
  BY <1>2, <1>3, MoveInOrder, MoveAccepts
<1>5. NewlyAccepted(db[x], d2[x], k)
  BY <1>2 DEF NewlyAccepted
<1>6. /\ IsActive(db, x) /\ IsCurrent(db[x], k)
      /\ ChildCompleted(db[x].tasks[k], d2)
      /\ Judged(db[x].tasks[k]) \/ "system_one" \in Evaluator
  <2>1. CASE d1 = db \/ d2 = d1
    BY <1>4, <1>5, <2>1 DEF AcceptsInTurn
  <2>2. CASE RecordedToJudge(db, d1)
    BY <1>3, <1>4, <1>5, <2>2, JudgedAccepts
  <2>3. QED
    BY <1>2, <2>1, <2>2
<1>7. ChildCompleted(db[x].tasks[k], db')
  BY <1>2, <1>6 DEF ChildCompleted
<1>8. QED
  BY <1>6, <1>7

(* AcceptedInTurn: nothing that a session, a command, an evaluator or the  *)
(* cascade of endings does accepts a task out of turn, before its result is*)
(* judged, or for a child that was cancelled or failed.                    *)
THEOREM TasksAreAcceptedInTurn == Spec => AcceptedInTurn
<1> DEFINE Turn(w, k) ==
       LET old == db[w].tasks[k]
           new == db'[w].tasks[k]
       IN  (new.status = "accepted" /\ old.status # "accepted") =>
             /\ IsActive(db, w) /\ IsCurrent(db[w], k)
             /\ old.status = "waiting_subworkflow" =>
                  ~old.criteria /\ db'[old.child].status = "completed"
             /\ (old.criteria /\ old.type # "evaluate" /\ "system_one" \notin Evaluator) =>
                  old.status = "evaluating"
<1>1. ASSUME BaseInv, AllInOrder(db), [Next]_vars, NEW w \in Workflow, NEW k \in Pos
      PROVE  Turn(w, k)
  BY <1>1, StepAccepts DEF NewlyAccepted, ChildCompleted, Judged
<1>2. BaseInv /\ AllInOrder(db) /\ [Next]_vars
      => [\A w \in Workflow, k \in Pos : Turn(w, k)]_vars
  BY <1>1
<1>3. QED
  BY <1>2, BaseHolds, OrderHolds, PTL DEF Spec, AcceptedInTurn


-----------------------------------------------------------------------------
(* Definition 5.  How a task t may go on as u: a Collect that awaits its   *)
(* user stays as it is, and one that begins to await has no checkpoint,    *)
(* because every operation that takes up a task anew either finds it       *)
(* untouched or clears its row of workflow_collect_checkpoint.             *)
Awaits(task) == task.type = "collect" /\ task.status = "awaiting_user"
Fresh(task) == task.status \in {"pending", "absent"} => task.checkpoint = NoRow
AllFresh(d) == \A x \in Workflow, k \in Pos : Fresh(d[x].tasks[k])
Begins(t, u) == /\ u.status = "awaiting_user"
                /\ t.status # "awaiting_user" \/ t.attempts # u.attempts
Keeping(t, u) == Fresh(u) /\ (t.attempts = u.attempts => u.checkpoint = t.checkpoint)
GoesOn(t, u) == Keeping(t, u) /\ (Awaits(u) /\ Begins(t, u) => u.checkpoint = NoRow)
Stays(t, u) == Awaits(t) => u.status = "awaiting_user" /\ u.attempts = t.attempts
RowGoesOn(row, n) == \A j \in Pos : GoesOn(row.tasks[j], n.tasks[j])
RowStays(row, n) == \A j \in Pos : Stays(row.tasks[j], n.tasks[j])

LEMMA TaskRemains ==
  ASSUME NEW t, Fresh(t)
  PROVE  GoesOn(t, t) /\ Stays(t, t)
  BY DEF GoesOn, Keeping, Begins, Stays, Awaits

LEMMA MarkGoesOn ==
  ASSUME NEW row \in Row, NEW k \in Pos, \A j \in Pos : Fresh(row.tasks[j]),
         NEW ts \in {"evaluating", "accepted", "failed"}, NEW ws
  PROVE  /\ RowGoesOn(row, Mark(row, k, ts, ws))
         /\ \A j \in Pos : (j = k => ~Awaits(row.tasks[k]))
                             => Stays(row.tasks[j], Mark(row, k, ts, ws).tasks[j])
<1>1. row.tasks \in [Pos -> Task] /\ \A j \in Pos : row.tasks[j] \in Task
  BY DEF Row
<1>2. Mark(row, k, ts, ws).tasks = [row.tasks EXCEPT ![k] = [row.tasks[k] EXCEPT !.status = ts]]
  BY DEF Mark, Row
<1>3. GoesOn(row.tasks[k], [row.tasks[k] EXCEPT !.status = ts])
  BY <1>1 DEF GoesOn, Keeping, Fresh, Begins, Task
<1>4. \A j \in Pos : GoesOn(row.tasks[j], row.tasks[j]) /\ Stays(row.tasks[j], row.tasks[j])
  BY TaskRemains
<1>5. QED
  BY <1>1, <1>2, <1>3, <1>4 DEF RowGoesOn, Stays

LEMMA AcceptGoesOn ==
  ASSUME NEW row \in Row, NEW k \in Pos, \A j \in Pos : Fresh(row.tasks[j]), Stands(row, k)
  PROVE  /\ RowGoesOn(row, AcceptTask(row, k))
         /\ \A j \in Pos : (j = k => ~Awaits(row.tasks[k]))
                             => Stays(row.tasks[j], AcceptTask(row, k).tasks[j])
<1> DEFINE m == Mark(row, k, "accepted", row.status)
           n == AcceptTask(row, k)
<1>1. row.tasks \in [Pos -> Task] /\ \A j \in Pos : row.tasks[j] \in Task
  BY DEF Row
<1>2. /\ m.tasks = [row.tasks EXCEPT ![k] = [row.tasks[k] EXCEPT !.status = "accepted"]]
      /\ m \in Row
  BY MarkType DEF Mark, Row, TaskStatus
<1>3. n.tasks = [j \in Pos |-> IF IsCurrent(m, j)
                    THEN [m.tasks[j] EXCEPT !.status = Activated(m.tasks[j].type)]
                    ELSE m.tasks[j]]
  BY <1>2 DEF AcceptTask, ActivateNext, Row
<1>4. m.tasks[k].status = "accepted"
  BY <1>1, <1>2 DEF Task
<1> HIDE DEF m, n
<1>5. ASSUME NEW j \in Pos, IsCurrent(m, j)
      PROVE  /\ j # k /\ m.tasks[j] = row.tasks[j]
             /\ row.tasks[j].status = "pending"
  <2>1. j # k /\ m.tasks[j] = row.tasks[j] /\ Open(row.tasks[j])
    BY <1>1, <1>2, <1>4, <1>5 DEF IsCurrent, Open
  <2>2. row.tasks[j].status \in {"accepted", "pending", "absent"}
    BY <2>1, TablesAssumption DEF Stands, Front, Pos
  <2>3. QED
    BY <2>1, <2>2 DEF Open
<1>6. ASSUME NEW j \in Pos, IsCurrent(m, j)
      PROVE  GoesOn(row.tasks[j], n.tasks[j]) /\ Stays(row.tasks[j], n.tasks[j])
  <2>1. n.tasks[j] = [row.tasks[j] EXCEPT !.status = Activated(row.tasks[j].type)]
    BY <1>3, <1>5, <1>6
  <2>2. row.tasks[j].checkpoint = NoRow /\ row.tasks[j] \in Task
    BY <1>1, <1>5, <1>6 DEF Fresh
  <2>3. QED
    BY <1>5, <1>6, <2>1, <2>2 DEF GoesOn, Keeping, Fresh, Stays, Awaits, Task
<1>7. ASSUME NEW j \in Pos, ~IsCurrent(m, j)
      PROVE  /\ GoesOn(row.tasks[j], n.tasks[j])
             /\ (j = k => ~Awaits(row.tasks[k])) => Stays(row.tasks[j], n.tasks[j])
  <2>1. n.tasks[j] = m.tasks[j]
    BY <1>3, <1>7
  <2>2. QED
    BY <2>1, MarkGoesOn DEF RowGoesOn, m
<1>8. QED
  BY <1>5, <1>6, <1>7 DEF RowGoesOn, n

LEMMA RetryGoesOn ==
  ASSUME NEW row \in Row, NEW k \in Pos, \A j \in Pos : Fresh(row.tasks[j]),
         ~Awaits(row.tasks[k])
  PROVE  RowGoesOn(row, RetryTask(row, k)) /\ RowStays(row, RetryTask(row, k))
<1> DEFINE t == row.tasks[k]
           put == IF LastAttempt(t) THEN [t EXCEPT !.status = "failed", !.attempts = @ + 1]
                  ELSE Again(t)
<1>1. t \in Task /\ row.tasks \in [Pos -> Task]
  BY DEF Row
<1>2. RetryTask(row, k).tasks = [row.tasks EXCEPT ![k] = put]
  BY DEF RetryTask, Row
<1>3. /\ put.attempts = t.attempts + 1
      /\ put.status = "failed" \/ put.checkpoint = NoRow
  BY <1>1 DEF Again, Task
<1>4. put.attempts # t.attempts
  BY <1>1, <1>3 DEF Task
<1> HIDE DEF put
<1>5. GoesOn(t, put)
  BY <1>3, <1>4 DEF GoesOn, Keeping, Fresh, Awaits
<1>6. \A j \in Pos : GoesOn(row.tasks[j], row.tasks[j]) /\ Stays(row.tasks[j], row.tasks[j])
  BY TaskRemains
<1>7. QED
  BY <1>1, <1>2, <1>5, <1>6 DEF RowGoesOn, RowStays, Stays

(* A new definition: nothing was awaited before it.                        *)
LEMMA DefinedGoesOn ==
  ASSUME NEW old, \A j \in Pos : old.tasks[j].status = "absent" /\ Fresh(old.tasks[j]),
         NEW row \in Row, NEW def \in Definition, row.tasks = InsertTasks(def)
  PROVE  RowGoesOn(old, ActivateNext(row)) /\ RowStays(old, ActivateNext(row))
<1>1. \A j \in Pos : row.tasks[j] \in Task /\ row.tasks[j].checkpoint = NoRow
  <2>1. \A j \in Pos : row.tasks[j] \in Task
    BY DEF Row
  <2>2. \A j \in Pos : InsertTasks(def)[j].checkpoint = NoRow
    BY DEF InsertTasks, NewTask
  <2>3. QED
    BY <2>1, <2>2
<1>2. ActivateNext(row).tasks = [j \in Pos |-> IF IsCurrent(row, j)
                       THEN [row.tasks[j] EXCEPT !.status = Activated(row.tasks[j].type)]
                       ELSE row.tasks[j]]
  BY DEF ActivateNext, Row
<1>3. \A j \in Pos : ActivateNext(row).tasks[j].checkpoint = NoRow
  BY <1>1, <1>2 DEF Task
<1>4. QED
  BY <1>3 DEF RowGoesOn, RowStays, GoesOn, Keeping, Stays, Awaits, Fresh

(* The cascade takes up only tasks that waited for a child, and the tasks  *)
(* that come after them.                                                   *)
LEMMA ResolveGoesOn ==
  ASSUME NEW d \in Database, AllInOrder(d), AllFresh(d), NEW w \in Workflow, NEW p \in Workflow
  PROVE  /\ RowGoesOn(d[p], ResolveParentAfterChild(d, w)[p])
         /\ RowStays(d[p], ResolveParentAfterChild(d, w)[p])
<1>0. d[p] \in Row /\ InOrder(d[p]) /\ \A j \in Pos : Fresh(d[p].tasks[j])
  BY DEF AllInOrder, AllFresh, Database
<1>1. CASE ResolveParentAfterChild(d, w)[p] = d[p]
  BY <1>0, <1>1, TaskRemains DEF RowGoesOn, RowStays
<1>2. ASSUME NEW k \in Pos, Informed(d, Ended(d, w), p, k),
             ResolveParentAfterChild(d, w)[p] =
               IF Passes(d, w, d[p].tasks[k]) THEN AcceptTask(d[p], k)
               ELSE Mark(d[p], k, "evaluating", "evaluating")
      PROVE  /\ RowGoesOn(d[p], ResolveParentAfterChild(d, w)[p])
             /\ RowStays(d[p], ResolveParentAfterChild(d, w)[p])
  <2>1. d[p].status \in ActiveStatus /\ d[p].tasks[k].status = "waiting_subworkflow"
    BY <1>2 DEF Informed, IsActive
  <2>2. Stands(d[p], k) /\ ~Awaits(d[p].tasks[k])
    BY <1>0, <2>1, ActiveStands DEF FrontStatus, Awaits
  <2>3. QED
    BY <1>0, <1>2, <2>2, AcceptGoesOn, MarkGoesOn DEF RowStays
<1>3. QED
  BY <1>1, <1>2, ResolveCases

LEMMA UpdateGoesOn ==
  ASSUME NEW d \in Database, AllInOrder(d), AllFresh(d), NEW w \in Workflow, IsActive(d, w),
         NEW row \in Row, InOrder(row), RowGoesOn(d[w], row)
  PROVE  /\ Update(d, w, row)[w] = row
         /\ \A x \in Workflow \ {w} : /\ RowGoesOn(d[x], Update(d, w, row)[x])
                                      /\ RowStays(d[x], Update(d, w, row)[x])
<1> DEFINE new == [d EXCEPT ![w] = row]
           e == Update(d, w, row)
<1>1. /\ new \in Database /\ new[w] = row /\ \A x \in Workflow \ {w} : new[x] = d[x]
      /\ AllInOrder(new)
  BY PutInOrder DEF Database
<1>2. e = IF row.status \in TerminalStatus THEN ResolveParentAfterChild(new, w) ELSE new
  BY DEF Update
<1> HIDE DEF new, e
<1>3. AllFresh(new)
  BY <1>1 DEF AllFresh, RowGoesOn, GoesOn, Keeping
<1>4. e[w] = row
  <2>1. CASE row.status \in TerminalStatus
    <3>1. ~IsActive(new, w)
      BY <1>1, <2>1 DEF IsActive, ActiveStatus, TerminalStatus
    <3>2. QED
      BY <1>1, <1>2, <2>1, <3>1, ResolveCases DEF Informed
  <2>2. QED
    BY <1>1, <1>2, <2>1
<1>5. ASSUME NEW x \in Workflow \ {w}
      PROVE  RowGoesOn(d[x], e[x]) /\ RowStays(d[x], e[x])
  <2>1. CASE row.status \in TerminalStatus
    BY <1>1, <1>2, <1>3, <2>1, ResolveGoesOn
  <2>2. CASE row.status \notin TerminalStatus
    BY <1>1, <1>2, <1>3, <2>2, TaskRemains DEF RowGoesOn, RowStays, AllFresh
  <2>3. QED
    BY <2>1, <2>2
<1>6. QED
  BY <1>4, <1>5 DEF e

(* The Moves that neither record a result nor put back a question.         *)
Quiet(d, e, s) ==
  \/ e = d
  \/ NewRoot(d, e, s) \/ NewPending(d, e, s) \/ Hydrated(d, e, s) \/ NewChild(d, e, s)
  \/ Evaluated(d, e) \/ Cancelled(d, e) \/ Dropped(d, e) \/ Adopted(d, e, s)
TablesGoOn(d, e) == \A x \in Workflow : RowGoesOn(d[x], e[x])
TablesStay(d, e) == \A x \in Workflow : RowStays(d[x], e[x])

LEMMA QuietGoesOn ==
  ASSUME NEW d \in Database, AllInOrder(d), AllFresh(d), NEW s \in Session, NEW e, Quiet(d, e, s)
  PROVE  TablesGoOn(d, e) /\ TablesStay(d, e)
<1>0. \A x \in Workflow : /\ d[x] \in Row /\ InOrder(d[x])
                          /\ \A j \in Pos : Fresh(d[x].tasks[j])
  BY DEF AllInOrder, AllFresh, Database
<1>1. ASSUME NEW x \in Workflow, e[x].tasks = d[x].tasks
      PROVE  RowGoesOn(d[x], e[x]) /\ RowStays(d[x], e[x])
  BY <1>0, <1>1, TaskRemains DEF RowGoesOn, RowStays
<1>2. CASE \A x \in Workflow : e[x].tasks = d[x].tasks
  BY <1>1, <1>2 DEF TablesGoOn, TablesStay
<1>3. ASSUME NEW x \in Workflow, Undefined(d[x]), NEW row \in Row, NEW def \in Definition,
             row.tasks = InsertTasks(def), e[x] = ActivateNext(row)
      PROVE  RowGoesOn(d[x], e[x]) /\ RowStays(d[x], e[x])
  <2>1. \A j \in Pos : d[x].tasks[j].status = "absent"
    BY <1>0, <1>3 DEF InOrder, RowInOrder, Undefined
  <2>2. QED
    BY <1>0, <1>3, <2>1, DefinedGoesOn
<1>4. ASSUME NEW x \in Workflow, d[x].status = "none",
             NEW def \in Definition, NEW parent \in Workflow \cup {NoWorkflow},
             e[x] = NewRow(s, parent, def)
      PROVE  RowGoesOn(d[x], e[x]) /\ RowStays(d[x], e[x])
  <2> DEFINE row == [status |-> "running", parent |-> parent, session |-> s,
                     tasks |-> InsertTasks(def)]
  <2>1. row \in Row /\ row.tasks = InsertTasks(def)
    BY InsertTasksType DEF Row, WorkflowStatus, ActiveStatus
  <2>2. e[x] = ActivateNext(row) /\ Undefined(d[x])
    BY <1>4 DEF NewRow, Undefined
  <2> HIDE DEF row
  <2>3. QED
    BY <1>3, <2>1, <2>2
<1>5. CASE NewRoot(d, e, s)
  <2>1. PICK w \in Workflow, def \in Definition :
          d[w].status = "none" /\ e = [d EXCEPT ![w] = NewRow(s, NoWorkflow, def)]
    BY <1>5 DEF NewRoot, CreateRootWorkflow
  <2>2. e[w] = NewRow(s, NoWorkflow, def) /\ \A x \in Workflow \ {w} : e[x] = d[x]
    BY <2>1 DEF Database
  <2>3. QED
    BY <1>1, <1>4, <2>1, <2>2 DEF TablesGoOn, TablesStay
<1>6. CASE NewPending(d, e, s)
  <2>1. PICK w \in Workflow : /\ d[w].status = "none"
          /\ e = [d EXCEPT ![w] = [status |-> "pending_definition",
                                   parent |-> NoWorkflow, session |-> s, tasks |-> NoTasks]]
    BY <1>6 DEF NewPending
  <2>2. e[w].tasks = NoTasks /\ \A x \in Workflow \ {w} : e[x] = d[x]
    BY <2>1 DEF Database
  <2>3. \A j \in Pos : NoTasks[j].checkpoint = NoRow /\ d[w].tasks[j].status = "absent"
                         /\ d[w].tasks[j].checkpoint = NoRow
    BY <1>0, <2>1 DEF NoTasks, NewTask, InOrder, RowInOrder, Fresh
  <2>4. RowGoesOn(d[w], e[w]) /\ RowStays(d[w], e[w])
    BY <2>2, <2>3 DEF RowGoesOn, RowStays, GoesOn, Keeping, Stays, Awaits, Fresh
  <2>5. QED
    BY <1>1, <2>2, <2>4 DEF TablesGoOn, TablesStay
<1>7. CASE Hydrated(d, e, s)
  <2>1. PICK w \in Workflow, def \in Definition :
          d[w].status = "pending_definition" /\ e = HydrateWorkflow(d, w, def)
    BY <1>7 DEF Hydrated
  <2>2. PICK row : row = [d[w] EXCEPT !.status = "running", !.tasks = InsertTasks(def)]
    OBVIOUS
  <2>3. row \in Row /\ row.tasks = InsertTasks(def)
    BY <2>2, InsertTasksType DEF Database, Row, WorkflowStatus, ActiveStatus
  <2>4. e[w] = ActivateNext(row) /\ \A x \in Workflow \ {w} : e[x] = d[x]
    BY <2>1, <2>2 DEF HydrateWorkflow, Database
  <2>5. Undefined(d[w])
    BY <2>1 DEF Undefined
  <2>6. RowGoesOn(d[w], e[w]) /\ RowStays(d[w], e[w])
    BY <1>3, <2>3, <2>4, <2>5
  <2>7. QED
    BY <1>1, <2>4, <2>6 DEF TablesGoOn, TablesStay
<1>8. CASE NewChild(d, e, s)
  <2>1. PICK p \in Workflow, c \in Workflow, k \in Pos, def \in Definition :
          /\ d[p].status # "none" /\ d[c].status = "none"
          /\ d[p].tasks[k].status = "running"
          /\ e = CreateSubworkflow(d, p, k, c, s, def)
    BY <1>8 DEF NewChild, Live, IsActive, ActiveStatus
  <2>2. /\ e[c] = NewRow(s, p, def) /\ e[p] = LinkChild(d[p], k, c)
        /\ \A x \in Workflow \ {c, p} : e[x] = d[x]
    BY <2>1 DEF CreateSubworkflow, Database
  <2>3. LinkChild(d[p], k, c).tasks = [d[p].tasks EXCEPT ![k] =
          [d[p].tasks[k] EXCEPT !.child = c, !.status = "waiting_subworkflow"]]
    BY <1>0 DEF LinkChild, Row
  <2>4. \A j \in Pos : e[p].tasks[j] = d[p].tasks[j] \/
          /\ e[p].tasks[j].status = "waiting_subworkflow"
          /\ e[p].tasks[j].checkpoint = d[p].tasks[j].checkpoint
          /\ d[p].tasks[j].status = "running"
    <3>1. d[p].tasks \in [Pos -> Task] /\ d[p].tasks[k] \in Task
      BY <1>0 DEF Row
    <3>2. QED
      BY <2>1, <2>2, <2>3, <3>1 DEF Task
  <2>5. RowGoesOn(d[p], e[p]) /\ RowStays(d[p], e[p])
    <3>1. ASSUME NEW j \in Pos
          PROVE  GoesOn(d[p].tasks[j], e[p].tasks[j]) /\ Stays(d[p].tasks[j], e[p].tasks[j])
      <4>1. CASE e[p].tasks[j] = d[p].tasks[j]
        BY <1>0, <4>1, TaskRemains
      <4>2. CASE e[p].tasks[j] # d[p].tasks[j]
        BY <2>4, <4>2 DEF GoesOn, Keeping, Stays, Awaits, Fresh
      <4>3. QED
        BY <4>1, <4>2
    <3>2. QED
      BY <3>1 DEF RowGoesOn, RowStays
  <2>6. RowGoesOn(d[c], e[c]) /\ RowStays(d[c], e[c])
    BY <1>4, <2>1, <2>2
  <2>7. QED
    BY <1>1, <2>2, <2>5, <2>6 DEF TablesGoOn, TablesStay
<1>9. ASSUME NEW w \in Workflow, IsActive(d, w), NEW n \in Row, InOrder(n),
             RowGoesOn(d[w], n), RowStays(d[w], n), e = Update(d, w, n)
      PROVE  TablesGoOn(d, e) /\ TablesStay(d, e)
  <2>1. e[w] = n /\ \A x \in Workflow \ {w} : RowGoesOn(d[x], e[x]) /\ RowStays(d[x], e[x])
    BY <1>9, UpdateGoesOn
  <2>2. QED
    BY <1>9, <2>1 DEF TablesGoOn, TablesStay
<1>10. CASE Evaluated(d, e)
  <2>1. PICK w \in Workflow, k \in Pos, outcome \in Outcome :
          /\ IsActive(d, w) /\ IsCurrent(d[w], k)
          /\ d[w].tasks[k].type = "evaluate" \/ d[w].tasks[k].status = "evaluating"
          /\ outcome = "retry" => d[w].tasks[k].attempts < AttemptBound
          /\ e = EvaluateTask(d, w, k, outcome)
    BY <1>10 DEF Evaluated
  <2>2. /\ Stands(d[w], k) /\ d[w] \in Row /\ d[w].status # "none"
        /\ d[w].tasks[k].type \in TaskType /\ \A j \in Pos : Fresh(d[w].tasks[j])
    BY <1>0, <2>1, ActiveStands DEF IsActive, ActiveStatus, Row, Task
  <2>3. ~Awaits(d[w].tasks[k])
    BY <2>1 DEF Awaits
  <2>4. CASE outcome = "accept"
    <3>1. AcceptTask(d[w], k) \in Row /\ InOrder(AcceptTask(d[w], k))
      BY <2>2, AcceptTaskKeeps, AcceptedInOrder DEF Keeps
    <3>2. RowGoesOn(d[w], AcceptTask(d[w], k)) /\ RowStays(d[w], AcceptTask(d[w], k))
      BY <2>2, <2>3, AcceptGoesOn DEF RowStays
    <3>3. QED
      BY <1>9, <2>1, <2>4, <3>1, <3>2 DEF EvaluateTask
  <2>5. CASE outcome = "retry"
    <3> DEFINE n == RetryTask(d[w], k)
    <3>1. n \in Row /\ e = Update(d, w, n)
      BY <2>1, <2>2, <2>5, RetryTaskKeeps DEF Keeps, EvaluateTask
    <3>2. /\ SameTasks(d[w], n)
          /\ \A j \in Pos \ {k} : /\ n.tasks[j].status = d[w].tasks[j].status
                                  /\ n.tasks[j].child = d[w].tasks[j].child
          /\ \/ /\ n.status = "failed" /\ n.tasks[k].status = "failed"
                /\ n.tasks[k].child = d[w].tasks[k].child
             \/ /\ n.status = Activated(d[w].tasks[k].type)
                /\ n.tasks[k].status = Activated(d[w].tasks[k].type)
                /\ n.tasks[k].child = IF d[w].tasks[k].type = "workflow" THEN NoWorkflow
                                      ELSE d[w].tasks[k].child
      BY <2>1, <2>2, <2>5, RetryTaskTasks
    <3>3. RowGoesOn(d[w], n) /\ RowStays(d[w], n)
      BY <2>2, <2>3, RetryGoesOn
    <3> HIDE DEF n
    <3>4. InOrder(n)
      BY <2>2, <3>2, FailedInOrder, AgainInOrder
    <3>5. QED
      BY <1>9, <2>1, <3>1, <3>3, <3>4
  <2>6. CASE outcome = "fail"
    <3> DEFINE n == Mark(d[w], k, "failed", "failed")
    <3>0. "failed" \in TaskStatus /\ "failed" \in WorkflowStatus \ {"none"}
      BY DEF TaskStatus, WorkflowStatus, TerminalStatus
    <3>1. n \in Row /\ e = Update(d, w, n)
      BY <2>1, <2>2, <2>6, <3>0, MarkKeeps DEF Keeps, EvaluateTask
    <3>2. /\ SameTasks(d[w], n) /\ n.tasks[k].status = "failed" /\ n.status = "failed"
          /\ \A j \in Pos \ {k} : n.tasks[j].status = d[w].tasks[j].status
          /\ \A j \in Pos : n.tasks[j].child = d[w].tasks[j].child
      BY <2>2, <3>0, MarkType, MarkTasks
    <3>3. RowGoesOn(d[w], n) /\ RowStays(d[w], n)
      BY <2>2, <2>3, MarkGoesOn DEF RowStays
    <3> HIDE DEF n
    <3>4. InOrder(n)
      BY <2>2, <3>2, FailedInOrder
    <3>5. QED
      BY <1>9, <2>1, <3>1, <3>3, <3>4
  <2>7. QED
    BY <2>4, <2>5, <2>6 DEF Outcome
<1>11. CASE Cancelled(d, e)
  <2>1. PICK w \in Workflow : IsActive(d, w) /\ e = CancelWorkflow(d, w)
    BY <1>11 DEF Cancelled
  <2>2. PICK row : row = [d[w] EXCEPT !.status = "cancelled"]
    OBVIOUS
  <2>3. row \in Row /\ row.status = "cancelled" /\ row.tasks = d[w].tasks
    BY <2>2 DEF Database, Row, WorkflowStatus, TerminalStatus
  <2>4. InOrder(row)
    BY <1>0, <2>1, <2>3, CancelledInOrder DEF IsActive
  <2>5. RowGoesOn(d[w], row) /\ RowStays(d[w], row)
    BY <1>0, <2>3, TaskRemains DEF RowGoesOn, RowStays
  <2>6. QED
    BY <1>9, <2>1, <2>2, <2>3, <2>4, <2>5 DEF CancelWorkflow
<1>12. CASE Dropped(d, e)
  <2>1. \A x \in Workflow : e[x].tasks = d[x].tasks
    BY <1>12 DEF Dropped, Database, Row
  <2>2. QED
    BY <1>2, <2>1
<1>13. CASE Adopted(d, e, s)
  <2>1. \A x \in Workflow : e[x].tasks = d[x].tasks
    BY <1>13 DEF Adopted, AdoptTree, Database, Row
  <2>2. QED
    BY <1>2, <2>1
<1>14. CASE e = d
  BY <1>2, <1>14
<1>15. QED
  BY <1>5, <1>6, <1>7, <1>8, <1>10, <1>11, <1>12, <1>13, <1>14 DEF Quiet

(* A question that is put back keeps its attempts and its checkpoint.      *)
LEMMA RestoreKeeping ==
  ASSUME NEW d \in Database, AllFresh(d), NEW w \in Workflow, NEW k \in Pos,
         NEW e, e = RestoreTask(d, w, k)
  PROVE  \A x \in Workflow, j \in Pos :
            /\ Keeping(d[x].tasks[j], e[x].tasks[j])
            /\ Stays(d[x].tasks[j], e[x].tasks[j])
<1> DEFINE to == Activated(d[w].tasks[k].type)
           row == IF d[w].tasks[k].status = "evaluating"
                  THEN Mark(d[w], k, to, d[w].status) ELSE d[w]
<1>1. d[w] \in Row /\ \A j \in Pos : d[w].tasks[j] \in Task /\ Fresh(d[w].tasks[j])
  BY DEF Database, Row, AllFresh
<1>2. Mark(d[w], k, to, d[w].status).tasks =
        [d[w].tasks EXCEPT ![k] = [d[w].tasks[k] EXCEPT !.status = to]]
  BY <1>1 DEF Mark, Row
<1>3. e[w].tasks = row.tasks /\ \A x \in Workflow \ {w} : e[x] = d[x]
  <2>1. row \in [status : {row.status}, parent : {row.parent}, session : {row.session},
                 tasks : {row.tasks}]
    BY <1>1 DEF Mark, Row
  <2>2. e = [d EXCEPT ![w] = [row EXCEPT !.status = IF row.status = "evaluating" THEN to
                                                    ELSE row.status]]
    BY DEF RestoreTask
  <2> HIDE DEF row
  <2>3. QED
    BY <2>1, <2>2 DEF Database
<1>4. \A j \in Pos : \/ e[w].tasks[j] = d[w].tasks[j]
                     \/ /\ d[w].tasks[j].status = "evaluating"
                        /\ e[w].tasks[j] = [d[w].tasks[j] EXCEPT !.status = to]
  BY <1>1, <1>2, <1>3 DEF Row
<1>5. ASSUME NEW j \in Pos
      PROVE  Keeping(d[w].tasks[j], e[w].tasks[j]) /\ Stays(d[w].tasks[j], e[w].tasks[j])
  <2>1. to \in {"awaiting_user", "running"}
    BY DEF Activated
  <2> HIDE DEF to
  <2>2. CASE e[w].tasks[j] = d[w].tasks[j]
    BY <1>1, <2>2, TaskRemains DEF GoesOn
  <2>3. CASE /\ d[w].tasks[j].status = "evaluating"
             /\ e[w].tasks[j] = [d[w].tasks[j] EXCEPT !.status = to]
    BY <1>1, <2>1, <2>3 DEF Keeping, Fresh, Stays, Awaits, Task
  <2>4. QED
    BY <1>4, <2>2, <2>3
<1>6. \A x \in Workflow \ {w}, j \in Pos :
         Keeping(d[x].tasks[j], e[x].tasks[j]) /\ Stays(d[x].tasks[j], e[x].tasks[j])
  BY <1>3, TaskRemains DEF GoesOn, AllFresh
<1>7. QED
  BY <1>5, <1>6

(* A recorded result answers its own task and no other.                    *)
LEMMA RecordGoesOn ==
  ASSUME NEW d \in Database, AllInOrder(d), AllFresh(d), NEW w \in Workflow, NEW k \in Pos,
         IsActive(d, w), IsCurrent(d[w], k), d[w].tasks[k].type \in {"action", "collect"},
         NEW e, e = RecordResult(d, w, k)
  PROVE  /\ TablesGoOn(d, e)
         /\ \A x \in Workflow, j \in Pos :
              (x = w /\ j = k) \/ Stays(d[x].tasks[j], e[x].tasks[j])
<1>0. /\ Stands(d[w], k) /\ d[w] \in Row /\ d[w].status # "none"
      /\ \A j \in Pos : Fresh(d[w].tasks[j])
  <2>1. d[w] \in Row /\ InOrder(d[w]) /\ \A j \in Pos : Fresh(d[w].tasks[j])
    BY DEF AllInOrder, AllFresh, Database
  <2>2. QED
    BY <2>1, ActiveStands DEF IsActive, ActiveStatus
<1>1. ASSUME NEW n \in Row, InOrder(n), RowGoesOn(d[w], n), e = Update(d, w, n),
             \A j \in Pos \ {k} : Stays(d[w].tasks[j], n.tasks[j])
      PROVE  /\ TablesGoOn(d, e)
             /\ \A x \in Workflow, j \in Pos :
                  (x = w /\ j = k) \/ Stays(d[x].tasks[j], e[x].tasks[j])
  BY <1>1, UpdateGoesOn DEF TablesGoOn, RowStays
<1>2. CASE d[w].tasks[k].criteria
  <2> DEFINE n == Mark(d[w], k, "evaluating", "evaluating")
  <2>1. n \in Row
    BY <1>0, MarkType DEF TaskStatus, FrontStatus, WorkflowStatus, ActiveStatus
  <2>2. InOrder(n)
    BY <1>0, EvaluatingInOrder
  <2>3. RowGoesOn(d[w], n) /\ \A j \in Pos \ {k} : Stays(d[w].tasks[j], n.tasks[j])
    BY <1>0, MarkGoesOn
  <2>4. e = Update(d, w, n)
    BY <1>2 DEF RecordResult
  <2> HIDE DEF n
  <2>5. QED
    BY <1>1, <2>1, <2>2, <2>3, <2>4
<1>3. CASE ~d[w].tasks[k].criteria
  <2> DEFINE n == AcceptTask(d[w], k)
  <2>1. n \in Row /\ InOrder(n)
    BY <1>0, AcceptTaskKeeps, AcceptedInOrder DEF Keeps
  <2>2. RowGoesOn(d[w], n) /\ \A j \in Pos \ {k} : Stays(d[w].tasks[j], n.tasks[j])
    BY <1>0, AcceptGoesOn
  <2>3. e = Update(d, w, n)
    BY <1>3 DEF RecordResult
  <2> HIDE DEF n
  <2>4. QED
    BY <1>1, <2>1, <2>2, <2>3
<1>4. QED
  BY <1>2, <1>3

-----------------------------------------------------------------------------
(* Definition 6.  What a transaction of s that leaves database d does to   *)
(* every task: a question that is put back blocks s, and a Collect stops   *)
(* awaiting its user only for a reply of s.                                *)
Turns(t, u, s) ==
  Keeping(t, u) /\ (Awaits(u) /\ Begins(t, u) => u.checkpoint = NoRow \/ s \in blocked')
Replied(s, x, j) ==
  \/ InFocus(s, x) /\ s \notin blocked /\ NewReply(s, db[x].tasks[j])
  \/ input[s].phase = "read" /\ input'[s].phase = "recorded" /\ input[s].w = x
Takes(s, d) ==
  /\ d \in Database
  /\ \A x \in Workflow, j \in Pos :
       /\ Turns(db[x].tasks[j], d[x].tasks[j], s)
       /\ Stays(db[x].tasks[j], d[x].tasks[j]) \/ Replied(s, x, j)
Ready == BaseInv /\ AllInOrder(db) /\ AllFresh(db)

LEMMA QuietTakes ==
  ASSUME Ready, NEW s \in Session, NEW d, Quiet(db, d, s)
  PROVE  Takes(s, d)
<1>1. db \in Database
  BY DEF Ready, BaseInv, TypeInv
<1>2. d \in Database
  BY <1>1, MoveType DEF Quiet, Move
<1>3. TablesGoOn(db, d) /\ TablesStay(db, d)
  BY <1>1, QuietGoesOn DEF Ready
<1>4. QED
  BY <1>2, <1>3 DEF Takes, Turns, TablesGoOn, TablesStay, RowGoesOn, RowStays, GoesOn

(* A Collect result by a tool call, judged in the same transaction or not. *)
LEMMA RecordTakes ==
  ASSUME Ready, NEW s \in Session, NEW w \in Workflow, NEW k \in Pos, NEW v \in Verdict,
         InFocus(s, w), IsCurrent(db[w], k), s \notin blocked,
         db[w].tasks[k].type \in {"action", "collect"},
         db[w].tasks[k].type = "collect" => NewReply(s, db[w].tasks[k]),
         db[w].tasks[k].status # "evaluating",
         IF db[w].tasks[k].criteria THEN MayJudge(v) /\ MayEvaluate(w, k, v) ELSE v = "none",
         BlockIfUnresolved(s, v)
  PROVE  Takes(s, Judge(RecordResult(db, w, k), w, k, v))
<1> DEFINE m == RecordResult(db, w, k)
           e == Judge(m, w, k, v)
<1>0. db \in Database /\ IsActive(db, w) /\ AllInOrder(db) /\ AllFresh(db)
  BY DEF Ready, BaseInv, TypeInv, InFocus, OnTop, Live
<1>1. Move(db, m, s)
  BY <1>0 DEF Move, Recorded
<1>2. m \in Database /\ AllInOrder(m)
  BY <1>0, <1>1, MoveType, MoveInOrder
<1>3. /\ TablesGoOn(db, m)
      /\ \A x \in Workflow, j \in Pos :
           (x = w /\ j = k) \/ Stays(db[x].tasks[j], m[x].tasks[j])
  BY <1>0, RecordGoesOn
<1>4. AllFresh(m)
  BY <1>3 DEF AllFresh, TablesGoOn, RowGoesOn, GoesOn, Keeping
<1>5. ASSUME NEW x \in Workflow, NEW j \in Pos
      PROVE  Stays(db[x].tasks[j], m[x].tasks[j]) \/ Replied(s, x, j)
  BY <1>3 DEF Replied, Stays, Awaits
<1>6. CASE v = "none"
  <2>1. e = m
    BY <1>6 DEF Judge, Outcome
  <2>2. QED
    BY <1>2, <1>3, <1>5, <2>1 DEF Takes, Turns, TablesGoOn, RowGoesOn, GoesOn
<1>7. CASE v # "none"
  <2>1. db[w].tasks[k].criteria /\ MayEvaluate(w, k, v)
    BY <1>7
  <2>2. /\ IsActive(m, w) /\ IsCurrent(m[w], k) /\ m[w].tasks[k].status = "evaluating"
        /\ v = "retry" => m[w].tasks[k].attempts < AttemptBound
        /\ m[w].tasks[k].type \in {"action", "collect"}
        /\ m = [db EXCEPT ![w] = Mark(db[w], k, "evaluating", "evaluating")]
    BY <1>0, <2>1, RecordedAwaitsJudgement DEF MayEvaluate
  <2>3. /\ \A x \in Workflow \ {w} : m[x] = db[x]
        /\ m[w].tasks = [db[w].tasks EXCEPT ![k] = [db[w].tasks[k] EXCEPT !.status = "evaluating"]]
    BY <1>0, <2>2 DEF Mark, Database, Row
  <2>4. \A x \in Workflow, j \in Pos :
           \/ m[x].tasks[j] = db[x].tasks[j]
           \/ /\ x = w /\ j = k /\ m[x].tasks[j].status = "evaluating"
              /\ m[x].tasks[j].attempts = db[x].tasks[j].attempts
              /\ m[x].tasks[j].checkpoint = db[x].tasks[j].checkpoint
    <3>1. db[w].tasks \in [Pos -> Task]
      BY <1>0 DEF Database, Row
    <3>2. QED
      BY <2>3, <3>1 DEF Task
  <2>5. ASSUME e \in Database, \A x \in Workflow, j \in Pos :
                  Turns(m[x].tasks[j], e[x].tasks[j], s) /\ Stays(m[x].tasks[j], e[x].tasks[j])
        PROVE  Takes(s, e)
    <3>1. ASSUME NEW x \in Workflow, NEW j \in Pos
          PROVE  /\ Turns(db[x].tasks[j], e[x].tasks[j], s)
                 /\ Stays(db[x].tasks[j], e[x].tasks[j]) \/ Replied(s, x, j)
      <4>1. CASE m[x].tasks[j] = db[x].tasks[j]
        BY <2>5, <4>1
      <4>2. CASE /\ x = w /\ j = k /\ m[x].tasks[j].status = "evaluating"
                 /\ m[x].tasks[j].attempts = db[x].tasks[j].attempts
                 /\ m[x].tasks[j].checkpoint = db[x].tasks[j].checkpoint
        <5>1. Turns(db[x].tasks[j], e[x].tasks[j], s)
          BY <2>5, <4>2 DEF Turns, Keeping, Begins
        <5>2. Awaits(db[x].tasks[j]) => Replied(s, x, j)
          BY <4>2 DEF Replied, Awaits
        <5>3. QED
          BY <5>1, <5>2 DEF Stays
      <4>3. QED
        BY <2>4, <4>1, <4>2
    <3>2. QED
      BY <2>5, <3>1 DEF Takes
  <2>6. CASE v = "unresolved"
    <3>1. e = RestoreTask(m, w, k) /\ s \in blocked'
      BY <2>6 DEF Judge, Outcome, BlockIfUnresolved
    <3>2. e \in Database
      BY <1>2, <2>2, <3>1, MoveType DEF Move, Restored
    <3>3. \A x \in Workflow, j \in Pos :
            Keeping(m[x].tasks[j], e[x].tasks[j]) /\ Stays(m[x].tasks[j], e[x].tasks[j])
      BY <1>2, <1>4, <3>1, RestoreKeeping
    <3>4. QED
      BY <2>5, <3>1, <3>2, <3>3 DEF Turns
  <2>7. CASE v \in Outcome
    <3>1. e = EvaluateTask(m, w, k, v)
      BY <2>7 DEF Judge, Outcome
    <3>2. Quiet(m, e, s)
      BY <2>2, <2>7, <3>1 DEF Quiet, Evaluated
    <3>3. TablesGoOn(m, e) /\ TablesStay(m, e) /\ e \in Database
      BY <1>2, <1>4, <3>2, QuietGoesOn, MoveType DEF Quiet, Move
    <3>4. QED
      BY <2>5, <3>3 DEF Turns, TablesGoOn, TablesStay, RowGoesOn, RowStays, GoesOn
  <2>8. QED
    BY <1>7, <2>6, <2>7 DEF Verdict
<1>8. QED
  BY <1>6, <1>7

(* What a step of s does to the latest messages, the input handlers and the*)
(* blocks: a block is only released by a new message.                      *)
Advances(s) == /\ input[s].phase # "idle" /\ input'[s].phase \notin {"idle", "read"}
               /\ input'[s].w = input[s].w /\ input'[s].msg = input[s].msg
Silent(s) == /\ latest'[s] = latest[s] /\ said' = said /\ (s \in blocked => s \in blocked')
             /\ input'[s] = input[s] \/ Advances(s) \/ input'[s].phase = "idle"
Speaks(s) == /\ latest'[s] = said + 1 /\ said' = said + 1
             /\ input[s].phase = "idle" /\ input'[s] = input[s]
Hears(s) == /\ UNCHANGED <<db, asked>> /\ said' = said + 1
            /\ latest'[s] \in {latest[s], said + 1} /\ (s \in blocked => s \in blocked')
            /\ input'[s].phase = "read" /\ input'[s].msg = said + 1
Finishes(s) == /\ UNCHANGED <<db, asked>> /\ said' = said /\ (s \in blocked => s \in blocked')
               /\ input[s].phase # "idle" /\ latest'[s] = input[s].msg /\ input'[s].phase = "idle"
HostStep(s) ==
  /\ \A t \in Session \ {s} : /\ latest'[t] = latest[t] /\ input'[t] = input[t]
                              /\ t \in blocked => t \in blocked'
  /\ Silent(s) \/ Speaks(s) \/ Hears(s) \/ Finishes(s)

LEMMA StepOfHost ==
  ASSUME TypeInv, NEW s \in Session, Agent(s) \/ User(s) \/ Handler(s) \/ Restart(s)
  PROVE  HostStep(s)
<1>0. /\ latest \in [Session -> 0..MaxMessages] /\ blocked \in SUBSET Session
      /\ input \in [Session -> Busy \cup {IdleInput}] /\ said \in Nat
  BY DEF TypeInv, HostTypeOK
<1>1. ASSUME UNCHANGED <<said, latest, input>>, blocked' = blocked \/ blocked' = blocked \cup {s}
      PROVE  HostStep(s)
  BY <1>0, <1>1 DEF HostStep, Silent
<1>2. ASSUME Submit(s), ToBranch(s), UNCHANGED input,
             \A t \in Session \ {s} : t \in blocked => t \in blocked'
      PROVE  HostStep(s)
  BY <1>0, <1>2 DEF HostStep, Speaks, Submit, ToBranch, Idle
<1>3. ASSUME NEW phase \in {"recorded", "settled"}, To(s, phase), input[s].phase # "idle",
             UNCHANGED <<said, latest>>, blocked' = blocked \/ blocked' = blocked \cup {s}
      PROVE  HostStep(s)
  <2>1. input[s] \in Busy
    BY <1>0, <1>3 DEF IdleInput
  <2>2. /\ input'[s] = [input[s] EXCEPT !.phase = phase]
        /\ \A t \in Session \ {s} : input'[t] = input[t]
    BY <1>0, <1>3 DEF To
  <2>3. Advances(s)
    BY <1>3, <2>1, <2>2 DEF Advances, Busy
  <2>4. QED
    BY <1>0, <1>3, <2>2, <2>3 DEF HostStep, Silent
<1>4. CASE Agent(s)
  <2>1. UNCHANGED <<said, latest, input>>
    BY <1>4 DEF Agent, CreateRoot, CreateSub, Record, Evaluate, SkillRequirement
  <2>2. blocked' = blocked \/ blocked' = blocked \cup {s}
    BY <1>4 DEF Agent, CreateRoot, CreateSub, Record, Evaluate, SkillRequirement, BlockIfUnresolved
  <2>3. QED
    BY <1>1, <2>1, <2>2
<1>5. CASE Cancel(s) \/ Status(s) \/ Suspend(s) \/ FocusOn(s) \/ Adopt(s)
  BY <1>1, <1>5 DEF Cancel, Status, Suspend, FocusOn, Adopt
<1>6. CASE InputPlain(s)
  BY <1>2, <1>6 DEF InputPlain
<1>7. CASE InputOverride(s)
  BY <1>2, <1>7 DEF InputOverride
<1>8. CASE InputRequirement(s)
  BY <1>2, <1>8 DEF InputRequirement
<1>9. CASE InputRead(s)
  <2>1. PICK w \in Workflow, k \in Pos :
          input' = [input EXCEPT ![s] = [phase |-> "read", w |-> w, k |-> k, msg |-> said + 1]]
    BY <1>9 DEF InputRead
  <2>2. /\ input'[s].phase = "read" /\ input'[s].msg = said + 1
        /\ \A t \in Session \ {s} : input'[t] = input[t]
    BY <1>0, <2>1
  <2>3. said' = said + 1 /\ UNCHANGED <<db, blocked, asked>>
    BY <1>9 DEF InputRead, Submit
  <2>4. latest' = latest \/ latest' = [latest EXCEPT ![s] = said + 1]
    BY <1>9 DEF InputRead, ToBranch
  <2>5. latest'[s] \in {latest[s], said + 1} /\ \A t \in Session \ {s} : latest'[t] = latest[t]
    BY <1>0, <2>4
  <2>6. QED
    BY <2>2, <2>3, <2>5 DEF HostStep, Hears
<1>10. CASE InputRecord(s)
  BY <1>3, <1>10 DEF InputRecord
<1>11. CASE InputEvaluate(s)
  <2>1. To(s, "settled") /\ input[s].phase # "idle" /\ UNCHANGED <<said, latest>>
    BY <1>11 DEF InputEvaluate
  <2>2. blocked' = blocked \/ blocked' = blocked \cup {s}
    BY <1>11 DEF InputEvaluate, BlockIfUnresolved
  <2>3. QED
    BY <1>3, <2>1, <2>2
<1>12. CASE InputSettle(s)
  <2>1. /\ latest'[s] = input[s].msg /\ \A t \in Session \ {s} : latest'[t] = latest[t]
        /\ input'[s] = IdleInput /\ \A t \in Session \ {s} : input'[t] = input[t]
        /\ input[s].phase # "idle" /\ UNCHANGED <<db, asked, said, blocked>>
    BY <1>0, <1>12 DEF InputSettle
  <2>2. QED
    BY <2>1 DEF HostStep, Finishes, IdleInput
<1>13. CASE Restart(s)
  <2>1. /\ input'[s] = IdleInput /\ \A t \in Session \ {s} : input'[t] = input[t]
        /\ UNCHANGED <<latest, said, blocked>>
    BY <1>0, <1>13 DEF Restart
  <2>2. QED
    BY <2>1 DEF HostStep, Silent, IdleInput
<1>14. QED
  BY <1>4, <1>5, <1>6, <1>7, <1>8, <1>9, <1>10, <1>11, <1>12, <1>13 DEF User, Handler

(* Every step is such a transaction or leaves the tables alone.            *)
Committed(s) == \E d, stack : Commit(s, d, stack) /\ Takes(s, d)

LEMMA QuietCommits ==
  ASSUME Ready, NEW s \in Session, NEW d, NEW stack, Quiet(db, d, s), Commit(s, d, stack)
  PROVE  Committed(s)
  BY QuietTakes DEF Committed

LEMMA AgentCommits ==
  ASSUME Ready, NEW s \in Session, Agent(s)
  PROVE  Committed(s)
<1>1. ASSUME NEW def \in Definition, NEW via \in Creation, CreateRoot(s, def, via)
      PROVE  Committed(s)
  <2>1. CASE \E w \in Workflow : Unused(w) /\
               Commit(s, CreateRootWorkflow(db, w, s, def), Append(saved[s], w))
    BY <2>1, QuietCommits DEF Quiet, NewRoot, Unused
  <2>2. CASE \E w \in Workflow : Pending(s, w) /\ Commit(s, HydrateWorkflow(db, w, def), saved[s])
    BY <2>2, QuietCommits DEF Quiet, Hydrated, Pending, InFocus, OnTop
  <2>3. QED
    BY <1>1, <2>1, <2>2 DEF CreateRoot, Supplies
<1>2. ASSUME NEW def \in Definition, CreateSub(s, def)
      PROVE  Committed(s)
  <2>1. PICK p \in Workflow, c \in Workflow, k \in Pos :
       /\ InFocus(s, p) /\ IsCurrent(db[p], k)
       /\ db[p].tasks[k].type = "workflow" /\ db[p].tasks[k].status = "running"
       /\ db[p].tasks[k].child = NoWorkflow
       /\ Unused(c)
       /\ Commit(s, CreateSubworkflow(db, p, k, c, s, def), Append(saved[s], c))
    BY <1>2 DEF CreateSub
  <2>2. NewChild(db, CreateSubworkflow(db, p, k, c, s, def), s)
    BY <2>1 DEF NewChild, InFocus, OnTop, Unused
  <2>3. QED
    BY <2>1, <2>2, QuietCommits DEF Quiet
<1>3. CASE Record(s)
  <2>1. PICK w \in Workflow, k \in Pos, v \in Verdict :
       /\ InFocus(s, w) /\ IsCurrent(db[w], k)
       /\ db[w].tasks[k].type \in {"action", "collect"}
       /\ db[w].tasks[k].type = "collect" => NewReply(s, db[w].tasks[k])
       /\ db[w].tasks[k].status # "evaluating"
       /\ IF db[w].tasks[k].criteria THEN MayJudge(v) /\ MayEvaluate(w, k, v) ELSE v = "none"
       /\ Commit(s, Judge(RecordResult(db, w, k), w, k, v), saved[s])
       /\ BlockIfUnresolved(s, v)
    BY <1>3 DEF Record
  <2>2. s \notin blocked
    BY <1>3 DEF Record, Callable
  <2>3. Takes(s, Judge(RecordResult(db, w, k), w, k, v))
    BY <2>1, <2>2, RecordTakes
  <2>4. QED
    BY <2>1, <2>3 DEF Committed
<1>4. CASE Evaluate(s)
  <2>1. PICK w \in Workflow, k \in Pos, outcome \in Outcome :
       /\ InFocus(s, w) /\ IsCurrent(db[w], k)
       /\ db[w].tasks[k].type = "evaluate" \/ db[w].tasks[k].status = "evaluating"
       /\ MayEvaluate(w, k, outcome)
       /\ Commit(s, EvaluateTask(db, w, k, outcome), saved[s])
    BY <1>4 DEF Evaluate
  <2>2. Evaluated(db, EvaluateTask(db, w, k, outcome))
    BY <2>1 DEF Evaluated, InFocus, OnTop, Live, MayEvaluate
  <2>3. QED
    BY <2>1, <2>2, QuietCommits DEF Quiet
<1>5. ASSUME NEW a, StartDefinition(s, a)
      PROVE  Committed(s)
  BY <1>5, QuietCommits DEF StartDefinition, Quiet, NewPending, Unused
<1>6. CASE SkillRequirement(s)
  BY <1>5, <1>6, QuietCommits DEF SkillRequirement, Quiet
<1>7. QED
  BY <1>1, <1>2, <1>3, <1>4, <1>6 DEF Agent

LEMMA UserCommits ==
  ASSUME Ready, NEW s \in Session, User(s)
  PROVE  Committed(s) \/ UNCHANGED <<db, asked>>
<1>1. CASE Cancel(s)
  BY <1>1, QuietCommits DEF Cancel, Quiet, Cancelled
<1>2. CASE Status(s) \/ Suspend(s) \/ FocusOn(s)
  BY <1>2, QuietCommits DEF Status, Suspend, FocusOn, Quiet
<1>3. CASE Adopt(s)
  <2>1. PICK p \in Paths : /\ IsActive(db, p[1]) /\ db[p[1]].parent = NoWorkflow
                           /\ Commit(s, AdoptTree(db, p[1], s), p)
    BY <1>3 DEF Adopt
  <2>2. p[1] \in Workflow
    BY DEF Paths
  <2>3. QED
    BY <2>1, <2>2, QuietCommits DEF Quiet, Adopted
<1>4. CASE InputPlain(s) \/ InputRead(s)
  BY <1>4 DEF InputPlain, InputRead
<1>5. CASE InputOverride(s)
  BY <1>5, QuietCommits DEF InputOverride, Pending, Quiet, Dropped
<1>6. CASE InputRequirement(s)
  <2>1. ASSUME NEW a, StartDefinition(s, a)
        PROVE  Committed(s)
    BY <2>1, QuietCommits DEF StartDefinition, Quiet, NewPending, Unused
  <2>2. QED
    BY <1>6, <2>1, QuietCommits DEF InputRequirement, Quiet
<1>7. QED
  BY <1>1, <1>2, <1>3, <1>4, <1>5, <1>6 DEF User

LEMMA HandlerCommits ==
  ASSUME Ready, NEW s \in Session, Handler(s)
  PROVE  Committed(s) \/ UNCHANGED <<db, asked>>
<1>0. TypeInv /\ HandlersAnswerCollect /\ db \in Database /\ AllInOrder(db) /\ AllFresh(db)
  BY DEF Ready, BaseInv, TypeInv
<1>1. input \in [Session -> Busy \cup {IdleInput}] /\ input[s] \in Busy \cup {IdleInput}
  BY <1>0 DEF TypeInv, HostTypeOK
<1>2. CASE InputRecord(s)
  <2>1. input[s].phase = "read" /\ input[s].w \in Workflow /\ input[s] \in Busy
    BY <1>1, <1>2 DEF InputRecord, Busy, IdleInput
  <2>2. ASSUME NEW k \in Pos, CanRecord(input[s].w, k), To(s, "recorded"),
               Commit(s, RecordResult(db, input[s].w, k), saved[s])
        PROVE  Committed(s)
    <3> DEFINE w == input[s].w
               d == RecordResult(db, w, k)
    <3>1. /\ IsActive(db, w) /\ IsCurrent(db[w], k) /\ db[w].tasks[k].type = "collect"
          /\ db[w].tasks[k].status # "evaluating"
      BY <2>2 DEF CanRecord
    <3>2. d \in Database
      BY <1>0, <2>1, <3>1, MoveType DEF Move, Recorded
    <3>3. /\ TablesGoOn(db, d)
          /\ \A x \in Workflow, j \in Pos :
               (x = w /\ j = k) \/ Stays(db[x].tasks[j], d[x].tasks[j])
      BY <1>0, <2>1, <3>1, RecordGoesOn
    <3>4. input'[s].phase = "recorded"
      BY <1>1, <2>1, <2>2 DEF To, Busy
    <3> HIDE DEF d
    <3>5. Takes(s, d)
      BY <2>1, <3>2, <3>3, <3>4 DEF Takes, Turns, Replied, TablesGoOn, RowGoesOn, GoesOn
    <3>6. QED
      BY <2>2, <3>5 DEF Committed, d
  <2>3. QED
    BY <1>2, <2>2 DEF InputRecord
<1>3. CASE InputEvaluate(s)
  <2> DEFINE w == input[s].w
             k == input[s].k
  <2>1. w \in Workflow /\ k \in Pos /\ db[w].tasks[k].type = "collect"
    <3>1. input[s].phase = "recorded"
      BY <1>3 DEF InputEvaluate
    <3>2. input[s] \in Busy
      BY <1>1, <3>1 DEF IdleInput
    <3>3. QED
      BY <1>0, <3>1, <3>2 DEF Busy, HandlersAnswerCollect
  <2>2. CASE Commit(s, db, saved[s])
    BY <2>2, QuietCommits DEF Quiet
  <2>3. ASSUME IsCurrent(db[w], k), NEW v \in Verdict, MayEvaluate(w, k, v),
               v \in Outcome => (IsActive(db, w) /\ db[w].tasks[k].status = "evaluating"),
               Commit(s, Judge(db, w, k, v), saved[s]), BlockIfUnresolved(s, v)
        PROVE  Committed(s)
    <3>1. CASE v = "none"
      <4>1. Judge(db, w, k, v) = db
        BY <3>1 DEF Judge, Outcome
      <4>2. QED
        BY <2>3, <4>1, QuietCommits DEF Quiet
    <3>2. CASE v = "unresolved"
      <4>1. Judge(db, w, k, v) = RestoreTask(db, w, k) /\ s \in blocked'
        BY <2>3, <3>2 DEF Judge, Outcome, BlockIfUnresolved
      <4>2. Judge(db, w, k, v) \in Database
        BY <1>0, <2>1, <2>3, <4>1, MoveType DEF Move, Restored
      <4>3. \A x \in Workflow, j \in Pos :
              /\ Keeping(db[x].tasks[j], Judge(db, w, k, v)[x].tasks[j])
              /\ Stays(db[x].tasks[j], Judge(db, w, k, v)[x].tasks[j])
        BY <1>0, <2>1, <4>1, RestoreKeeping
      <4>4. Takes(s, Judge(db, w, k, v))
        BY <4>1, <4>2, <4>3 DEF Takes, Turns
      <4>5. QED
        BY <2>3, <4>4 DEF Committed
    <3>3. CASE v \in Outcome
      <4>1. Judge(db, w, k, v) = EvaluateTask(db, w, k, v)
        BY <3>3 DEF Judge, Outcome
      <4>2. Quiet(db, Judge(db, w, k, v), s)
        BY <2>1, <2>3, <3>3, <4>1 DEF Quiet, Evaluated, MayEvaluate
      <4>3. QED
        BY <2>3, <4>2, QuietCommits
    <3>4. QED
      BY <2>3, <3>1, <3>2, <3>3 DEF Verdict
  <2>4. CASE UNCHANGED <<db, asked>>
    BY <2>4
  <2>5. QED
    BY <1>3, <2>2, <2>3, <2>4 DEF InputEvaluate
<1>4. CASE InputSettle(s)
  BY <1>4 DEF InputSettle
<1>5. QED
  BY <1>2, <1>3, <1>4 DEF Handler

-----------------------------------------------------------------------------
(* Definition 7.  Why an answer is new.  Messages are numbered as they are *)
(* submitted.  While a Collect waits and is not excused, its owner either  *)
(* has a newer message than the question, or cannot answer: it is blocked, *)
(* or the checkpoint is the message it has, and its handler holds no other *)
(* old message that might yet reach the branch; and no handler that read   *)
(* the workflow holds an old message.                                      *)
Numbered ==
  /\ \A w \in Workflow, k \in Pos : asked[w][k].at <= said
  /\ \A s \in Session : /\ latest[s] <= said
                        /\ input[s].phase # "idle" =>
                             input[s].msg <= said /\ latest[s] <= input[s].msg
Waits(w, k) == Awaits(db[w].tasks[k]) /\ ~asked[w][k].excused
OwnerIsHeld(w, k, s) ==
  /\ \/ latest[s] = 0 \/ s \in blocked
     \/ db[w].tasks[k].checkpoint = NoRow \/ db[w].tasks[k].checkpoint = latest[s]
  /\ input[s].phase # "idle" /\ input[s].msg <= asked[w][k].at => input[s].msg = latest[s]
OldMessagesAreHeld ==
  \A w \in Workflow, k \in Pos, s \in Session : Waits(w, k) =>
     /\ s = db[w].session /\ latest[s] <= asked[w][k].at => OwnerIsHeld(w, k, s)
     /\ input[s].phase = "read" /\ input[s].w = w => input[s].msg > asked[w][k].at
AnswerInv == Ready /\ Numbered /\ OldMessagesAreHeld

(* What a committed transaction leaves of one task.                        *)
Leaves(s, d, w, k) ==
  LET t == db[w].tasks[k]
      u == d[w].tasks[k]
      v == db'[w].tasks[k]
  IN  /\ v.type = u.type /\ v.status = u.status /\ v.attempts = u.attempts
      /\ v.checkpoint = u.checkpoint \/
           (u.checkpoint = NoRow /\ v.checkpoint = latest[s] /\ s = d[w].session)
      /\ db'[w].session = d[w].session
      /\ v.status \in {"pending", "absent"} => v.checkpoint = u.checkpoint
      /\ Begins(t, u) => asked'[w][k] =
           [at |-> said, excused |-> PutBack(s, d, w, k) \/ EchoExpected(d, w)]
      /\ ~Begins(t, u) => /\ asked'[w][k].at = asked[w][k].at
                          /\ ~asked'[w][k].excused =>
                               ~asked[w][k].excused /\ db[w].session = d[w].session

LEMMA CommitLeaves ==
  ASSUME BaseInv, NEW s \in Session, NEW d, NEW stack, Commit(s, d, stack), Takes(s, d),
         NEW w \in Workflow, NEW k \in Pos
  PROVE  Leaves(s, d, w, k)
<1>1. d \in Database /\ db' = Checkpoint(d, s, stack) /\ latest[s] \in Nat /\ asked' = Asks(s, d)
  BY DEF Takes, Commit, BaseInv, TypeInv, HostTypeOK
<1> DEFINE Remembered == /\ OnTop(d, s, stack, w) /\ IsCurrent(d[w], k)
                         /\ d[w].tasks[k].type = "collect"
                         /\ d[w].tasks[k].status = "awaiting_user"
                         /\ d[w].tasks[k].checkpoint = NoRow
           u == d[w].tasks[k]
           t == db[w].tasks[k]
<1>2. u \in Task /\ d[w] \in Row
  BY <1>1 DEF Database, Row
<1>3. db'[w].tasks[k] = IF Remembered THEN [u EXCEPT !.checkpoint = latest[s]] ELSE u
  BY <1>1, <1>2 DEF Checkpoint, Row
<1>4. db'[w].session = d[w].session
  BY <1>1, CheckpointType
<1>5. Remembered => s = d[w].session /\ u.checkpoint = NoRow /\ u.status = "awaiting_user"
  BY DEF OnTop, Live
<1>6. asked[w][k] \in [at : 0..MaxMessages, excused : BOOLEAN]
  BY DEF BaseInv, TypeInv, HostTypeOK
<1>7. asked'[w][k] = IF u.status = "awaiting_user" /\
                        (t.status # "awaiting_user" \/ t.attempts # u.attempts)
                     THEN [at |-> said, excused |-> PutBack(s, d, w, k) \/ EchoExpected(d, w)]
                     ELSE [asked[w][k] EXCEPT !.excused = asked[w][k].excused \/
                                                          db[w].session # d[w].session]
  BY <1>1 DEF Asks
<1> HIDE DEF Remembered
<1>8. LET v == db'[w].tasks[k]
      IN  /\ v.type = u.type /\ v.status = u.status /\ v.attempts = u.attempts
          /\ v.checkpoint = u.checkpoint \/
               (u.checkpoint = NoRow /\ v.checkpoint = latest[s] /\ s = d[w].session)
          /\ v.status \in {"pending", "absent"} => v.checkpoint = u.checkpoint
  BY <1>2, <1>3, <1>5 DEF Task
<1>9. Begins(t, u) => asked'[w][k] =
        [at |-> said, excused |-> PutBack(s, d, w, k) \/ EchoExpected(d, w)]
  BY <1>7 DEF Begins
<1>10. ~Begins(t, u) => asked'[w][k] = [asked[w][k] EXCEPT !.excused = asked[w][k].excused \/
                                                      db[w].session # d[w].session]
  BY <1>7 DEF Begins
<1>11. ~Begins(t, u) => /\ asked'[w][k].at = asked[w][k].at
                        /\ ~asked'[w][k].excused =>
                             ~asked[w][k].excused /\ db[w].session = d[w].session
  BY <1>6, <1>10
<1>12. QED
  BY <1>4, <1>8, <1>9, <1>11 DEF Leaves

LEMMA StepCommits ==
  ASSUME Ready, [Next]_vars
  PROVE  \/ \E s \in Session : HostStep(s) /\ (Committed(s) \/ UNCHANGED <<db, asked>>)
         \/ UNCHANGED vars
<1>1. TypeInv
  BY DEF Ready, BaseInv
<1>2. ASSUME NEW s \in Session, Agent(s) \/ User(s) \/ Handler(s) \/ Restart(s)
      PROVE  HostStep(s) /\ (Committed(s) \/ UNCHANGED <<db, asked>>)
  <2>1. Restart(s) => UNCHANGED <<db, asked>>
    BY DEF Restart
  <2>2. QED
    BY <1>1, <1>2, <2>1, StepOfHost, AgentCommits, UserCommits, HandlerCommits
<1>3. QED
  BY <1>2 DEF Next

(* The types of the numbers.                                               *)
LEMMA NumbersType ==
  ASSUME TypeInv
  PROVE  /\ said \in Nat
         /\ \A s \in Session : latest[s] \in Nat /\ input[s].msg \in Nat
         /\ \A w \in Workflow, k \in Pos : asked[w][k].at \in Nat
<1>1. \A s \in Session : input[s] \in Busy \cup {IdleInput}
  BY DEF TypeInv, HostTypeOK
<1>2. \A s \in Session : input[s].msg \in Nat
  BY <1>1 DEF Busy, IdleInput
<1>3. QED
  BY <1>2 DEF TypeInv, HostTypeOK

LEMMA StepFresh ==
  ASSUME Ready, [Next]_vars
  PROVE  Ready'
<1>1. BaseInv' /\ AllInOrder(db')
  BY StepBase, StepInOrder DEF Ready
<1>2. ASSUME NEW s \in Session, Committed(s), NEW w \in Workflow, NEW k \in Pos
      PROVE  Fresh(db'[w].tasks[k])
  <2>1. PICK d, stack : Commit(s, d, stack) /\ Takes(s, d)
    BY <1>2 DEF Committed
  <2>2. Fresh(d[w].tasks[k])
    BY <2>1 DEF Takes, Turns, Keeping
  <2>3. Leaves(s, d, w, k)
    BY <2>1, CommitLeaves DEF Ready
  <2>4. QED
    BY <2>2, <2>3 DEF Fresh, Leaves
<1>3. UNCHANGED db => AllFresh(db')
  BY DEF Ready
<1>4. AllFresh(db')
  BY <1>2, <1>3, StepCommits DEF vars, AllFresh
<1>5. QED
  BY <1>1, <1>4 DEF Ready, AllInOrder, AllFresh

LEMMA StepNumbered ==
  ASSUME Ready, Numbered, [Next]_vars
  PROVE  Numbered'
<1>1. TypeInv /\ BaseInv
  BY DEF Ready, BaseInv
<1>2. CASE UNCHANGED vars
  BY <1>2 DEF vars, Numbered
<1>3. ASSUME NEW s \in Session, HostStep(s), Committed(s) \/ UNCHANGED <<db, asked>>
      PROVE  Numbered'
  <2>1. said' \in {said, said + 1} /\ said \in Nat
    BY <1>1, <1>3, NumbersType DEF HostStep, Silent, Speaks, Hears, Finishes
  <2>2. ASSUME NEW w \in Workflow, NEW k \in Pos
        PROVE  asked'[w][k].at <= said'
    <3>1. asked[w][k].at \in Nat /\ asked[w][k].at <= said
      BY <1>1, NumbersType DEF Numbered
    <3>2. asked'[w][k].at \in {asked[w][k].at, said}
      <4>1. CASE Committed(s)
        <5>1. PICK d, stack : Commit(s, d, stack) /\ Takes(s, d)
          BY <4>1 DEF Committed
        <5>2. Leaves(s, d, w, k)
          BY <1>1, <5>1, CommitLeaves
        <5>3. QED
          BY <5>2 DEF Leaves
      <4>2. CASE UNCHANGED asked
        BY <4>2
      <4>3. QED
        BY <1>3, <4>1, <4>2
    <3>3. QED
      BY <2>1, <3>1, <3>2
  <2>3. ASSUME NEW t \in Session
        PROVE  /\ latest'[t] <= said'
               /\ input'[t].phase # "idle" =>
                    input'[t].msg <= said' /\ latest'[t] <= input'[t].msg
    <3>1. /\ latest[t] \in Nat /\ input[t].msg \in Nat /\ latest[t] <= said
          /\ input[t].phase # "idle" => input[t].msg <= said /\ latest[t] <= input[t].msg
      BY <1>1, NumbersType DEF Numbered
    <3>2. CASE t # s
      BY <1>3, <2>1, <3>1, <3>2 DEF HostStep
    <3>3. CASE t = s
      BY <1>3, <2>1, <3>1, <3>3 DEF HostStep, Silent, Advances, Speaks, Hears, Finishes
    <3>4. QED
      BY <3>2, <3>3
  <2>4. QED
    BY <2>2, <2>3 DEF Numbered
<1>4. QED
  BY <1>2, <1>3, StepCommits

(* A Collect that goes on waiting over a committed step of s waited before,*)
(* with the same owner; or it begins to wait now, and nobody holds an old  *)
(* message.                                                                *)
LEMMA WaitsBefore ==
  ASSUME Ready, [Next]_vars, NEW s \in Session, NEW d, NEW stack, Commit(s, d, stack),
         Takes(s, d), NEW w \in Workflow, NEW k \in Pos, Waits(w, k)'
  PROVE  \/ /\ Waits(w, k) /\ db'[w].session = db[w].session
            /\ asked'[w][k].at = asked[w][k].at
            /\ \/ db'[w].tasks[k].checkpoint = db[w].tasks[k].checkpoint
               \/ s = db'[w].session /\ db'[w].tasks[k].checkpoint = latest[s]
         \/ /\ asked'[w][k].at = said /\ ~EchoExpected(db', w)
            /\ \/ s = db'[w].session /\ s \in blocked'
               \/ db'[w].tasks[k].checkpoint = NoRow
               \/ s = db'[w].session /\ db'[w].tasks[k].checkpoint = latest[s]
<1> DEFINE t == db[w].tasks[k]
           u == d[w].tasks[k]
           v == db'[w].tasks[k]
<1>1. Leaves(s, d, w, k) /\ Turns(t, u, s)
  BY CommitLeaves DEF Ready, Takes
<1>2. Awaits(v) /\ ~asked'[w][k].excused
  BY DEF Waits
<1>3. Awaits(u)
  BY <1>1, <1>2 DEF Leaves, Awaits
<1>4. CASE Begins(t, u)
  <2>1. /\ asked'[w][k].at = said /\ ~PutBack(s, d, w, k) /\ ~EchoExpected(d, w)
    <3>1. asked'[w][k] = [at |-> said, excused |-> PutBack(s, d, w, k) \/ EchoExpected(d, w)]
      BY <1>1, <1>3, <1>4, Zenon DEF Leaves
    <3>2. asked'[w][k].at = said
      BY <3>1
    <3>3. asked'[w][k].excused = (PutBack(s, d, w, k) \/ EchoExpected(d, w))
      <4> DEFINE b == PutBack(s, d, w, k) \/ EchoExpected(d, w)
      <4>1. asked'[w][k] = [at |-> said, excused |-> b]
        BY <3>1
      <4> HIDE DEF b
      <4>2. asked'[w][k].excused = b
        BY <4>1
      <4>3. QED
        BY <4>2 DEF b
    <3>4. ~(PutBack(s, d, w, k) \/ EchoExpected(d, w))
      BY <1>2, <3>3, Zenon
    <3>5. QED
      BY <3>2, <3>4, Zenon
  <2>2. db'[w].session = d[w].session
    BY <1>1 DEF Leaves
  <2>3. ~EchoExpected(db', w)
    BY <2>1, <2>2 DEF EchoExpected
  <2>4. u.checkpoint = NoRow \/ (s = db'[w].session /\ s \in blocked')
    BY <1>1, <1>3, <1>4, <2>1, <2>2 DEF Turns, PutBack
  <2>5. v.checkpoint = u.checkpoint \/ (s = db'[w].session /\ v.checkpoint = latest[s])
    BY <1>1, <2>2 DEF Leaves
  <2>6. QED
    BY <2>1, <2>3, <2>4, <2>5
<1>5. CASE ~Begins(t, u)
  <2>1. t.status = "awaiting_user" /\ t.attempts = u.attempts
    BY <1>3, <1>5 DEF Begins, Awaits
  <2>2. ~Undefined(db[w])
    BY <2>1 DEF Ready, BaseInv, Blank
  <2>3. t.type = v.type
    BY <2>2, StepProgress DEF Ready, Progresses, Progress, SameTasks
  <2>4. Awaits(t)
    BY <1>2, <2>1, <2>3 DEF Awaits
  <2>5. u.checkpoint = t.checkpoint
    BY <1>1, <2>1 DEF Turns, Keeping
  <2>6. /\ asked'[w][k].at = asked[w][k].at /\ ~asked[w][k].excused
        /\ db[w].session = d[w].session /\ db'[w].session = d[w].session
        /\ v.checkpoint = u.checkpoint \/ (s = d[w].session /\ v.checkpoint = latest[s])
    BY <1>1, <1>2, <1>5 DEF Leaves
  <2>7. QED
    BY <2>4, <2>5, <2>6 DEF Waits
<1>6. QED
  BY <1>4, <1>5

LEMMA StepHeld ==
  ASSUME AnswerInv, [Next]_vars
  PROVE  OldMessagesAreHeld'
<1>0. Ready /\ Numbered /\ OldMessagesAreHeld /\ TypeInv
  BY DEF AnswerInv, Ready, BaseInv
<1>1. CASE UNCHANGED vars
  BY <1>0, <1>1 DEF vars, OldMessagesAreHeld, Waits, OwnerIsHeld
<1>2. ASSUME NEW s \in Session, HostStep(s), Committed(s) \/ UNCHANGED <<db, asked>>,
             NEW w \in Workflow, NEW k \in Pos, NEW o \in Session, Waits(w, k)'
      PROVE  /\ o = db'[w].session /\ latest'[o] <= asked'[w][k].at => OwnerIsHeld(w, k, o)'
             /\ input'[o].phase = "read" /\ input'[o].w = w => input'[o].msg > asked'[w][k].at
  <2>1. /\ said \in Nat /\ latest[o] \in Nat /\ input[o].msg \in Nat /\ asked[w][k].at \in Nat
        /\ latest[o] <= said /\ asked[w][k].at <= said
        /\ input[o].phase # "idle" => input[o].msg <= said /\ latest[o] <= input[o].msg
    BY <1>0, NumbersType DEF Numbered
  <2>2. \/ Silent(o) \/ Speaks(o) \/ Hears(o) \/ Finishes(o)
        \/ latest'[o] = latest[o] /\ input'[o] = input[o] /\ (o \in blocked => o \in blocked')
    BY <1>2 DEF HostStep
  <2>3. CASE UNCHANGED <<db, asked>>
    <3>1. Waits(w, k)
      BY <1>2, <2>3 DEF Waits
    <3>2. /\ o = db[w].session /\ latest[o] <= asked[w][k].at => OwnerIsHeld(w, k, o)
          /\ input[o].phase = "read" /\ input[o].w = w => input[o].msg > asked[w][k].at
      BY <1>0, <3>1 DEF OldMessagesAreHeld
    <3>3. input'[o].phase = "read" /\ input'[o].w = w => input'[o].msg > asked[w][k].at
      BY <2>1, <2>2, <3>2 DEF Silent, Advances, Speaks, Hears, Finishes
    <3>4. ASSUME o = db[w].session, latest'[o] <= asked[w][k].at
          PROVE  OwnerIsHeld(w, k, o)'
      <4>1. latest'[o] = latest[o] /\ (o \in blocked => o \in blocked')
        BY <2>1, <2>2, <3>2, <3>4 DEF OwnerIsHeld, Silent, Speaks, Hears, Finishes
      <4>2. OwnerIsHeld(w, k, o)
        BY <3>2, <3>4, <4>1
      <4>3. input'[o].phase # "idle" /\ input'[o].msg <= asked[w][k].at
              => input'[o].msg = latest[o]
        BY <2>1, <2>2, <4>2 DEF OwnerIsHeld, Silent, Advances, Speaks, Hears, Finishes
      <4>4. QED
        BY <2>3, <4>1, <4>2, <4>3 DEF OwnerIsHeld
    <3>5. QED
      BY <2>3, <3>3, <3>4
  <2>4. CASE Committed(s) /\ ~UNCHANGED <<db, asked>>
    <3>1. PICK d, stack : Commit(s, d, stack) /\ Takes(s, d)
      BY <2>4 DEF Committed
    <3>2. /\ Silent(o) \/ Speaks(o) \/
               (latest'[o] = latest[o] /\ input'[o] = input[o] /\ (o \in blocked => o \in blocked'))
      BY <2>2, <2>4 DEF Hears, Finishes
    <3>3. input'[o].phase # "idle" => /\ input[o].phase # "idle" /\ input'[o].msg = input[o].msg
                                      /\ input'[o].w = input[o].w
                                      /\ input'[o].phase = "read" => input[o].phase = "read"
      BY <3>2 DEF Silent, Advances, Speaks
    <3>4. latest'[o] <= said => latest'[o] = latest[o] /\ (o \in blocked => o \in blocked')
      BY <2>1, <3>2 DEF Silent, Speaks
    <3>5. CASE /\ Waits(w, k) /\ db'[w].session = db[w].session
               /\ asked'[w][k].at = asked[w][k].at
               /\ \/ db'[w].tasks[k].checkpoint = db[w].tasks[k].checkpoint
                  \/ s = db'[w].session /\ db'[w].tasks[k].checkpoint = latest[s]
      <4>1. /\ o = db[w].session /\ latest[o] <= asked[w][k].at => OwnerIsHeld(w, k, o)
            /\ input[o].phase = "read" /\ input[o].w = w => input[o].msg > asked[w][k].at
        BY <1>0, <3>5 DEF OldMessagesAreHeld
      <4>2. input'[o].phase = "read" /\ input'[o].w = w => input'[o].msg > asked'[w][k].at
        BY <3>3, <3>5, <4>1
      <4>3. ASSUME o = db'[w].session, latest'[o] <= asked'[w][k].at
            PROVE  OwnerIsHeld(w, k, o)'
        <5>1. latest'[o] = latest[o] /\ (o \in blocked => o \in blocked')
          BY <2>1, <3>2, <3>5, <4>3 DEF Silent, Speaks
        <5>2. OwnerIsHeld(w, k, o)
          BY <3>5, <4>1, <4>3, <5>1
        <5>3. QED
          BY <3>3, <3>5, <4>3, <5>1, <5>2 DEF OwnerIsHeld
      <4>4. QED
        BY <4>2, <4>3
    <3>6. CASE /\ asked'[w][k].at = said /\ ~EchoExpected(db', w)
               /\ \/ s = db'[w].session /\ s \in blocked'
                  \/ db'[w].tasks[k].checkpoint = NoRow
                  \/ s = db'[w].session /\ db'[w].tasks[k].checkpoint = latest[s]
      <4>1. /\ input[o].phase # "idle" /\ o = db'[w].session => ~(latest[o] < input[o].msg)
            /\ ~(input[o].phase = "read" /\ input[o].w = w)
        BY <3>6 DEF EchoExpected
      <4>2. ~(input'[o].phase = "read" /\ input'[o].w = w)
        BY <3>3, <4>1
      <4>3. ASSUME o = db'[w].session, latest'[o] <= asked'[w][k].at
            PROVE  OwnerIsHeld(w, k, o)'
        <5>1. latest'[o] = latest[o]
          BY <3>4, <3>6, <4>3
        <5>2. input'[o].phase # "idle" => input'[o].msg = latest'[o]
          BY <2>1, <3>3, <4>1, <4>3, <5>1
        <5>3. \/ o \in blocked' \/ db'[w].tasks[k].checkpoint = NoRow
              \/ db'[w].tasks[k].checkpoint = latest'[o]
          BY <3>6, <4>3, <5>1
        <5>4. QED
          BY <5>2, <5>3 DEF OwnerIsHeld
      <4>4. QED
        BY <4>2, <4>3
    <3>7. QED
      BY <1>0, <1>2, <3>1, <3>5, <3>6, WaitsBefore
  <2>5. QED
    BY <1>2, <2>3, <2>4
<1>3. QED
  BY <1>0, <1>1, <1>2, StepCommits DEF OldMessagesAreHeld

LEMMA AnswerHolds == Spec => []AnswerInv
<1>1. Init => AnswerInv
  <2> SUFFICES ASSUME Init
               PROVE  AnswerInv
    OBVIOUS
  <2>1. \A w \in Workflow, k \in Pos :
          /\ db[w].status = "none" /\ db[w].tasks[k].status = "absent"
          /\ db[w].tasks[k].child = NoWorkflow /\ db[w].tasks[k].checkpoint = NoRow
          /\ asked[w][k].at = 0
    BY DEF Init, NoRows, NoTasks, NewTask
  <2>2. AllInOrder(db)
    <3>1. ASSUME NEW w \in Workflow
          PROVE  InOrder(db[w])
      <4>1. /\ db[w].status = "none"
            /\ \A k \in Pos : db[w].tasks[k].status = "absent" /\ db[w].tasks[k].child = NoWorkflow
        BY <3>1 DEF Init, NoRows, NoTasks, NewTask
      <4>2. QED
        BY <4>1 DEF InOrder, RowInOrder, Sparse, ChildrenInOrder
    <3>2. QED
      BY <3>1 DEF AllInOrder
  <2>3. AllFresh(db) /\ OldMessagesAreHeld
    BY <2>1 DEF AllFresh, Fresh, OldMessagesAreHeld, Waits, Awaits
  <2>4. Numbered
    BY <2>1 DEF Init, IdleInput, Numbered
  <2>5. QED
    BY <2>2, <2>3, <2>4, InitBase DEF AnswerInv, Ready
<1>2. AnswerInv /\ [Next]_vars => AnswerInv'
  BY StepFresh, StepNumbered, StepHeld DEF AnswerInv
<1>3. QED
  BY <1>1, <1>2, PTL DEF Spec

(* OwnerNeedsNewMessage: a Collect task never takes an old message for the *)
(* answer to a later question, whatever the number of sessions, workflows  *)
(* and messages, and however retries, unresolved judgements, restarts,     *)
(* handlers and adoptions follow each other, but for the exceptions that   *)
(* Asks names.                                                             *)
THEOREM AnswersAreNew == Spec => OwnerNeedsNewMessage
<1>1. ASSUME AnswerInv, [Next]_vars, NEW w \in Workflow, NEW k \in Pos,
             Answered(w, k), ~asked[w][k].excused
      PROVE  NewMessageFor(w, k)
  <2>0. Ready /\ Numbered /\ OldMessagesAreHeld /\ TypeInv /\ Waits(w, k)
    BY <1>1 DEF AnswerInv, Ready, BaseInv, Answered, Waits, Awaits
  <2>1. PICK s \in Session : Committed(s)
    <3>1. ~UNCHANGED db
      BY <1>1 DEF Answered
    <3>2. QED
      BY <1>1, <2>0, <3>1, StepCommits DEF vars
  <2>2. PICK d, stack : Commit(s, d, stack) /\ Takes(s, d)
    BY <2>1 DEF Committed
  <2>3. Leaves(s, d, w, k)
    BY <2>0, <2>2, CommitLeaves DEF Ready
  <2>4. Replied(s, w, k)
    BY <1>1, <2>2, <2>3 DEF Takes, Stays, Leaves, Answered, Awaits
  <2>5. latest[s] \in Nat /\ asked[w][k].at \in Nat
    BY <2>0, NumbersType
  <2>6. CASE InFocus(s, w) /\ s \notin blocked /\ NewReply(s, db[w].tasks[k])
    <3>1. s = db[w].session
      BY <2>6 DEF InFocus, OnTop, Live
    <3>2. ~OwnerIsHeld(w, k, s)
      BY <2>6 DEF OwnerIsHeld, NewReply
    <3>3. latest[s] > asked[w][k].at
      BY <2>0, <2>5, <3>1, <3>2 DEF OldMessagesAreHeld
    <3>4. QED
      BY <3>1, <3>3 DEF NewMessageFor
  <2>7. CASE input[s].phase = "read" /\ input'[s].phase = "recorded" /\ input[s].w = w
    <3>1. input[s].msg > asked[w][k].at
      BY <2>0, <2>7 DEF OldMessagesAreHeld
    <3>2. QED
      BY <2>7, <3>1 DEF NewMessageFor
  <2>8. QED
    BY <2>4, <2>6, <2>7 DEF Replied
<1>2. AnswerInv /\ [Next]_vars
        => [\A w \in Workflow, k \in Pos :
              (Answered(w, k) /\ ~asked[w][k].excused) => NewMessageFor(w, k)]_vars
  BY <1>1
<1>3. QED
  BY <1>2, AnswerHolds, PTL DEF Spec, OwnerNeedsNewMessage

-----------------------------------------------------------------------------
(* The filter of a saved stack: what is kept, and in which order.  The     *)
(* place of a kept element is the number of those before it.               *)
LEMMA RankIsTaken ==
  ASSUME NEW n \in Nat, NEW K \in SUBSET (1..n)
  PROVE  LET m == Cardinality(K)
             rank(k) == Cardinality({j \in K : j <= k})
         IN  /\ m \in Nat
             /\ \A k \in K : rank(k) \in 1..m
             /\ \A j, k \in K : j < k => rank(j) < rank(k)
             /\ \A i \in 1..m : \E k \in K : rank(k) = i
<1> DEFINE m == Cardinality(K)
           below(k) == {j \in K : j <= k}
           rank == [k \in K |-> Cardinality(below(k))]
<1>0. IsFiniteSet(K) /\ m \in Nat
  <2>1. IsFiniteSet(1..n)
    BY FS_Interval
  <2>2. IsFiniteSet(K)
    BY <2>1, FS_Subset
  <2> QED BY <2>2, FS_CardinalityType
<1>1. \A k \in K : IsFiniteSet(below(k)) /\ Cardinality(below(k)) \in 1..m
  <2> TAKE k \in K
  <2>1. below(k) \in SUBSET K /\ IsFiniteSet(below(k)) /\ Cardinality(below(k)) <= m
    BY <1>0, FS_Subset, Zenon
  <2>2. k \in below(k)
    OBVIOUS
  <2>3. Cardinality(below(k)) # 0
    BY <2>1, <2>2, FS_EmptySet
  <2>4. Cardinality(below(k)) \in Nat
    BY <2>1, FS_CardinalityType
  <2> QED BY <1>0, <2>1, <2>3, <2>4
<1>2. \A j, k \in K : j < k => rank[j] < rank[k]
  <2> SUFFICES ASSUME NEW j \in K, NEW k \in K, j < k
               PROVE  Cardinality(below(j)) < Cardinality(below(k))
    OBVIOUS
  <2>0. \A i \in K : i \in Nat
    OBVIOUS
  <2>1. below(j) \in SUBSET below(k)
    <3>1. \A i \in K : i <= j => i <= k
      BY <2>0
    <3> QED BY <3>1
  <2>2. k \in below(k) /\ k \notin below(j)
    <3>1. k \in Nat /\ j \in Nat /\ ~(k <= j) /\ k <= k
      BY <2>0
    <3> QED BY <3>1
  <2>3. Cardinality(below(j)) <= Cardinality(below(k)) /\ Cardinality(below(j)) # Cardinality(below(k))
    <3> HIDE DEF below
    <3> QED BY <1>1, <2>1, <2>2, FS_Subset
  <2>4. Cardinality(below(j)) \in 1..m /\ Cardinality(below(k)) \in 1..m
    BY <1>1
  <2> HIDE DEF below
  <2> QED BY <1>0, <2>3, <2>4
<1>3. rank \in [K -> 1..m]
  BY <1>1
<1>4. rank \in Injection(K, 1..m)
  <2>1. \A j, k \in K : rank[j] = rank[k] => j = k
    <3>1. \A k \in K : k \in Nat /\ rank[k] \in Nat
      BY <1>0, <1>3
    <3> HIDE DEF rank
    <3> QED BY <1>2, <3>1
  <2> HIDE DEF rank
  <2> QED BY <2>1, <1>3 DEF Injection, IsInjective
<1>5. IsFiniteSet(1..m) /\ Cardinality(1..m) = m
  BY <1>0, FS_Interval
<1>6. rank \in Surjection(K, 1..m)
  <2> HIDE DEF rank, m
  <2> QED BY <1>0, <1>4, <1>5, FS_Injection DEF m
<1>7. \A i \in 1..m : \E k \in K : rank[k] = i
  <2> HIDE DEF rank
  <2> QED BY <1>6 DEF Surjection
<1> QED BY <1>0, <1>1, <1>2, <1>7

LEMMA KeptInOrder ==
  ASSUME NEW S, NEW q \in Seq(S), NEW T
  PROVE  LET r == Kept(q, T) IN
         /\ r \in Seq(S)
         /\ \A i \in DOMAIN r : \E k \in DOMAIN q :
              /\ r[i] = q[k] /\ q[k] \in T
              /\ \A l \in DOMAIN q : l > k /\ q[l] \in T => \E j \in DOMAIN r : j > i /\ r[j] = q[l]
<1> DEFINE K == {k \in DOMAIN q : q[k] \in T}
           m == Cardinality(K)
           rank(k) == Cardinality({j \in K : j <= k})
           at(i) == CHOOSE k \in K : rank(k) = i
           r == [i \in 1..m |-> q[at(i)]]
<1>0. Kept(q, T) = r
  BY DEF Kept
<1>1. DOMAIN q = 1..Len(q) /\ Len(q) \in Nat /\ K \in SUBSET (1..Len(q))
  OBVIOUS
<1>2. /\ m \in Nat
      /\ \A k \in K : rank(k) \in 1..m
      /\ \A j, k \in K : j < k => rank(j) < rank(k)
      /\ \A i \in 1..m : \E k \in K : rank(k) = i
  <2> HIDE DEF K
  <2> QED BY <1>1, RankIsTaken
<1>3. \A i \in 1..m : at(i) \in K /\ rank(at(i)) = i
  <2> HIDE DEF K, rank
  <2> QED BY <1>2
<1>4. \A k \in K : at(rank(k)) = k
  <2>1. \A k \in K : k \in Nat /\ rank(k) \in Nat /\ rank(k) \in 1..m
    <3> HIDE DEF rank, m
    <3> QED BY <1>1, <1>2
  <2>2. \A k \in K : at(rank(k)) \in K /\ rank(at(rank(k))) = rank(k)
    <3> HIDE DEF K, rank, at, m
    <3> QED BY <1>3, <2>1
  <2> HIDE DEF K, rank, at, m
  <2> QED BY <1>2, <2>1, <2>2
<1>5. \A i \in 1..m : q[at(i)] \in S
  <2>1. \A i \in 1..m : at(i) \in 1..Len(q)
    <3> HIDE DEF at, m, rank
    <3> QED BY <1>1, <1>3
  <2> HIDE DEF at, m
  <2> QED BY <2>1
<1>6. r \in Seq(S) /\ DOMAIN r = 1..m /\ \A i \in 1..m : r[i] = q[at(i)]
  <2> HIDE DEF at, m
  <2> QED BY <1>2, <1>5
<1>7. ASSUME NEW i \in 1..m, NEW l \in DOMAIN q, l > at(i), q[l] \in T
      PROVE  \E j \in 1..m : j > i /\ r[j] = q[l]
  <2>1. l \in K /\ at(i) \in K /\ rank(at(i)) = i
    BY <1>3, <1>7
  <2>2. rank(l) \in 1..m /\ rank(l) > i /\ at(rank(l)) = l
    <3>1. rank(l) \in 1..m /\ at(rank(l)) = l
      <4> HIDE DEF K, rank, at, m
      <4> QED BY <1>2, <1>4, <2>1
    <3>2. at(i) < l
      <4> HIDE DEF at
      <4> QED BY <1>1, <1>7, <2>1
    <3> HIDE DEF K, rank, at, m
    <3> QED BY <1>2, <2>1, <3>1, <3>2
  <2> HIDE DEF rank, m, at, r
  <2> QED BY <1>6, <2>2
<1>8. \A i \in DOMAIN r : \E k \in DOMAIN q :
        /\ r[i] = q[k] /\ q[k] \in T
        /\ \A l \in DOMAIN q : l > k /\ q[l] \in T => \E j \in DOMAIN r : j > i /\ r[j] = q[l]
  <2> TAKE i \in DOMAIN r
  <2>1. i \in 1..m /\ at(i) \in DOMAIN q /\ q[at(i)] \in T /\ r[i] = q[at(i)]
    <3>1. i \in 1..m
      BY <1>6
    <3> HIDE DEF rank, at, m, r
    <3> QED BY <1>3, <1>6, <3>1
  <2> HIDE DEF at, m, r
  <2> QED BY <1>6, <1>7, <2>1
<1>9. r \in Seq(S)
  BY <1>6
<1> HIDE DEF r
<1> QED BY <1>0, <1>8, <1>9

-----------------------------------------------------------------------------
(* Definition 8.  Why the focus can advance.  Whoever waits in the saved   *)
(* stack of its session has the child it waits for above it.  Rows of other*)
(* sessions may stay in a stack as long as they are not its session's.     *)
Expects(d, w, c) == \E k \in Pos : WaitsFor(d[w], k, c)
Leads(d, s, stack) ==
  \A i \in DOMAIN stack, c \in Workflow :
     Live(d, s, stack[i]) /\ Expects(d, stack[i], c) => \E j \in DOMAIN stack : j > i /\ stack[j] = c
StacksLead == \A s \in Session : Leads(db, s, saved[s])
StackInv == saved \in [Session -> Seq(Workflow)] /\ StacksLead

(* What a transaction of s makes of the rows: those that exist keep their  *)
(* parent, end for good, and go to no session but s; new ones are of s.    *)
GoesTo(row, new, s) ==
  IF row.status = "none" THEN new.status # "none" => new.session = s
  ELSE /\ new.status # "none" /\ new.parent = row.parent
       /\ new.status \in ActiveStatus => row.status \in ActiveStatus
       /\ new.session \in {row.session, s}
Goes(d, e, s) == \A x \in Workflow : GoesTo(d[x], e[x], s)

LEMMA MoveGoes ==
  ASSUME NEW d \in Database, NEW s \in Session, NEW e, Move(d, e, s)
  PROVE  Goes(d, e, s)
<1>1. /\ e \in Database /\ Progresses(d, e)
      /\ \A x \in Workflow : d[x].status \in WorkflowStatus
  BY MoveType, MoveProgress DEF Database, Row
<1>2. \A x \in Workflow : d[x].status # "none" =>
        (e[x].status \in ActiveStatus => d[x].status \in ActiveStatus)
  BY <1>1 DEF Progresses, Progress, WorkflowStatus, ActiveStatus, TerminalStatus
<1>3. ASSUME KeepsOwners(d, e)
      PROVE  Goes(d, e, s)
  BY <1>2, <1>3 DEF Goes, GoesTo, KeepsOwners
<1>4. ASSUME NEW w \in Workflow, d[w].status = "none", e[w].session = s,
             \A x \in Workflow \ {w} : /\ e[x].parent = d[x].parent /\ e[x].session = d[x].session
                                       /\ e[x].status = d[x].status
      PROVE  Goes(d, e, s)
  BY <1>4 DEF Goes, GoesTo
<1>5. CASE e = d
  BY <1>5 DEF Goes, GoesTo
<1>6. CASE NewRoot(d, e, s)
  <2>1. PICK w \in Workflow, def \in Definition :
          d[w].status = "none" /\ e = [d EXCEPT ![w] = NewRow(s, NoWorkflow, def)]
    BY <1>6 DEF NewRoot, CreateRootWorkflow
  <2>2. e[w].session = s /\ \A x \in Workflow \ {w} : e[x] = d[x]
    BY <2>1, NewRowType DEF Database
  <2> QED BY <1>4, <2>1, <2>2
<1>7. CASE NewPending(d, e, s)
  <2>1. PICK w \in Workflow : d[w].status = "none" /\
          e = [d EXCEPT ![w] = [status |-> "pending_definition", parent |-> NoWorkflow,
                                session |-> s, tasks |-> NoTasks]]
    BY <1>7 DEF NewPending
  <2>2. e[w].session = s /\ \A x \in Workflow \ {w} : e[x] = d[x]
    BY <2>1 DEF Database
  <2> QED BY <1>4, <2>1, <2>2
<1>8. CASE NewChild(d, e, s)
  <2>1. PICK p \in Workflow, c \in Workflow, k \in Pos, def \in Definition :
          /\ d[p].status # "none" /\ d[c].status = "none"
          /\ e = CreateSubworkflow(d, p, k, c, s, def)
    BY <1>8 DEF NewChild, Live, IsActive, ActiveStatus
  <2>2. c \in Workflow \ {p}
    BY <2>1
  <2> QED BY <1>4, <2>1, <2>2, CreateSubworkflowType
<1>9. CASE Hydrated(d, e, s) \/ Recorded(d, e) \/ Evaluated(d, e) \/ Restored(d, e) \/ Cancelled(d, e)
  <2>1. KeepsOwners(d, e)
    BY <1>9, HydrateKeeps, RecordKeeps, EvaluateKeeps, RestoreKeeps, CancelKeeps
       DEF Hydrated, Recorded, Evaluated, Restored, Cancelled, IsActive, ActiveStatus
  <2> QED BY <1>3, <2>1
<1>10. CASE Dropped(d, e)
  <2>1. KeepsOwners(d, e)
    BY <1>10 DEF Dropped, Database, Row, KeepsOwners
  <2> QED BY <1>3, <2>1
<1>11. CASE Adopted(d, e, s)
  <2>1. PICK r \in Workflow : e = AdoptTree(d, r, s)
    BY <1>11 DEF Adopted
  <2>2. ASSUME NEW x \in Workflow
        PROVE  /\ e[x].parent = d[x].parent /\ e[x].status = d[x].status
               /\ e[x].session \in {d[x].session, s}
    BY <2>1, <2>2 DEF AdoptTree, Database, Row
  <2>3. \A x \in Workflow : d[x].status = "none" => e[x].status = "none"
    BY <2>2
  <2> QED BY <2>2, <2>3 DEF Goes, GoesTo
<1> QED BY <1>5, <1>6, <1>7, <1>8, <1>9, <1>10, <1>11 DEF Move

LEMMA TransactionGoes ==
  ASSUME BaseInv, NEW s \in Session, Transaction(s)
  PROVE  Goes(db, db', s)
<1>1. PICK d1, d2, stack :
        /\ Move(db, d1, s) /\ Move(d1, d2, s) /\ db' = Checkpoint(d2, s, stack)
  BY DEF Transaction
<1>2. db \in Database /\ latest[s] \in Nat
  BY DEF BaseInv, TypeInv, HostTypeOK
<1>3. d1 \in Database /\ d2 \in Database
  BY <1>1, <1>2, MoveType
<1>4. Goes(db, d1, s) /\ Goes(d1, d2, s)
  BY <1>1, <1>2, <1>3, MoveGoes
<1>5. \A x \in Workflow : /\ db'[x].status = d2[x].status /\ db'[x].parent = d2[x].parent
                          /\ db'[x].session = d2[x].session
  BY <1>1, <1>2, <1>3, CheckpointType
<1>6. ASSUME NEW x \in Workflow
      PROVE  GoesTo(db[x], d2[x], s)
  BY <1>4 DEF Goes, GoesTo
<1> QED BY <1>5, <1>6 DEF Goes, GoesTo

-----------------------------------------------------------------------------
(* Who waits for a child that existed before waited for it before.         *)
LEMMA ExpectedBefore ==
  ASSUME NEW d \in Database, NEW e \in Database, OneOwner(d), OneOwner(e), Mutual(d), Mutual(e),
         NEW s \in Session, Goes(d, e, s), NEW w \in Workflow, NEW c \in Workflow,
         Active(e, w), Expects(e, w, c)
  PROVE  /\ e[c].session = e[w].session /\ Active(e, c) /\ e[c].parent = w
         /\ d[c].status # "none" => d[w].status # "none" /\ Active(d, w) /\ Expects(d, w, c)
<1>1. e[c].parent = w /\ Active(e, c)
  BY DEF Expects, WaitsFor, Mutual, ParentsWait
<1>2. e[c].session = e[w].session
  BY <1>1, TablesAssumption DEF OneOwner
<1>3. ASSUME d[c].status # "none"
      PROVE  d[w].status # "none" /\ Active(d, w) /\ Expects(d, w, c)
  <2>1. d[c].parent = w /\ Active(d, c)
    BY <1>1, <1>3 DEF Goes, GoesTo, Active
  <2>2. d[w].status # "none"
    BY <2>1, TablesAssumption DEF OneOwner
  <2>3. Active(d, w)
    BY <2>2 DEF Goes, GoesTo, Active
  <2> QED BY <2>1, <2>2, <2>3 DEF Mutual, ChildrenAwaited, Expects
<1> QED BY <1>1, <1>2, <1>3

(* A stack goes on to lead when its session gets no row, or gets one that  *)
(* it puts on top.                                                         *)
Gains(d, e, s, New) ==
  \A x \in Workflow \ New : e[x].session = s /\ e[x].status # "none" => d[x].session = s /\ d[x].status # "none"

LEMMA StackGoesOn ==
  ASSUME NEW d \in Database, NEW e \in Database, OneOwner(d), OneOwner(e), Mutual(d), Mutual(e),
         NEW s \in Session, Goes(d, e, s), NEW t \in Session, NEW stack \in Seq(Workflow),
         Leads(d, t, stack)
  PROVE  /\ Gains(d, e, t, {}) => Leads(e, t, stack)
         /\ \A c \in Workflow : d[c].status = "none" /\ e[c].parent # c /\ Gains(d, e, t, {c}) => Leads(e, t, Append(stack, c))
<1>1. ASSUME NEW New \in SUBSET Workflow, Gains(d, e, t, New), NEW i \in DOMAIN stack, NEW c \in Workflow,
             Live(e, t, stack[i]), Expects(e, stack[i], c), c \notin New
      PROVE  \E j \in DOMAIN stack : j > i /\ stack[j] = c
  <2>1. stack[i] \in Workflow /\ Active(e, stack[i]) /\ e[stack[i]].session = t
    BY <1>1 DEF Live, IsActive, Active
  <2>2. e[c].session = t /\ e[c].status # "none"
    BY <1>1, <2>1, ExpectedBefore DEF Active, ActiveStatus
  <2>3. d[c].status # "none" /\ d[c].session = t
    BY <1>1, <2>2 DEF Gains
  <2>4. Active(d, stack[i]) /\ Expects(d, stack[i], c)
    BY <1>1, <2>1, <2>3, ExpectedBefore
  <2>5. d[stack[i]].session = t
    <3>1. d[c].parent = stack[i]
      BY <2>4 DEF Expects, WaitsFor, Mutual, ParentsWait
    <3> QED BY <2>1, <2>3, <3>1, TablesAssumption DEF OneOwner
  <2> QED BY <2>1, <2>4, <2>5 DEF Leads, Live, IsActive, Active
<1>2. Gains(d, e, t, {}) => Leads(e, t, stack)
  BY <1>1 DEF Leads
<1>3. ASSUME NEW new \in Workflow, d[new].status = "none", e[new].parent # new, Gains(d, e, t, {new})
      PROVE  Leads(e, t, Append(stack, new))
  <2> DEFINE n == Len(stack) + 1
             all == Append(stack, new)
  <2>1. /\ n \in Nat /\ all \in Seq(Workflow) /\ DOMAIN all = 1..n /\ DOMAIN stack = 1..Len(stack)
        /\ Len(stack) \in Nat /\ all[n] = new /\ \A i \in DOMAIN stack : all[i] = stack[i]
    OBVIOUS
  <2> SUFFICES ASSUME NEW i \in 1..n, NEW c \in Workflow, Live(e, t, all[i]), Expects(e, all[i], c)
               PROVE  \E j \in 1..n : j > i /\ all[j] = c
    <3>1. (\A i \in 1..n, c \in Workflow : Live(e, t, all[i]) /\ Expects(e, all[i], c) =>
             \E j \in 1..n : j > i /\ all[j] = c) => Leads(e, t, all)
      <4> HIDE DEF all, n
      <4> QED BY <2>1 DEF Leads
    <3> QED BY <3>1
  <2>2. all[i] \in Workflow /\ Active(e, all[i])
    <3> HIDE DEF n, all
    <3> QED BY <2>1 DEF Live, IsActive, Active
  <2>3. CASE c = new
    <3>1. e[new].parent = all[i]
      <4> HIDE DEF all
      <4> QED BY <2>2, <2>3, ExpectedBefore
    <3> HIDE DEF all
    <3>2. i # n
      BY <1>3, <2>1, <3>1
    <3> HIDE DEF n
    <3> QED BY <2>1, <2>3, <3>2
  <2>4. CASE c # new
    <3>1. i # n
      <4>1. d[c].status # "none" => d[all[i]].status # "none"
        <5> HIDE DEF all
        <5> QED BY <2>2, ExpectedBefore
      <4>2. e[c].session = t /\ e[c].status # "none"
        <5>1. e[all[i]].session = t
          <6> HIDE DEF all
          <6> QED BY DEF Live
        <5> HIDE DEF all
        <5> QED BY <2>2, <5>1, ExpectedBefore DEF Active, ActiveStatus
      <4>3. d[c].status # "none"
        BY <1>3, <2>4, <4>2 DEF Gains
      <4> HIDE DEF all, n
      <4> QED BY <1>3, <2>1, <4>1, <4>3
    <3>2. i \in DOMAIN stack /\ all[i] = stack[i]
      <4> HIDE DEF all
      <4> QED BY <2>1, <3>1
    <3>3. PICK j \in DOMAIN stack : j > i /\ stack[j] = c
      <4> HIDE DEF all, n
      <4> QED BY <1>1, <1>3, <2>4, <3>2
    <3> HIDE DEF all
    <3> QED BY <2>1, <3>3
  <2> QED BY <2>3, <2>4
<1> QED BY <1>2, <1>3


(* The live part of a stack that leads leads as well.                      *)
LEMMA LiveStackLeads ==
  ASSUME NEW d \in Database, OneOwner(d), Mutual(d), NEW s \in Session, NEW stack \in Seq(Workflow),
         Leads(d, s, stack)
  PROVE  LiveStack(d, s, stack) \in Seq(Workflow) /\ Leads(d, s, LiveStack(d, s, stack))
<1> DEFINE T == {w \in Workflow : Live(d, s, w)}
           r == LiveStack(d, s, stack)
<1>1. /\ r \in Seq(Workflow)
      /\ \A i \in DOMAIN r : \E k \in DOMAIN stack :
           /\ r[i] = stack[k] /\ stack[k] \in T
           /\ \A l \in DOMAIN stack : l > k /\ stack[l] \in T => \E j \in DOMAIN r : j > i /\ r[j] = stack[l]
  <2>1. r = Kept(stack, T)
    BY DEF LiveStack
  <2> HIDE DEF r, T
  <2> QED BY <2>1, KeptInOrder
<1> SUFFICES ASSUME NEW i \in DOMAIN r, NEW c \in Workflow, Live(d, s, r[i]), Expects(d, r[i], c)
             PROVE  \E j \in DOMAIN r : j > i /\ r[j] = c
  <2> HIDE DEF r
  <2> QED BY <1>1 DEF r, Leads
<1>2. PICK k \in DOMAIN stack :
        /\ r[i] = stack[k]
        /\ \A l \in DOMAIN stack : l > k /\ stack[l] \in T => \E j \in DOMAIN r : j > i /\ r[j] = stack[l]
  <2> HIDE DEF r, T
  <2> QED BY <1>1
<1>3. stack[k] \in Workflow /\ Live(d, s, stack[k]) /\ Expects(d, stack[k], c)
  <2> HIDE DEF r
  <2> QED BY <1>2
<1>4. c \in T
  <2>1. d[c].parent = stack[k] /\ Active(d, c)
    BY <1>3 DEF Expects, WaitsFor, Mutual, ParentsWait, Live, IsActive, Active
  <2>2. d[c].session = s
    BY <1>3, <2>1, TablesAssumption DEF OneOwner, Live
  <2> QED BY <2>1, <2>2 DEF Live, IsActive, Active
<1>5. PICK l \in DOMAIN stack : l > k /\ stack[l] = c
  BY <1>3 DEF Leads
<1> HIDE DEF r, T
<1> QED BY <1>2, <1>4, <1>5

LEMMA PathType ==
  ASSUME NEW p \in Paths
  PROVE  p \in Seq(Workflow) /\ Len(p) \in Nat \ {0}
<1>1. PICK n \in 1..Cardinality(Workflow) : p \in [1..n -> Workflow]
  BY DEF Paths
<1>2. n \in Nat /\ n # 0
  BY <1>1
<1> QED BY <1>1, <1>2

(* The path that a focus or an adoption saves: each waits for the next.    *)
LEMMA PathLeads ==
  ASSUME NEW d \in Database, AllInOrder(d), NEW s \in Session, NEW p \in Paths, IsChain(d, p[1], p)
  PROVE  p \in Seq(Workflow) /\ Leads(d, s, p)
<1>1. p \in Seq(Workflow) /\ DOMAIN p = 1..Len(p) /\ Len(p) \in Nat
  BY PathType
<1> SUFFICES ASSUME NEW i \in 1..Len(p), NEW c \in Workflow, Live(d, s, p[i]), Expects(d, p[i], c)
             PROVE  \E j \in 1..Len(p) : j > i /\ p[j] = c
  BY <1>1 DEF Leads
<1>2. p[i] \in Workflow /\ d[p[i]] \in Row /\ InOrder(d[p[i]]) /\ d[p[i]].status \in ActiveStatus
  BY <1>1 DEF AllInOrder, Database, Live, IsActive
<1>3. PICK k \in Pos : WaitsFor(d[p[i]], k, c)
  BY DEF Expects
<1>4. IsCurrent(d[p[i]], k)
  <2>1. Stands(d[p[i]], k)
    BY <1>2, <1>3, ActiveStands DEF WaitsFor, FrontStatus
  <2> QED BY <2>1 DEF Stands, Front, IsCurrent, Open, FrontStatus
<1>5. CASE i = Len(p)
  <2>1. Waiting(d, p[i], c)
    BY <1>3, <1>4 DEF Waiting
  <2> QED BY <1>5, <2>1 DEF IsChain
<1>6. CASE i # Len(p)
  <2>1. i + 1 \in 2..Len(p) /\ (i + 1) - 1 = i
    <3>1. \A m \in Nat : i \in 1..m /\ i # m => i + 1 \in 2..m /\ (i + 1) - 1 = i
      OBVIOUS
    <3> QED BY <1>1, <1>6, <3>1
  <2>2. Waiting(d, p[i], p[i + 1])
    BY <2>1 DEF IsChain
  <2>3. PICK m \in Pos : IsCurrent(d[p[i]], m) /\ WaitsFor(d[p[i]], m, p[i + 1])
    BY <2>2 DEF Waiting
  <2>4. m = k
    BY <1>4, <2>3, TablesAssumption DEF IsCurrent, Pos
  <2>5. p[i + 1] = c
    BY <1>3, <2>3, <2>4 DEF WaitsFor
  <2>6. i + 1 \in 1..Len(p) /\ i + 1 > i
    BY <2>1
  <2> QED BY <2>5, <2>6
<1> QED BY <1>5, <1>6

-----------------------------------------------------------------------------
(* Definition 9.  What a step of s saves: its stack, with a new row on top,*)
(* nothing, or a path.                                                     *)
Continues(s, d, stack) == stack = saved[s] /\ Gains(db, d, s, {})
PutsOnTop(s, d, stack) == \E c \in Workflow :
  db[c].status = "none" /\ d[c].parent # c /\ Gains(db, d, s, {c}) /\ stack = Append(saved[s], c)
TakesPath(s, d, stack) ==
  /\ stack \in Paths /\ IsChain(db, stack[1], stack)
  /\ \A x \in Workflow : d[x].status = db[x].status /\ d[x].tasks = db[x].tasks
Saves(s) == \E d, stack :
  /\ d \in Database /\ Commit(s, d, stack)
  /\ Continues(s, d, stack) \/ PutsOnTop(s, d, stack) \/ stack = <<>> \/ TakesPath(s, d, stack)

LEMMA OwnersContinue ==
  ASSUME NEW s \in Session, NEW d \in Database, KeepsOwners(db, d), Commit(s, d, saved[s])
  PROVE  Saves(s)
<1>1. Continues(s, d, saved[s])
  BY DEF Continues, Gains, KeepsOwners
<1> QED BY <1>1 DEF Saves

LEMMA NewRowOnTop ==
  ASSUME db \in Database, NEW s \in Session, NEW w \in Workflow, db[w].status = "none", NEW row \in Row,
         row.parent # w, Commit(s, [db EXCEPT ![w] = row], Append(saved[s], w))
  PROVE  Saves(s)
<1> DEFINE d == [db EXCEPT ![w] = row]
<1>1. d \in Database /\ d[w] = row /\ \A x \in Workflow \ {w} : d[x] = db[x]
  BY DEF Database
<1>2. Commit(s, d, Append(saved[s], w))
  OBVIOUS
<1> HIDE DEF d
<1>3. PutsOnTop(s, d, Append(saved[s], w))
  BY <1>1 DEF PutsOnTop, Gains
<1> QED BY <1>1, <1>2, <1>3 DEF Saves

LEMMA StartDefinitionSaves ==
  ASSUME TypeInv, NEW s \in Session, NEW a, StartDefinition(s, a)
  PROVE  Saves(s)
<1>1. PICK row : row = [status |-> "pending_definition", parent |-> NoWorkflow, session |-> s,
                        tasks |-> NoTasks]
  OBVIOUS
<1>2. PICK w \in Workflow : Unused(w) /\ Commit(s, [db EXCEPT ![w] = row], Append(saved[s], w))
  BY <1>1 DEF StartDefinition
<1>3. row \in Row
  <2>1. Move(db, [db EXCEPT ![w] = row], s)
    BY <1>1, <1>2 DEF Move, NewPending, Unused
  <2>2. [db EXCEPT ![w] = row] \in Database /\ [db EXCEPT ![w] = row][w] = row
    BY <2>1, MoveType DEF TypeInv, Database
  <2> QED BY <2>2 DEF Database
<1>4. row.parent # w
  BY <1>1, TablesAssumption
<1> QED BY <1>2, <1>3, <1>4, NewRowOnTop DEF TypeInv, Unused

LEMMA NothingMoves ==
  ASSUME NEW s \in Session, db \in Database, Commit(s, db, saved[s])
  PROVE  Saves(s)
BY OwnersContinue DEF KeepsOwners

LEMMA JudgedKeepsOwners ==
  ASSUME NEW d \in Database, NEW w \in Workflow, NEW k \in Pos, NEW v \in Verdict, d[w].status # "none",
         v = "retry" => d[w].tasks[k].attempts < AttemptBound
  PROVE  Judge(d, w, k, v) \in Database /\ KeepsOwners(d, Judge(d, w, k, v))
<1>1. CASE v = "none"
  BY <1>1 DEF Judge, Outcome, KeepsOwners
<1>2. CASE v = "unresolved"
  BY <1>2, RestoreKeeps DEF Judge, Outcome
<1>3. CASE v \in Outcome
  BY <1>3, EvaluateKeeps DEF Judge, Outcome
<1> QED BY <1>1, <1>2, <1>3 DEF Verdict

LEMMA AgentSaves ==
  ASSUME TypeInv, NEW s \in Session, Agent(s)
  PROVE  Saves(s)
<1>0. db \in Database
  BY DEF TypeInv
<1>1. ASSUME NEW def \in Definition, NEW via \in Creation, CreateRoot(s, def, via)
      PROVE  Saves(s)
  <2>1. ASSUME NEW w \in Workflow, Unused(w),
               Commit(s, CreateRootWorkflow(db, w, s, def), Append(saved[s], w))
        PROVE  Saves(s)
    <3>1. NewRow(s, NoWorkflow, def) \in Row /\ NewRow(s, NoWorkflow, def).parent # w
      BY NewRowType, TablesAssumption
    <3> QED BY <1>0, <2>1, <3>1, NewRowOnTop DEF CreateRootWorkflow, Unused
  <2>2. ASSUME NEW w \in Workflow, Pending(s, w), Commit(s, HydrateWorkflow(db, w, def), saved[s])
        PROVE  Saves(s)
    <3>1. db[w].status # "none"
      BY <2>2 DEF Pending
    <3> QED BY <1>0, <2>2, <3>1, HydrateKeeps, OwnersContinue
  <2> QED BY <1>1, <2>1, <2>2 DEF CreateRoot, Supplies
<1>2. ASSUME NEW def \in Definition, CreateSub(s, def)
      PROVE  Saves(s)
  <2>1. PICK p \in Workflow, c \in Workflow, k \in Pos :
       /\ InFocus(s, p) /\ Unused(c)
       /\ Commit(s, CreateSubworkflow(db, p, k, c, s, def), Append(saved[s], c))
    BY <1>2 DEF CreateSub
  <2>2. c \in Workflow \ {p} /\ db[c].status = "none"
    BY <2>1 DEF InFocus, OnTop, Live, IsActive, ActiveStatus, Unused
  <2> DEFINE d == CreateSubworkflow(db, p, k, c, s, def)
  <2>3. /\ d \in Database /\ d[c].parent = p
        /\ \A x \in Workflow \ {c} : d[x].session = db[x].session /\ d[x].status = db[x].status
    BY <1>0, <2>2, CreateSubworkflowType
  <2>4. Commit(s, d, Append(saved[s], c))
    BY <2>1
  <2> HIDE DEF d
  <2>5. PutsOnTop(s, d, Append(saved[s], c))
    BY <2>2, <2>3 DEF PutsOnTop, Gains
  <2> QED BY <2>3, <2>4, <2>5 DEF Saves
<1>3. CASE Record(s)
  <2>1. PICK w \in Workflow, k \in Pos, v \in Verdict :
       /\ InFocus(s, w) /\ IsCurrent(db[w], k)
       /\ IF db[w].tasks[k].criteria THEN MayJudge(v) /\ MayEvaluate(w, k, v) ELSE v = "none"
       /\ Commit(s, Judge(RecordResult(db, w, k), w, k, v), saved[s])
    BY <1>3 DEF Record
  <2> DEFINE m == RecordResult(db, w, k)
  <2>2. IsActive(db, w) /\ db[w].status # "none"
    BY <2>1 DEF InFocus, OnTop, Live, IsActive, ActiveStatus
  <2>3. m \in Database /\ KeepsOwners(db, m)
    BY <1>0, <2>2, RecordKeeps
  <2>4. v = "retry" => m[w].tasks[k].attempts < AttemptBound
    BY <1>0, <2>1, <2>2, RecordedAwaitsJudgement DEF MayEvaluate
  <2> HIDE DEF m
  <2>5. m[w].status # "none"
    BY <2>2, <2>3 DEF KeepsOwners
  <2>6. Judge(m, w, k, v) \in Database /\ KeepsOwners(m, Judge(m, w, k, v))
    BY <2>3, <2>4, <2>5, JudgedKeepsOwners
  <2>7. KeepsOwners(db, Judge(m, w, k, v))
    BY <2>3, <2>6 DEF KeepsOwners
  <2> QED BY <2>1, <2>6, <2>7, OwnersContinue DEF m
<1>4. CASE Evaluate(s)
  <2>1. PICK w \in Workflow, k \in Pos, outcome \in Outcome :
       /\ InFocus(s, w) /\ MayEvaluate(w, k, outcome)
       /\ Commit(s, EvaluateTask(db, w, k, outcome), saved[s])
    BY <1>4 DEF Evaluate
  <2>2. db[w].status # "none"
    BY <2>1 DEF InFocus, OnTop, Live, IsActive, ActiveStatus
  <2> QED BY <1>0, <2>1, <2>2, EvaluateKeeps, OwnersContinue DEF MayEvaluate
<1>5. CASE SkillRequirement(s)
  BY <1>0, <1>5, StartDefinitionSaves, NothingMoves DEF SkillRequirement
<1> QED BY <1>1, <1>2, <1>3, <1>4, <1>5 DEF Agent

LEMMA UserSaves ==
  ASSUME TypeInv, NEW s \in Session, User(s)
  PROVE  Saves(s) \/ UNCHANGED <<db, saved>>
<1>0. db \in Database
  BY DEF TypeInv
<1>1. CASE Cancel(s)
  <2>1. PICK w \in Workflow : IsActive(db, w) /\ Commit(s, CancelWorkflow(db, w), saved[s])
    BY <1>1 DEF Cancel
  <2> QED BY <1>0, <2>1, CancelKeeps, OwnersContinue DEF IsActive, ActiveStatus
<1>2. CASE Status(s)
  BY <1>0, <1>2, NothingMoves DEF Status
<1>3. CASE Suspend(s)
  BY <1>0, <1>3 DEF Suspend, Saves
<1>4. CASE FocusOn(s)
  <2>1. PICK p \in Paths : IsChain(db, p[1], p) /\ Commit(s, db, p)
    BY <1>4 DEF FocusOn
  <2>2. TakesPath(s, db, p)
    BY <2>1 DEF TakesPath
  <2> QED BY <1>0, <2>1, <2>2 DEF Saves
<1>5. CASE Adopt(s)
  <2>1. PICK p \in Paths : IsChain(db, p[1], p) /\ Commit(s, AdoptTree(db, p[1], s), p)
    BY <1>5 DEF Adopt
  <2>2. p[1] \in Workflow
    BY DEF Paths
  <2>3. AdoptTree(db, p[1], s) \in Database
    BY <1>0, <2>2, AdoptTreeType
  <2>4. TakesPath(s, AdoptTree(db, p[1], s), p)
    BY <1>0, <2>1 DEF TakesPath, AdoptTree, Database, Row
  <2> QED BY <2>1, <2>3, <2>4 DEF Saves
<1>6. CASE InputPlain(s) \/ InputRead(s)
  BY <1>6 DEF InputPlain, InputRead
<1>7. CASE InputOverride(s)
  <2>1. PICK w \in Workflow : /\ db[w].status = "pending_definition"
                              /\ Commit(s, [db EXCEPT ![w].status = "cancelled"], saved[s])
    BY <1>7 DEF InputOverride, Pending
  <2>2. [db EXCEPT ![w].status = "cancelled"] \in Database /\ KeepsOwners(db, [db EXCEPT ![w].status = "cancelled"])
    BY <1>0, <2>1 DEF Database, Row, WorkflowStatus, TerminalStatus, KeepsOwners
  <2> QED BY <2>1, <2>2, OwnersContinue
<1>8. CASE InputRequirement(s)
  BY <1>0, <1>8, StartDefinitionSaves, NothingMoves DEF InputRequirement
<1> QED BY <1>1, <1>2, <1>3, <1>4, <1>5, <1>6, <1>7, <1>8 DEF User

LEMMA HandlerSaves ==
  ASSUME BaseInv, NEW s \in Session, Handler(s)
  PROVE  Saves(s) \/ UNCHANGED <<db, saved>>
<1>0. TypeInv /\ HandlersAnswerCollect /\ db \in Database
  BY DEF BaseInv, TypeInv
<1>1. input[s] \in Busy \cup {IdleInput}
  BY <1>0 DEF TypeInv, HostTypeOK
<1>2. CASE InputRecord(s)
  <2>1. input[s].w \in Workflow
    BY <1>1, <1>2 DEF InputRecord, Busy, IdleInput
  <2>2. ASSUME NEW k \in Pos, CanRecord(input[s].w, k), Commit(s, RecordResult(db, input[s].w, k), saved[s])
        PROVE  Saves(s)
    BY <1>0, <2>1, <2>2, RecordKeeps, OwnersContinue DEF CanRecord, IsActive, ActiveStatus
  <2> QED BY <1>2, <2>2 DEF InputRecord
<1>3. CASE InputEvaluate(s)
  <2> DEFINE w == input[s].w
             k == input[s].k
  <2>1. w \in Workflow /\ k \in Pos /\ db[w].status # "none"
    <3>1. input[s].phase = "recorded"
      BY <1>3 DEF InputEvaluate
    <3>2. input[s] \in Busy
      BY <1>1, <3>1 DEF IdleInput
    <3> QED BY <1>0, <3>1, <3>2 DEF Busy, HandlersAnswerCollect, Undefined
  <2>2. ASSUME NEW v \in Verdict, MayEvaluate(w, k, v), Commit(s, Judge(db, w, k, v), saved[s])
        PROVE  Saves(s)
    BY <1>0, <2>1, <2>2, JudgedKeepsOwners, OwnersContinue DEF MayEvaluate
  <2> QED BY <1>0, <1>3, <2>2, NothingMoves DEF InputEvaluate
<1>4. CASE InputSettle(s)
  BY <1>4 DEF InputSettle
<1> QED BY <1>2, <1>3, <1>4 DEF Handler


-----------------------------------------------------------------------------
(* The invariant: every step keeps every stack leading.                    *)
LEMMA SameRowsLead ==
  ASSUME NEW s \in Session, NEW d \in Database, NEW stack, Commit(s, d, stack), latest[s] \in Nat
  PROVE  /\ db' \in Database
         /\ \A x \in Workflow : /\ db'[x].status = d[x].status /\ db'[x].session = d[x].session
                                /\ db'[x].parent = d[x].parent
                                /\ \A k \in Pos : /\ db'[x].tasks[k].status = d[x].tasks[k].status
                                                  /\ db'[x].tasks[k].child = d[x].tasks[k].child
         /\ LiveStack(d, s, stack) = LiveStack(db', s, stack)
<1>1. db' = Checkpoint(d, s, stack)
  BY DEF Commit
<1>2. /\ db' \in Database
      /\ \A x \in Workflow : /\ db'[x].status = d[x].status /\ db'[x].session = d[x].session
                             /\ db'[x].parent = d[x].parent
  BY <1>1, CheckpointType
<1>3. \A x \in Workflow, k \in Pos : /\ db'[x].tasks[k].status = d[x].tasks[k].status
                                     /\ db'[x].tasks[k].child = d[x].tasks[k].child
  BY <1>1, CheckpointTasks
<1>4. {w \in Workflow : Live(d, s, w)} = {w \in Workflow : Live(db', s, w)}
  BY <1>2 DEF Live, IsActive
<1> QED BY <1>2, <1>3, <1>4 DEF LiveStack

Shaped == BaseInv /\ AllInOrder(db) /\ TreeHasOneOwner /\ Mutual(db)

LEMMA OwnStackLeads ==
  ASSUME Shaped, Shaped', StackInv, NEW s \in Session, Saves(s), Goes(db, db', s)
  PROVE  saved' \in [Session -> Seq(Workflow)] /\ Leads(db', s, saved'[s])
<1>0. /\ db \in Database /\ db' \in Database /\ latest[s] \in Nat /\ saved[s] \in Seq(Workflow)
      /\ OneOwner(db) /\ OneOwner(db') /\ Mutual(db) /\ Mutual(db') /\ AllInOrder(db')
  BY DEF Shaped, BaseInv, TypeInv, HostTypeOK, TreeHasOneOwner, StackInv
<1>1. PICK d, stack :
        /\ d \in Database /\ Commit(s, d, stack)
        /\ Continues(s, d, stack) \/ PutsOnTop(s, d, stack) \/ stack = <<>> \/ TakesPath(s, d, stack)
  BY DEF Saves
<1>2. /\ \A x \in Workflow : /\ db'[x].status = d[x].status /\ db'[x].session = d[x].session
                             /\ db'[x].parent = d[x].parent
                             /\ \A k \in Pos : /\ db'[x].tasks[k].status = d[x].tasks[k].status
                                               /\ db'[x].tasks[k].child = d[x].tasks[k].child
      /\ LiveStack(d, s, stack) = LiveStack(db', s, stack)
  BY <1>0, <1>1, SameRowsLead
<1>3. Leads(db, s, saved[s])
  BY DEF StackInv, StacksLead
<1>4. stack \in Seq(Workflow) /\ Leads(db', s, stack)
  <2>1. CASE Continues(s, d, stack)
    <3>1. stack = saved[s] /\ Gains(db, db', s, {})
      BY <1>2, <2>1 DEF Continues, Gains
    <3> QED BY <1>0, <1>3, <3>1, StackGoesOn
  <2>2. CASE PutsOnTop(s, d, stack)
    <3>1. PICK c \in Workflow : /\ db[c].status = "none" /\ d[c].parent # c /\ Gains(db, d, s, {c})
                                /\ stack = Append(saved[s], c)
      BY <2>2 DEF PutsOnTop
    <3>2. Gains(db, db', s, {c}) /\ db'[c].parent # c
      BY <1>2, <3>1 DEF Gains
    <3> QED BY <1>0, <1>3, <3>1, <3>2, StackGoesOn
  <2>3. CASE stack = <<>>
    BY <2>3 DEF Leads
  <2>4. CASE TakesPath(s, d, stack)
    <3>1. stack \in Paths /\ IsChain(db, stack[1], stack)
      BY <2>4 DEF TakesPath
    <3>2. \A x \in Workflow, k \in Pos : /\ db'[x].tasks[k].status = db[x].tasks[k].status
                                         /\ db'[x].tasks[k].child = db[x].tasks[k].child
      BY <1>2, <2>4 DEF TakesPath
    <3>3. \A w, c \in Workflow : Waiting(db', w, c) <=> Waiting(db, w, c)
      BY <3>2 DEF Waiting, IsCurrent, Open, WaitsFor
    <3>4. stack \in Seq(Workflow) /\ Len(stack) \in Nat \ {0}
      BY <3>1, PathType
    <3>5. IsChain(db', stack[1], stack)
      <4>1. /\ \A i \in 2..Len(stack) : stack[i - 1] \in Workflow /\ stack[i] \in Workflow
            /\ stack[Len(stack)] \in Workflow
        BY <3>4
      <4> QED BY <3>1, <3>3, <4>1 DEF IsChain
    <3> QED BY <1>0, <3>1, <3>5, PathLeads
  <2> QED BY <1>1, <2>1, <2>2, <2>3, <2>4
<1>5. LiveStack(db', s, stack) \in Seq(Workflow) /\ Leads(db', s, LiveStack(db', s, stack))
  BY <1>0, <1>4, LiveStackLeads
<1>6. saved' = [saved EXCEPT ![s] = LiveStack(db', s, stack)]
  BY <1>1, <1>2 DEF Commit
<1> QED BY <1>5, <1>6 DEF StackInv

LEMMA OtherStacksLead ==
  ASSUME Shaped, Shaped', StackInv, NEW s \in Session, Goes(db, db', s), NEW t \in Session \ {s}
  PROVE  Leads(db', t, saved[t])
<1>0. /\ db \in Database /\ db' \in Database /\ saved[t] \in Seq(Workflow)
      /\ OneOwner(db) /\ OneOwner(db') /\ Mutual(db) /\ Mutual(db') /\ Leads(db, t, saved[t])
  BY DEF Shaped, BaseInv, TypeInv, TreeHasOneOwner, StackInv, StacksLead
<1>1. Gains(db, db', t, {})
  BY DEF Gains, Goes, GoesTo
<1> QED BY <1>0, <1>1, StackGoesOn

LEMMA StepStacks ==
  ASSUME Shaped, Shaped', StackInv, [Next]_vars
  PROVE  StackInv'
<1>1. CASE UNCHANGED <<db, saved>>
  BY <1>1 DEF StackInv, StacksLead
<1>2. CASE Next /\ ~UNCHANGED <<db, saved>>
  <2>0. BaseInv /\ TypeInv
    BY DEF Shaped, BaseInv
  <2>1. PICK s \in Session : Agent(s) \/ User(s) \/ Handler(s) \/ Restart(s)
    BY <1>2 DEF Next
  <2>2. Saves(s)
    BY <1>2, <2>0, <2>1, AgentSaves, UserSaves, HandlerSaves DEF Restart
  <2>3. Transaction(s) \/ UNCHANGED db
    BY <2>0, <2>1, AgentIsTransaction, UserIsTransaction, HandlerIsTransaction DEF Restart
  <2>4. Goes(db, db', s)
    <3>1. CASE UNCHANGED db
      BY <3>1 DEF Goes, GoesTo
    <3> QED BY <2>0, <2>3, <3>1, TransactionGoes
  <2>5. saved' \in [Session -> Seq(Workflow)] /\ Leads(db', s, saved'[s])
    BY <2>2, <2>4, OwnStackLeads
  <2>6. \A t \in Session \ {s} : saved'[t] = saved[t]
    BY <2>2 DEF Saves, Commit, StackInv
  <2>7. \A t \in Session \ {s} : Leads(db', t, saved'[t])
    BY <2>4, <2>6, OtherStacksLead
  <2> QED BY <2>5, <2>7 DEF StackInv, StacksLead
<1> QED BY <1>1, <1>2 DEF vars

LEMMA ShapeHolds == Spec => []Shaped
BY BaseHolds, OrderHolds, OneOwnerHolds, MutualHolds, PTL DEF Shaped

LEMMA StacksHold == Spec => []StackInv
<1>1. Init => StackInv
  BY DEF Init, StackInv, StacksLead, Leads
<1>2. Shaped /\ Shaped' /\ StackInv /\ [Next]_vars => StackInv'
  BY StepStacks
<1> QED BY <1>1, <1>2, ShapeHolds, PTL DEF Spec

(* TypeOK in full: the saved stacks are sequences of workflows too, for    *)
(* every filter and path that a transaction saves.                         *)
THEOREM AllTypesHold == Spec => []TypeOK
<1>1. Shaped /\ StackInv => TypeOK
  BY DEF Shaped, BaseInv, TypeInv, StackInv, TypeOK
<1> QED BY <1>1, ShapeHolds, StacksHold, PTL

(* FocusCanAdvance for any number of sessions and trees of any depth: what *)
(* waits always has its child above it in the stack of its session, so the *)
(* topmost live entry waits for nobody, whoever ends, adopts or restores   *)
(* what is in between.                                                     *)
THEOREM FocusAdvances == Spec => []FocusCanAdvance
<1>1. Shaped /\ StackInv => FocusCanAdvance
  <2> SUFFICES ASSUME Shaped, StackInv, NEW s \in Session, NEW w \in Workflow, NEW c \in Workflow,
                      InFocus(s, w), Waiting(db, w, c)
               PROVE  FALSE
    BY DEF FocusCanAdvance
  <2>1. PICK i \in DOMAIN saved[s] : /\ saved[s][i] = w /\ Live(db, s, w)
                                     /\ \A j \in DOMAIN saved[s] : j > i => ~Live(db, s, saved[s][j])
    BY DEF InFocus, OnTop
  <2>2. Expects(db, w, c)
    BY DEF Waiting, Expects
  <2>3. \E j \in DOMAIN saved[s] : j > i /\ saved[s][j] = c
    BY <2>1, <2>2 DEF StackInv, StacksLead, Leads
  <2>4. db[c].parent = w /\ Active(db, c)
    BY <2>1, <2>2 DEF Expects, WaitsFor, Shaped, Mutual, ParentsWait, Live, IsActive, Active
  <2>5. Live(db, s, c)
    BY <2>1, <2>4, TablesAssumption DEF Shaped, TreeHasOneOwner, OneOwner, Live, IsActive, Active
  <2> QED BY <2>1, <2>3, <2>5
<1> QED BY <1>1, ShapeHolds, StacksHold, PTL
=============================================================================
