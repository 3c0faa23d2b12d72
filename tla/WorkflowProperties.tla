-------------------------- MODULE WorkflowProperties --------------------------
(* What the Sequential Workflow tables and sessions promise.               *)
EXTENDS SequentialWorkflow

-----------------------------------------------------------------------------
(* Task k is the front of the row: everything before it is accepted and    *)
(* nothing after it has begun.                                             *)
Front(row, k) ==
  /\ k \in Pos
  /\ \A j \in Pos : j < k => row.tasks[j].status = "accepted"
  /\ \A j \in Pos : j > k => row.tasks[j].status \in {"pending", "absent"}

(* The status pair a live workflow and its front task may have.            *)
Matches(row, task) ==
  \/ row.status = "running" /\ task.status = "running" /\ task.type # "collect"
     /\ task.child = NoWorkflow
  \/ row.status = "running" /\ task.status = "waiting_subworkflow" /\ task.type = "workflow"
  \/ row.status = "awaiting_user" /\ task.status = "awaiting_user" /\ task.type = "collect"
  \/ row.status = "evaluating" /\ task.status = "evaluating" /\ task.type # "evaluate"

Sparse(row) == \A i, j \in Pos : (i < j /\ row.tasks[i].status = "absent")
                                    => row.tasks[j].status = "absent"

RowInOrder(row) ==
  /\ Sparse(row)
  /\ row.status \in {"none", "pending_definition"}
       => \A k \in Pos : row.tasks[k].status = "absent"
  /\ row.status \in {"running", "awaiting_user", "evaluating"}
       => \E k \in Pos : Front(row, k) /\ Matches(row, row.tasks[k])
  /\ row.status = "completed"
       => \A k \in Pos : row.tasks[k].status \in {"accepted", "absent"}
  /\ row.status = "failed"
       => \E k \in Pos : Front(row, k) /\ row.tasks[k].status = "failed"
  /\ row.status = "cancelled"
       => \/ \A k \in Pos : row.tasks[k].status = "absent"
          \/ \E k \in Pos : Front(row, k) /\ row.tasks[k].status \in FrontStatus

(* Tasks run strictly in order and the status of a workflow always agrees  *)
(* with that of its tasks, whichever session, command, evaluator or ending *)
(* child moved it ("strictly ordered", README.md:360).                     *)
TasksInOrder == \A w \in Workflow : RowInOrder(db[w])

(* Parent and child agree through every creation, retry, cancellation and  *)
(* cascade: an active workflow waits only for an active child of its own,  *)
(* and an active child of an active parent is the one the parent waits for,*)
(* so no parent waits for an ended child or runs beside a live one.        *)
ParentWaits(p) ==
  \A k \in Pos : (IsActive(db, p) /\ db[p].tasks[k].status = "waiting_subworkflow") =>
     /\ db[p].tasks[k].child \in Workflow
     /\ db[db[p].tasks[k].child].parent = p
     /\ IsActive(db, db[p].tasks[k].child)
ChildAwaited(c) ==
  LET p == db[c].parent
  IN  (p # NoWorkflow /\ IsActive(db, p) /\ IsActive(db, c)) =>
        \E k \in Pos : WaitsFor(db[p], k, c)
WaitingIsMutual == \A w \in Workflow : ParentWaits(w) /\ ChildAwaited(w)

(* A workflow belongs to the session of its parent, however often the tree *)
(* is adopted while it grows ("adoption transfers the entire tree",        *)
(* README.md:363).                                                         *)
OneOwner(d) ==
  \A c \in Workflow :
     /\ d[c].parent # NoWorkflow =>
          d[c].session = d[d[c].parent].session /\ d[d[c].parent].status # "none"
     /\ d[c].status = "none" => d[c].parent = NoWorkflow
TreeHasOneOwner == OneOwner(db)

(* The workflow in focus is never one that waits for its child: the agent  *)
(* is always shown a task somebody can advance, after any mix of children  *)
(* ending, trees changing owner and stacks saved before that.              *)
FocusCanAdvance ==
  \A s \in Session, w \in Workflow :
     InFocus(s, w) => \A c \in Workflow : ~Waiting(db, w, c)

-----------------------------------------------------------------------------
(* A task becomes accepted only as the current task of an active workflow; *)
(* one with criteria only after its result was recorded; one that waited   *)
(* for a child only when that child completed in the same step.            *)
AcceptedInTurn ==
  [][\A w \in Workflow, k \in Pos :
       LET old == db[w].tasks[k]
           new == db'[w].tasks[k]
       IN  (new.status = "accepted" /\ old.status # "accepted") =>
             /\ IsActive(db, w) /\ IsCurrent(db[w], k)
             /\ old.status = "waiting_subworkflow" =>
                  ~old.criteria /\ db'[old.child].status = "completed"
             /\ (old.criteria /\ old.type # "evaluate" /\ "system_one" \notin Evaluator) =>
                  old.status = "evaluating"]_vars

(* A terminal workflow is final: no late child, stale handler or adoption  *)
(* reactivates it or accepts another of its tasks.                         *)
TerminalIsFinal ==
  [][\A w \in Workflow : db[w].status \in TerminalStatus =>
       /\ db'[w].status = db[w].status
       /\ \A k \in Pos : db'[w].tasks[k].status = "accepted"
                           => db[w].tasks[k].status = "accepted"]_vars

(* A definition is supplied once: from then on no second create, adoption, *)
(* late handler or reused pending row replaces the tasks of a workflow.    *)
DefinitionIsKept ==
  [][\A w \in Workflow : db[w].status \notin {"none", "pending_definition"} =>
       \A k \in Pos : /\ db'[w].tasks[k].type = db[w].tasks[k].type
                      /\ db'[w].tasks[k].criteria = db[w].tasks[k].criteria
                      /\ db[w].tasks[k].status = "accepted"
                           => db'[w].tasks[k].status = "accepted"]_vars

(* A Collect task stops awaiting its user.                                 *)
Answered(w, k) ==
  /\ db[w].tasks[k].type = "collect" /\ db[w].tasks[k].status = "awaiting_user"
  /\ \/ db'[w].tasks[k].status # "awaiting_user"
     \/ db'[w].tasks[k].attempts # db[w].tasks[k].attempts

(* It does so for a message submitted after it began to await: one in the  *)
(* owner's branch, or the one an input handler records in this step.       *)
NewMessageFor(w, k) ==
  \/ \E s \in Session : s = db[w].session /\ latest[s] > asked[w][k].at
  \/ \E s \in Session : /\ input[s].phase = "read" /\ input'[s].phase = "recorded"
                        /\ input[s].w = w /\ input[s].msg > asked[w][k].at

(* "Collect requires a subsequent user message" (README.md:362): it does   *)
(* unless a handler still works on an older message, the workflow changes  *)
(* its owner, or another session than its owner puts the question back     *)
(* (Asks): a retried, restored or resumed question, a restart or a message *)
(* of another session never lets the old answer pass.                      *)
OwnerNeedsNewMessage ==
  [][\A w \in Workflow, k \in Pos :
       (Answered(w, k) /\ ~asked[w][k].excused) => NewMessageFor(w, k)]_vars

=============================================================================
