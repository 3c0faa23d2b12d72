------------------------- MODULE MCSequentialWorkflow -------------------------
(* Values for the constants of SequentialWorkflow. *)
EXTENDS WorkflowProperties, TLC

T(type, criteria) == [type |-> type, criteria |-> criteria]

(* Nesting: a workflow task with and without criteria, in last place and   *)
(* before another task.                                                    *)
NestedDefinitions ==
  { <<T("workflow", FALSE)>>, <<T("workflow", TRUE), T("action", TRUE)>>,
    <<T("action", FALSE)>> }

(* A Collect task before one that is evaluated, a child, and a definition  *)
(* the code refuses.                                                       *)
CollectDefinitions ==
  { <<T("collect", TRUE), T("evaluate", FALSE)>>, <<T("workflow", FALSE)>>,
    <<T("collect", FALSE)>> }

WorkflowSymmetry == Permutations(Workflow)
SessionSymmetry == Permutations(Session)
Symmetry == WorkflowSymmetry \cup SessionSymmetry
=============================================================================
