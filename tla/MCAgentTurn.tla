----------------------------- MODULE MCAgentTurn -----------------------------
(* A workflow of an Action and a Collect task, up to two sibling calls, and *)
(* one guardrail configuration, with rules at every stage.                  *)
EXTENDS AgentTurn

TwoTasks == <<"action", "collect">>
Everywhere ==
  [s \in Stage |-> IF s = "output" THEN <<"evaluate", "reflect", "transform">>
                   ELSE <<"transform", "evaluate">>]
SomeRules == {Everywhere}
=============================================================================
