SPECIFICATION Spec
CONSTANTS
  Workflow = {w1}
  NoWorkflow = NoWorkflow
  Session = {s1, s2}
  NoSession = NoSession
  MaxTasks = 2
  MaxActionAttempts = 1
  AttemptBound = 1
  Definition <- CollectDefinitions
  Evaluator = {"llm", "system_one"}
  Activation = {"definition", "template"}
  MaxMessages = 2
SYMMETRY SessionSymmetry
INVARIANT TasksInOrder
PROPERTIES DefinitionIsKept OwnerNeedsNewMessage
