SPECIFICATION Spec
CONSTANTS
  Workflow = {w1, w2, w3}
  NoWorkflow = NoWorkflow
  Session = {s1, s2}
  NoSession = NoSession
  MaxTasks = 2
  MaxActionAttempts = 2
  AttemptBound = 2
  Definition <- NestedDefinitions
  Evaluator = {"llm"}
  Activation = {}
  MaxMessages = 0
SYMMETRY Symmetry
INVARIANTS TypeOK WaitingIsMutual TreeHasOneOwner FocusCanAdvance
PROPERTIES AcceptedInTurn TerminalIsFinal
