SPECIFICATION FairSpec
CONSTANTS
  Activation = {"template"}
  Kinds <- TwoTasks
  Rules <- SomeRules
  MaxCalls = 2
  MaxAttempts = 1
  MaxInputs = 2
  MaxCommands = 1
  MaxExtensions = 1
INVARIANTS Inv OneCallWhileFocused
PROPERTIES Settles
CHECK_DEADLOCK FALSE
