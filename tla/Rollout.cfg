SPECIFICATION Spec
CONSTANTS
  MaxItems = 3
  MaxTurns = 3
  MaxCompactions = 2
  MaxCrashes = 2
  MaxForks = 1
INVARIANTS PromptWellFormed ContextKnown TextsOnce
PROPERTY SurvivesItsProcess
CHECK_DEADLOCK FALSE
