SPECIFICATION Spec
CONSTANTS
  MaxPrompts = 3
  MaxStops = 2
CHECK_DEADLOCK FALSE
INVARIANTS
  OneRunner
  PromptOrder
PROPERTY PromptsSettle
