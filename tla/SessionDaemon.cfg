SPECIFICATION Spec
CONSTANTS
  Clients = {c1, c2}
  MaxPrompts = 2
  MaxCompacts = 1
CHECK_DEADLOCK FALSE
INVARIANTS
  OneTurnThread
  TurnsInOrder
PROPERTIES
  PromptsSettle
  IdleWorkerStops
