SPECIFICATION AttachSpec
CONSTANTS
  MaxItems = 4
  MaxTurns = 2
  Settings <- MCSettings
CHECK_DEADLOCK FALSE
INVARIANTS
  CaughtUp
  FinishedOnce
PROPERTIES
  QuestionsAreShown
