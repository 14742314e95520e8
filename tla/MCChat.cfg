SPECIFICATION ChatSpec
CONSTANTS
  Commands <- MCCommands
  Menus <- MCMenus
  DefaultName <- MCDefault
  InitPrompt <- MCInit
  AskModes = {"Plan"}
  MaxPrompts = 3
CHECK_DEADLOCK FALSE
INVARIANTS
  EachPromptOnce
  CommandsWaitTheirTurn
PROPERTIES
  QueueDrains
