SPECIFICATION Spec
CONSTANTS
  MaxItems = 1
  MaxTurns = 2
  MaxIterations = 0
  MaxRetries = 1
  MaxCompactions = 1
  RemoteModes <- Modes
CHECK_DEADLOCK FALSE
PROPERTY InterruptEndsTurn
