SPECIFICATION Spec
CONSTANTS
  MaxItems = 3
  MaxTurns = 2
  MaxIterations = 3
  MaxRetries = 1
  MaxCompactions = 2
  RemoteModes <- Modes
CHECK_DEADLOCK FALSE
INVARIANTS
  TypeOK
  PipelineOrdered
  AimHonoured
  OnlyLateInputIsLost
  RequestsCarryContext
  InterruptStopsRequests
