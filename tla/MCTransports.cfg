SPECIFICATION Spec
CONSTANTS
  r1 = r1
  r2 = r2
  Requesters = {r1, r2}
  KeyOnly = KeyOnly
  Torn = Torn
  Settings <- MCSettings
  MaxTokens = 3
  MaxPieces = 2
SYMMETRY Threads
CHECK_DEADLOCK FALSE
INVARIANTS
  TokenKept
  OneResponse
PROPERTIES
  CancelIsOwn
