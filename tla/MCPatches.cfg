SPECIFICATION PatchesSpec
CONSTANTS
  Scripts <- MCScripts
  PatchHooks <- MCHooks
  PatchProviders <- MCProviders
  Foreign <- MCForeign
  MaxForeign = 1
CHECK_DEADLOCK FALSE
INVARIANTS
  TurnDiffIsNet
  AllOrNothing
  PatchedAsAsked
