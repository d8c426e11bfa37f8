CONSTANTS
  TestnetSeeds <- MCTestnetSeeds
  Endowment = 2
  Stash = 1
  None = None
SPECIFICATION Spec
CHECK_DEADLOCK FALSE
INVARIANTS
  GenesisBuildable
