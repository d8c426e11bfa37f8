CONSTANTS
  rChain = rChain
  rExh = rExh
  None = None
  Requests <- MCRequests
  Kind <- MCKind
  WasmChoices <- MCWasmChoices
SPECIFICATION LiveSpec
CHECK_DEADLOCK FALSE
INVARIANTS
  TypeOKCV
  ValidImpliesChecked
  BadParentOnlyIfNoAssumptionMatches
PROPERTIES
  ReceivedRequestAnswered
