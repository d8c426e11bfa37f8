CONSTANTS
  r1 = r1
  r2 = r2
  None = None
  RelayParents <- MCRelayParents
  RelayParentNumber <- MCRelayParentNumber
  MaxProcessed = 0
SPECIFICATION Spec
CHECK_DEADLOCK FALSE
INVARIANTS
  TypeOKCollator
  CollationOnlyFromCompleteState
