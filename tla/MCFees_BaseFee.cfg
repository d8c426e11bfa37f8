CONSTANTS
  Millicent = 1000
  ExtrinsicBaseWeight = 25
  Weights <- MCWeights
SPECIFICATION Spec
CHECK_DEADLOCK FALSE
INVARIANTS
  ExtrinsicBaseFeeIsCorrect
