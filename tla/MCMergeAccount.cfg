CONSTANTS
  alice = alice
  bob = bob
  charlie = charlie
  Accounts <- MCAccounts
  MaxBalance = 2
SYMMETRY MCSymmetry
SPECIFICATION Spec
INVARIANT TypeOKMerge
PROPERTIES
  MergeMovesEverything
