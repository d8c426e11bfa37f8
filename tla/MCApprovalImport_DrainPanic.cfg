CONSTANTS
  g = g  a1 = a1  a2 = a2  a3 = a3  a4 = a4  a5 = a5  a6 = a6  b4 = b4
  Blocks <- MCBlocks
  Genesis = g
  Parent <- MCParent
  Number <- MCNumber
  SessionForChild <- MCSessionForChild
  AncestryStep = 4
  ApprovalSessions = 2
  Sessions <- MCSessions
  None = None
SPECIFICATION Spec
INVARIANT NoDrainPanic
