CONSTANTS
  ApprovalSessions = 6
  None = None
  Sessions <- MCSessions
INIT InitWindow
NEXT NextWindow
INVARIANT TypeOKWindow
PROPERTIES
  WindowRefinesAbstract
  FetchOnlyMissing
