SPECIFICATION Spec
CONSTANTS
  None = None
  Window = 1
  MaxCalls = 2
  MaxListeners = 2
  MaxMoves = 4
  MaxOperations = 4
  MaxConnections = 3
  MaxRequests = 1
  MaxWork = 3
  MaxTurns = 3
  Before = {2}
  MaxText = 2
  MaxSelections = 2
  PageOfTurns = 2
  MaxUnderWay = 2
  MaxUses = 4
  MaxProviders = 3
  Width = 2
  MaxSearches = 2
  MaxMessages = 2
  MaxContent = 2
  Chunk = 1
  MaxDrawings = 3
  Parts = {"calls", "drops", "dialog", "cloud", "panel", "transcript", "models", "drawing"}
INVARIANTS
  GivenOnce
  ShownWhole
  
PROPERTIES
  ComesToRest
CHECK_DEADLOCK FALSE
