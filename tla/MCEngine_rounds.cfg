SPECIFICATION StepsSpec
CONSTANTS
  a = a
  b = b
  NoId = NoId
  Ids = {a, b}
  Budget = 3
  MaxCalls = 2
  MaxImages = 1
  Checkpoints <- Old
  None = None
  Inputs = {x, y}
  Actions = {d}
  MaxReplies = 1
  MaxFaults = 2
  Limit = 2
INVARIANTS
  TypeOK
  Ledger
  ExecutedOnce
  AnsweredBeforeShown
  LatestImagesOnly
  BudgetKept
  TasksKept
CHECK_DEADLOCK FALSE
