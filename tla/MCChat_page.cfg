SPECIFICATION FairSpec
CONSTANTS
  None = None
  Ids = {1, 2}
  Initial = {1}
  MaxTyped = 1
  Lossy = TRUE
  MaxEvents = 3
INVARIANTS
  TypeOK
  RecordedOnce
  OneWriter
PROPERTIES
  ClearedIsRecorded
  EventuallyFresh
CHECK_DEADLOCK FALSE
