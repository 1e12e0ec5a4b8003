SPECIFICATION FairSpec
CONSTANTS
  None = None
  Paths = {1, 2}
  Plain = {"a"}
  Initial = {"a"}
  Huge = {"huge"}
  Policies = {"none", "duplicates", "archived"}
  Batch = 1
  MaxEvents = 2
INVARIANTS
  TypeOK
  NothingLost
  ExportBacked
PROPERTIES
  CleanedIsHeld
  CopyStays
  EventuallyVerified
CHECK_DEADLOCK FALSE
