SPECIFICATION FairSpec
CONSTANTS
  None = None
  Notes = {1, 2}
  Good = {"a", "b"}
  Initial = {"a"}
  Refused = {"refused"}
  Huge = {"huge"}
  Blank = {"blank"}
  Accounts = {"me", "other"}
  Batch = 1
  MaxAttempts = 3
  MaxEdits = 1
  MaxFaults = 2
INVARIANTS
  TypeOK
  SavedIsHeld
PROPERTIES
  OneIdPerText
  EventuallyCaptured
CHECK_DEADLOCK FALSE
