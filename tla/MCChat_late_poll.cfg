SPECIFICATION Spec
CONSTANTS
  None = None
  Ids = {1, 2}
  Initial = {1}
  MaxTyped = 0
  Lossy = FALSE
  MaxEvents = 2
PROPERTIES
  PollKeepsConversation
CHECK_DEADLOCK FALSE
