SPECIFICATION FairSpec
CONSTANTS
  c1 = c1
  c2 = c2
  r1 = r1
  r2 = r2
  r3 = r3
  None = None
  Conversations = {c1}
  Requests = {r1, r2}
  ConversationOf <- AllOfOne
  Answers = {}
  MaxQuestions = 1
  Quota = 1
  MaxBorrowed = 0
  BatchLimit = 1
  MaxFaults = 0
  Faults = {}
PROPERTIES
  Delivered
CHECK_DEADLOCK FALSE
