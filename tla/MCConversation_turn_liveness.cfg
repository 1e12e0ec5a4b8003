SPECIFICATION FairSpec
CONSTANTS
  c1 = c1
  c2 = c2
  r1 = r1
  r2 = r2
  r3 = r3
  None = None
  Conversations = {c1}
  Requests = {r1}
  ConversationOf <- AllOfOne
  Answers = {"yes"}
  MaxQuestions = 1
  Quota = 1
  MaxBorrowed = 0
  BatchLimit = 2
  MaxFaults = 1
  Faults = {"memory", "database", "mark", "finish", "save", "commit", "stop", "shutdown", "crash"}
PROPERTIES
  Settles
  StopsReturn
CHECK_DEADLOCK FALSE
