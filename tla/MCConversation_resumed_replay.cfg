SPECIFICATION Spec
CONSTANTS
  c1 = c1
  c2 = c2
  r1 = r1
  r2 = r2
  r3 = r3
  None = None
  Conversations = {c1}
  Requests = {r1}
  ConversationOf <- AllOfOne
  Answers = {"yes"}
  MaxQuestions = 1
  Quota = 1
  MaxBorrowed = 0
  BatchLimit = 1
  MaxFaults = 2
  Faults = {"mark", "crash"}
PROPERTIES
  ResumedNotReplayed
CHECK_DEADLOCK FALSE
