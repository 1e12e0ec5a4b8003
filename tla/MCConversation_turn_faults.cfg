SPECIFICATION Spec
CONSTANTS
  c1 = c1
  c2 = c2
  r1 = r1
  r2 = r2
  r3 = r3
  None = None
  Conversations = {c1}
  Requests = {r1}
  ConversationOf <- AllOfOne
  Answers = {"yes", "no"}
  MaxQuestions = 1
  Quota = 1
  MaxBorrowed = 1
  BatchLimit = 1
  MaxFaults = 3
  Faults = {"memory", "database", "mark", "finish", "save", "commit", "stop", "shutdown", "crash"}
INVARIANTS
  TypeOK
  JobOwnsReply
  QuestionMatchesReply
  PermitAccounting
  StoppedRunStaysStopped
PROPERTIES
  QuestionsFinal
CHECK_DEADLOCK FALSE
