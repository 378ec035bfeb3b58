SPECIFICATION Spec
CONSTANTS
  Client = {c1, c2}
  Worker = {w1, w2}
  Backlog = 2
  QueueSize = 2
  MaxFd = 6
  Request <- TwoNames
  Page = {"index"}
  Name = {"ann", "bob"}
  MaxRequests = 1
  Patient = FALSE
  Segmented = FALSE
  None = None
CHECK_DEADLOCK FALSE
INVARIANTS
  AnswersRight
