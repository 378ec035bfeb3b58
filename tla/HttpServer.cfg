SPECIFICATION FairSpec
CONSTANTS
  Client = {c1,c2,c3}
  Worker = {w1,w2}
  Backlog = 1
  QueueSize = 1
  MaxFd = 4
  Request <- EachKind
  Page = {"index"}
  Name = {"ann", "bob"}
  MaxRequests = 1
  Patient = TRUE
  Segmented = TRUE
  None = None
CHECK_DEADLOCK FALSE
INVARIANTS
  TypeOK
  DescriptorsLive
  AnswersRight
PROPERTIES
  EveryRequestAnswered
