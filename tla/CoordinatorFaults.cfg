SPECIFICATION Spec
CONSTANTS
  Key = {"k"}
  Value = {"a", "b"}
  Command <- OtherCommands
  PNum = 2
  MaxTxid = 6
  None = None
  Timeouts = TRUE
  CoordinatorCrash = TRUE
  ParticipantCrash = TRUE
INVARIANTS
  TypeOK
  SocketExclusive
  TempCounted
  WorkingInSync
  LogComplete
  NoneLeftBehind
PROPERTIES
  CommittedStable
