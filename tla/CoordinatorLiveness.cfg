SPECIFICATION FairSpec
CONSTANTS
  Key = {"k"}
  Value = {"a", "b"}
  Command <- UpdateAndGet
  PNum = 2
  MaxTxid = 5
  None = None
  Timeouts = FALSE
  CoordinatorCrash = FALSE
  ParticipantCrash = TRUE
PROPERTIES
  RecoveryNotStarved
  EveryClientAnswered
  EverybodyRejoins
