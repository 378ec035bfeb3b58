SPECIFICATION Spec
CONSTANTS
  Key = {"k"}
  Value = {"a", "b"}
  Command <- TwoUpdates
  PNum = 2
  MaxTxid = 6
  None = None
  Timeouts = TRUE
  CoordinatorCrash = FALSE
  ParticipantCrash = FALSE
INVARIANTS
  LogAgreement
