SPECIFICATION Spec
CONSTANTS
  Key = {"k"}
  Value = {"a", "b"}
  Command <- MixedCommands
  PNum = 2
  MaxTxid = 6
  None = None
  Timeouts = FALSE
  CoordinatorCrash = FALSE
  ParticipantCrash = TRUE
INVARIANTS
  LogAgreement
PROPERTIES
  ImplementsAtomicStore
