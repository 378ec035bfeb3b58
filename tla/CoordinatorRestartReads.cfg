SPECIFICATION HistorySpec
CONSTANTS
  Key = {"k"}
  Value = {"a", "b"}
  Command <- UpdateAndGet
  PNum = 2
  MaxTxid = 6
  None = None
  Timeouts = FALSE
  CoordinatorCrash = TRUE
  ParticipantCrash = TRUE
INVARIANTS
  AckedReadBack
