SPECIFICATION Spec
CONSTANTS
  Batches = {b1}
  NumChunks = 1
  MaxAttempts = 2
  CanResume = TRUE
  Threads = {t1}
  MaxRows = 1
  CanCrash = TRUE
  DbErrors = FALSE
  FundsHasFundLike = FALSE
  HasReceivedBatches = FALSE
  CanLose = TRUE
INVARIANTS
  AckedHasFiles
CHECK_DEADLOCK FALSE
