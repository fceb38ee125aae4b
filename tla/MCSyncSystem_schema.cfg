SPECIFICATION FairSpec
CONSTANTS
  Batches = {b1}
  NumChunks = 1
  MaxAttempts = 3
  CanResume = FALSE
  Threads = {t1, t2}
  MaxRows = 2
  CanCrash = FALSE
  DbErrors = FALSE
  FundsHasFundLike = FALSE
  HasReceivedBatches = FALSE
  CanLose = FALSE
PROPERTIES
  ExportedReachesHistory
CHECK_DEADLOCK FALSE
