SPECIFICATION FairSpec
CONSTANTS
  Batches = {b1}
  Chunks = {0, 1}
  Threads = {t1, t2}
  MaxRows = 2
  CanCrash = TRUE
  DbErrors = TRUE
  FundsHasFundLike = TRUE
  HasReceivedBatches = TRUE
INVARIANTS
  ListedChunksStored
  ThreadSeesDisk
  HandlerOwnsBatch
  CompleteIsIntact
PROPERTIES
  ImplementsIntake
  FullBatchCompletes
