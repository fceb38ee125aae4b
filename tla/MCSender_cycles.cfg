SPECIFICATION FairSpec
CONSTANTS
  Batches = {b1, b2}
  NumChunks = 3
  MaxAttempts = 3
  CanResume = TRUE
INVARIANTS
  AckedIsConfirmed
  ReceivedIsConfirmed
PROPERTIES
  CycleEnds
CHECK_DEADLOCK FALSE
