SPECIFICATION Spec
CONSTANTS
  Providers = {"brs", "localdb"}
  MaxAge = 2
  TTL = 1
  Threshold = 2
  Calls = 1
  Enough = 1
  Target = 1
  ListSizes = {0, 1}
  None = None
  Torn = Torn
INVARIANTS LiveIsReal LiveIsRecent
PROPERTIES RealSnapshotWins LiveAgain
