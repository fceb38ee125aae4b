SPECIFICATION Spec
CONSTANTS
  Universe <- MCUniverse
  Quotes <- MCQuotes
  Listable = {"x"}
  Prices = {1, 2}
  ChunkSize = 2
  None = None
  Torn = Torn
INVARIANT PendingRebuilds
PROPERTY DeltaCoversChange
