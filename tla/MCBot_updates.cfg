SPECIFICATION Spec
CONSTANTS
  Users = {u1}
  Symbols = {s1}
  Typed = {s1}
  Numbers = {1, 2}
  None = None
  MaxInbox = 2
INVARIANTS SummaryIsComplete ReplayWritesTheSame
PROPERTIES ConfirmedWasTried CostLostOnlyByFix EveryUpdateTried
