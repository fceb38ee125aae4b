SPECIFICATION FairSpec
CONSTANTS
  Threads = {t1, t2}
  Keys = {k1}
  DailyBudget = 2
  RateLimit = 2
  MaxTries = 2
  Window = 1
  DayLength = 2
  CacheTtl = 1
INVARIANTS
  LimitsOvershot
  SentInDay
  PendingIsInFlight
PROPERTIES
  RefusedWhenBusy
  CallEnds
  BudgetComesBack
