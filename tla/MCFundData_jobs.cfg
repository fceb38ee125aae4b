SPECIFICATION FundSpec
CONSTANTS
  Isins = {"gold","bond"}
  Symbols = {1,2,3}
  Owner <- MCOwner
  Suffixed = {}
  FirstDay <- MCFirstDay
  FirstList <- MCFirstList
  Days = 2
  QuoteDates = "gregorian"
  MinDays = 1
  MaxFunds = 1
  Syncers = {"cron", "operator"}
  Scheduled = "cron"
  MaxChanges = 1
  Absent = Absent
INVARIANT RowsOfOneFund
PROPERTIES UniverseFollowsMarket FundsServed
CHECK_DEADLOCK FALSE
