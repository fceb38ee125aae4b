CONSTANTS
  None = None
  Raised = Raised
  Unreadable = Unreadable
  Short = 2
  Long = 3
  RsiDays = 2
  Fast = 2
  Slow = 3
  Year = 3
  MaxAlignment = 5
  IdealAlignment = 1
  Now = 9
  Day = 100
  Days5 = 2
  Days14 = 2
  Days20 = 2
  Days50 = 3
  Days60 = 3
  Days90 = 3
  Days200 = 4
  Fallback = 2
  Knowns <- MCKnowns
  Markets <- MCMarkets
  Funds <- MCFunds
  Boards <- MCBoards
  Histories <- MCHistories
  Volatilities = {low, very_high}
  Prices <- MCPrices
  Tables <- MCTables
  Universes <- MCUniverses
  Portfolios <- MCPortfolios
  Windows = {1, 2}
  Charts = {2, 3}
  Shared = 3
  Longest = 3
SPECIFICATION Spec
INVARIANTS
  ClaimsCiteFacts
  RegimeIsSupported
  DirectionsAgree
  SuccessIsComplete
  DominanceRespected
  PortfolioAgrees
