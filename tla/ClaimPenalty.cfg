\* One borrower with a schedule and a penalty surcharge.
SPECIFICATION EventSpec
CONSTANTS
  BPS = 4
  YEAR = 1
  Borrowers = {b1}
  Limits = {2}
  Rates = {2}
  Amounts = {1, 2}
  ReverseAmounts <- None
  SettlementIds <- None
  Schedules <- UnitSchedule
  GraceConfigs <- None
  Surcharges = {2}
  LateFees <- None
  LateFeeConfigs <- None
  ExposureCaps <- None
  CloseFactors <- None
  RateLimits <- None
  DrawIntervals <- None
  CallMaxima <- None
  UtilCaps <- None
  BorrowerCaps <- None
  LiqGraces <- None
  ReverseWindow = 0
  MaxTs = 6
  MaxTime = 5
  b1 = b1
PROPERTY PenaltyExitReported
