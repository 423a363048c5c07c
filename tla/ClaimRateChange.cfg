\* A rate change after a period whose interest rounds to zero.
SPECIFICATION Spec
CONSTANTS
  BPS = 4
  YEAR = 2
  Borrowers = {b1}
  Limits = {4}
  Rates = {1, 2}
  Amounts = {1}
  ReverseAmounts <- None
  SettlementIds <- None
  Schedules <- None
  GraceConfigs <- None
  Surcharges <- None
  LateFees <- None
  LateFeeConfigs <- None
  ExposureCaps <- None
  CloseFactors <- None
  RateLimits <- None
  DrawIntervals <- None
  CallMaxima <- None
  UtilCaps <- None
  BorrowerCaps <- None
  LiqGraces <- None
  ReverseWindow = 0
  MaxTs = 6
  MaxTime = 3
  b1 = b1
PROPERTY RateChangeNotRetroactive
