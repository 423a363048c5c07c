\* Repayment of a line whose draw was repaid and then reversed.
SPECIFICATION Spec
CONSTANTS
  BPS = 4
  YEAR = 2
  Borrowers = {b1}
  Limits = {4}
  Rates = {2}
  Amounts = {2}
  ReverseAmounts = {1}
  SettlementIds <- None
  Schedules <- None
  GraceConfigs <- None
  Surcharges <- None
  LateFees <- None
  LateFeeConfigs <- None
  ExposureCaps <- None
  CloseFactors <- None
  RateLimits <- None
  DrawIntervals <- None
  CallMaxima <- None
  UtilCaps <- None
  BorrowerCaps <- None
  LiqGraces <- None
  ReverseWindow = 1
  MaxTs = 6
  MaxTime = 3
  b1 = b1
INVARIANT RepaymentNeverBlocked
