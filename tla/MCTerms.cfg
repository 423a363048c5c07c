\* One borrower's interest and terms.
SPECIFICATION PartSpec
CONSTANTS
  BPS = 4
  YEAR = 2
  Borrowers = {b1}
  Limits = {4}
  Rates = {2, 3, 4}
  Amounts = {2}
  ReverseAmounts = {1}
  SettlementIds <- None
  Schedules <- UnitSchedule
  GraceConfigs <- GraceBoth
  Surcharges = {1}
  LateFees <- None
  LateFeeConfigs <- None
  ExposureCaps <- None
  CloseFactors <- None
  RateLimits <- OneBpsPerUnit
  DrawIntervals = {1}
  CallMaxima <- None
  UtilCaps = {3}
  BorrowerCaps = {2}
  LiqGraces = {1}
  ReverseWindow = 1
  MaxTs = 6
  MaxTime = 4
  b1 = b1
INVARIANT StampsSound
INVARIANT InterestWithinDebt
PROPERTY FreshDebtStartsClock
PROPERTY ClosedLineReopensEmpty
PROPERTY DrawWithinCaps
PROPERTY DefaultWaitsOutGrace
