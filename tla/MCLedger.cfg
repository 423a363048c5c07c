\* Two borrowers, every lifecycle call and every way debt moves.
SPECIFICATION EventSpec
CONSTRAINT Focus
CONSTANTS
  BPS = 4
  YEAR = 2
  Borrowers = {b1, b2}
  Limits = {2}
  Rates = {4}
  Amounts = {2, 3}
  ReverseAmounts = {2}
  SettlementIds = {s1}
  Schedules <- UnitSchedule
  GraceConfigs <- None
  Surcharges <- None
  LateFees <- None
  LateFeeConfigs <- FlatFee
  ExposureCaps = {4, 5}
  CloseFactors = {2, 4}
  RateLimits <- None
  DrawIntervals <- None
  CallMaxima <- None
  UtilCaps <- None
  BorrowerCaps <- None
  LiqGraces <- None
  ReverseWindow = 0
  MaxTs = 6
  MaxTime = 2
  b1 = b1
  b2 = b2
  s1 = s1
INVARIANT TypeOK
INVARIANT TotalUtilizedConserved
INVARIANT CountersExact
INVARIANT FollowersExact
PROPERTY StatusMachineImplemented
PROPERTY DrawWithinCaps
