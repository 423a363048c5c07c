\* One borrower, an external reserve, fees and late fees.
SPECIFICATION AccountSpec
CONSTRAINT Focus
CONSTANTS
  BPS = 4
  YEAR = 1
  Borrowers = {b1}
  Limits = {2}
  Rates = {4}
  Amounts = {2}
  ReverseAmounts <- None
  SettlementIds <- None
  Schedules <- UnitSchedule
  GraceConfigs <- None
  Surcharges <- None
  LateFees = {2}
  LateFeeConfigs <- None
  ExposureCaps <- None
  CloseFactors <- None
  RateLimits <- None
  DrawIntervals <- None
  CallMaxima = {1}
  UtilCaps <- None
  BorrowerCaps <- None
  LiqGraces <- None
  ReverseWindow = 0
  MaxTs = 6
  MaxTime = 2
  Self = self
  Sources = {reserve}
  Treasuries = {treasury}
  Bounties = {bounty}
  NoAccount = NoAccount
  ReserveFunds = 2
  WalletFunds = 5
  Deposits = {3}
  Ratios = {7}
  Weights = {2}
  ProtocolFees = {0}
  FeeShares = {4}
  Deployments <- FeesOnly
  MaxProtocolFee = 2
  Timelock = 1
  MaxHealth = 20
  b1 = b1
  self = self
  reserve = reserve
  treasury = treasury
  bounty = bounty
INVARIANT VaultTypeOK
INVARIANT CustodyExact
INVARIANT TotalCollateralConserved
INVARIANT PendingWithdrawalCovered
INVARIANT AccountExact
PROPERTY ViewsSound
PROPERTY MoneyMatchesDebt
PROPERTY TreasuryTimelocked
