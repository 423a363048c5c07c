\* One borrower whose collateral counts half.
SPECIFICATION AccountSpec
CONSTANTS
  BPS = 4
  YEAR = 2
  Borrowers = {b1}
  Limits = {2}
  Rates = {0}
  Amounts = {2}
  ReverseAmounts <- None
  SettlementIds <- None
  Schedules <- None
  GraceConfigs <- None
  Surcharges <- None
  LateFees <- None
  LateFeeConfigs <- None
  ExposureCaps <- None
  CloseFactors <- None
  RateLimits <- None
  DrawIntervals <- None
  CallMaxima <- None
  UtilCaps <- None
  BorrowerCaps <- None
  LiqGraces <- None
  ReverseWindow = 0
  MaxTs = 6
  MaxTime = 2
  Self = self
  Sources = {reserve}
  Treasuries = {treasury}
  Bounties = {bounty}
  NoAccount = NoAccount
  ReserveFunds = 4
  WalletFunds = 6
  Deposits = {1, 3}
  Ratios = {6}
  Weights = {2}
  ProtocolFees = {0}
  FeeShares = {4}
  Deployments <- PlainOnly
  MaxProtocolFee = 2
  Timelock = 1
  MaxHealth = 20
  b1 = b1
  self = self
  reserve = reserve
  treasury = treasury
  bounty = bounty
PROPERTY WithdrawalKeepsRatio
