\* creditra-credit, escrow and crowdpay, each with two clients.
SPECIFICATION Spec
CONSTANTS
  MaxTime = 3
  Clients = {a, b}
  Denoms = {x, y}
  LineTerms <- TwoTerms
  DrawAmounts = {1, 2}
  DepositAmounts = {1, 2}
  FeeRates = {0, 2, 4}
  RiskWeights = {1, 4, 5}
  BpsUnit = 4
  MaxFeeBps = 2
  MaxTokens = 1
  HealthCap = 9
  YearSecs = 2
  PageLimits = {1, 2}
  MaxCreditLines = 2
  MaxDraws = 2
  MaxEntries = 3
  Oracles = {a, b}
  OracleWeights = {0, 1}
  FeedValues = {0, 2, 3, 9}
  MaxFeeds = 3
  QuorumConfigs <- Quorums
  RateUnit = 4
  U32 = 8
  U128 = 29
  LateFees <- TwoFees
  Versions <- SomeVersions
  Unset = Unset
  a = a
  b = b
  x = x
  y = y
  Contributors = {c1, c2}
  Funds = 4
  Gifts = {1, 3}
  Withdrawals <- SomeWithdrawals
  MaxApproved = 2
  MaxRaised = 7
  Targets = {4, 5}
  Deadlines = {1}
  Fees = {0, 1, 2}
  FeeUnit = 4
  MaxFee = 1
  Plans <- TwoPlans
  Backers = {c1, c2}
  Savings = 3
  Pledges = {1, 2}
  Goals = {3, 4}
  Ends = {1, 2}
  Ladders <- TwoRungs
  c1 = c1
  c2 = c2
INVARIANT CosmLedgerSound
INVARIANT RefundsCovered
PROPERTY CosmCollateralSound
PROPERTY CosmSettingsSound
PROPERTY EscrowSound
PROPERTY UnfundedIsRefunded
\* A campaign that is over has nothing left to do, and the bounds end every other behaviour.
CHECK_DEADLOCK FALSE
