\* Two auctions, two bidders, every decay curve; and two lines in default.
SPECIFICATION MCSpec
CONSTANTS
  AuctionIds = {a1, a2}
  Bidders = {p1, p2}
  NoBidder = NoBidder
  Factories = {f1, credit}
  NoFactory = NoFactory
  Bids = {2, 3, 4}
  Configs <- AllModes
  GraceWindows = {1}
  ReusedIds <- None
  Debtors = {d1, d2}
  InitialDebt = 4
  CreditContract = credit
  CloseFactors = {0, 3, 4}
  Recoveries = {0, 2, 3}
  Versions = {v1, v2}
  NoAnswer = NoAnswer
  MajorVersion = v1
  v1 = v1
  d1 = d1
  d2 = d2
  v2 = v2
  NoHook = NoHook
  TopU128 = 12
  credit = credit
  Funds = 5
  BPS = 4
  KeepBps = 3
  MaxDecaySteps = 2
  MaxTs = 6
  MaxTime = 3
  a1 = a1
  a2 = a2
  f1 = f1
  p1 = p1
  p2 = p2
INVARIANT TypeOK
INVARIANT BidsConserved
INVARIANT OneWayOut
INVARIANT SettlementSound
PROPERTY LeaderOutbidOnly
PROPERTY DutchCurvesSound
PROPERTY WinnerPaidOut
