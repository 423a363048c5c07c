\* A borrower's rate floor, set and cleared.
SPECIFICATION Spec
CONSTANTS
  Parts = {"pricing"}
  MaxTime = 4
  Admins = {a1, a2}
  Holders = {h1, h2}
  h1 = h1
  h2 = h2
  Reasons = {r1}
  FreezeReasons = {f1}
  Delays = {0, 2}
  Expiries = {2, 4}
  Cooldowns = {0, 2}
  Nobody = Nobody
  Feeders = {o1, o2, o3}
  Weights = {0, 1, 2}
  Values = {0, 3, 4, 6}
  MaxOracles = 3
  Thresholds = {0, 2}
  Windows = {1}
  SingleRules <- SomeSingleRules
  QuorumRules <- SomeQuorumRules
  Unit = 4
  U32Max = 4
  I128Max = 5
  Rates = {0, 3, 7}
  Scores = {0, 1, 2, 3}
  Limits = {0, 2, 4}
  Formulas <- SomeFormulas
  Floors = {2, 3, 7}
  ChangeRules <- SomeChangeRules
  LimitRules <- SomeLimitRules
  TopRate = 5
  TopScore = 2
  TopU32 = 7
  Hashes <- SomeHashes
  Trees <- SomeTrees
  x = x
  y = y
  z = z
  w = w
  Owners = {b1, b2, b3, b4}
  PageSizes = {1, 2, 3}
  MaxPage = 2
  NoCursor = NoCursor
  Users = {u1, u2}
  OldBalances = {1}
  Sums = {0, 1, 2}
  TopBalance = 2
  Keepers = {k1, k2}
  RestTimes = {0, 2}
  Absent = Absent
INVARIANT FloorCanBeCleared
CHECK_DEADLOCK FALSE
