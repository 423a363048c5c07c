--------------------------- MODULE EventLogProofs ---------------------------
(***************************************************************************)
(* Theorems about what readers of the credit contract may conclude, for    *)
(* any accounts, amounts and ledger: the views of Views, the accountant of *)
(* VaultEvents and the indexer of EventLog.                                *)
(*                                                                         *)
(* Both followers fold an operator over the events of a call (SeqFolds).   *)
(* The indexer's proof reads a call's events in three stages: after the    *)
(* accrual events the book shows the accrued line, after the accruals of   *)
(* other lines it shows those too, and the call's own events bring it to   *)
(* the stored line.                                                        *)
(***************************************************************************)
EXTENDS VaultEvents, EventLog, CreditVaultProofs, SequenceTheorems

-----------------------------------------------------------------------------
(* Views *)

\* The requirement of a debt is at least one unit as soon as there is something to require.
LEMMA RequiredCollateralFacts ==
  ASSUME VaultTypeOK, NEW debt \in Int
  PROVE  /\ RequiredCollateral(debt) \in Int
         /\ debt > 0 /\ vault.min_ratio > 0 => RequiredCollateral(debt) > 0
         /\ debt > 0 /\ vault.min_ratio = 0 => RequiredCollateral(debt) = 0
<1> DEFINE r == vault.min_ratio
           n == debt * r
           size == MaxOf(n, -n)
           d == size \div BPS
           m == size % BPS
<1>1. BPS \in Nat \ {0} /\ r \in Nat
  BY ScaleAssumption DEF VaultTypeOK, VaultConfig
<1>2. n \in Int /\ (debt > 0 /\ r > 0 => n > 0) /\ (r = 0 => n = 0)
  <2>1. n \in Int
    BY <1>1
  <2>2. debt > 0 /\ r > 0 => n > 0
    <3> HIDE DEF r
    <3> QED
      BY <1>1
  <2> QED
    BY <1>1, <2>1, <2>2
<1> HIDE DEF n
<1>3. size \in Nat /\ (n > 0 => size = n) /\ (n = 0 => size = 0)
  BY <1>2 DEF MaxOf
<1> HIDE DEF size
<1>4. /\ d \in Nat /\ m \in Nat /\ m < BPS /\ size = BPS * d + m
      /\ (size = 0 => d = 0 /\ m = 0)
  BY <1>1, <1>3, SMTT(30)
<1>5. d = 0 => size = m
  BY <1>1, <1>3, <1>4
<1>6. RequiredCollateral(debt)
        = IF m = 0 THEN (IF n >= 0 THEN d ELSE -d) ELSE (IF n >= 0 THEN d ELSE -d) + 1
  BY DEF RequiredCollateral, n, size
<1> HIDE DEF d, m
<1> QED
  BY <1>1, <1>2, <1>3, <1>4, <1>5, <1>6 DEF r

\* A quotient scaled by BPS reaches BPS exactly when the dividend reaches the divisor.
LEMMA ScaledQuotient ==
  ASSUME NEW w \in Nat, NEW r \in Nat \ {0}
  PROVE  (w * BPS) \div r \in Nat /\ ((w * BPS) \div r >= BPS <=> w >= r)
<1> DEFINE p == w * BPS
           q == p \div r
           s == r * q
<1>1. BPS \in Nat \ {0}
  BY ScaleAssumption
<1>2. p \in Nat
  BY <1>1
<1> HIDE DEF p
<1>3. q \in Nat /\ s <= p /\ p < s + r
  BY <1>2, SMTT(30)
<1> HIDE DEF q
<1>4. ASSUME w >= r PROVE q >= BPS
  <2>1. p >= r * BPS
    BY <1>1, <1>4 DEF p
  <2>2. ASSUME q < BPS PROVE FALSE
    <3>1. q + 1 <= BPS
      BY <1>1, <1>3, <2>2
    <3>2. r * (q + 1) <= r * BPS
      BY <1>1, <1>3, <3>1
    <3>3. r * (q + 1) = s + r
      BY <1>3
    <3>4. r * BPS \in Int /\ s \in Int
      BY <1>1, <1>3
    <3> DEFINE rb == r * BPS
    <3> HIDE DEF rb, s
    <3> QED
      BY <1>2, <1>3, <2>1, <3>2, <3>3, <3>4 DEF rb
  <2> QED
    BY <1>1, <1>3, <2>2
<1>5. ASSUME q >= BPS PROVE w >= r
  <2>1. s >= r * BPS
    BY <1>1, <1>3, <1>5
  <2>2. w * BPS >= r * BPS
    <3> DEFINE rb == r * BPS
    <3>1. rb \in Int /\ s \in Int
      BY <1>1, <1>3
    <3>2. p >= rb
      <4> HIDE DEF rb, s
      <4> QED
        BY <1>2, <1>3, <2>1, <3>1 DEF rb
    <3> QED
      BY <3>2 DEF p, rb
  <2>3. ASSUME w < r PROVE FALSE
    <3>1. (r - w) * BPS > 0
      BY <1>1, <2>3
    <3>2. (r - w) * BPS = r * BPS - w * BPS
      BY <1>1
    <3>3. r * BPS \in Int /\ w * BPS \in Int
      BY <1>1
    <3> QED
      BY <2>2, <3>1, <3>2, <3>3
  <2> QED
    BY <2>3
<1> QED
  BY <1>3, <1>4, <1>5 DEF p, q

\* Division by a positive number keeps the order.
LEMMA QuotientMonotone ==
  ASSUME NEW x \in Nat, NEW y \in Nat, NEW r \in Nat \ {0}, x <= y
  PROVE  x \div r \in Nat /\ y \div r \in Nat /\ x \div r <= y \div r
<1> DEFINE p == x \div r
           q == y \div r
<1>1. p \in Nat /\ r * p <= x
  BY SMTT(30)
<1>2. q \in Nat /\ y < r * q + r
  BY SMTT(30)
<1> HIDE DEF p, q
<1>3. ASSUME q < p PROVE FALSE
  <2>1. q + 1 <= p
    BY <1>1, <1>2, <1>3
  <2>2. r * (q + 1) <= r * p
    BY <1>1, <1>2, <2>1
  <2>3. r * (q + 1) = r * q + r
    BY <1>2
  <2> DEFINE rp == r * p
             rq == r * q
  <2>4. rp \in Int /\ rq \in Int
    BY <1>1, <1>2
  <2>5. rp <= x /\ y < rq + r /\ rq + r <= rp
    BY <1>1, <1>2, <2>2, <2>3
  <2> HIDE DEF rp, rq
  <2> QED
    BY <2>4, <2>5
<1>4. p <= q
  BY <1>1, <1>2, <1>3
<1> QED
  BY <1>1, <1>2, <1>4 DEF p, q

\* A share of at most the whole is at most the whole.
LEMMA ApplyBpsBound ==
  ASSUME NEW a \in Nat, NEW s \in 0..BPS
  PROVE  ApplyBps(a, s) <= a
<1> DEFINE n == a * s
           m == a * BPS
           q == n \div BPS
<1>1. BPS \in Nat \ {0} /\ s \in Nat /\ s <= BPS
  BY ScaleAssumption
<1>2. n \in Nat /\ m \in Nat /\ n <= m
  BY <1>1
<1>3. q \in Int /\ q * BPS <= n
  <2> HIDE DEF n
  <2> QED
    BY <1>1, <1>2
<1>4. q * BPS <= a * BPS
  <2> HIDE DEF q
  <2> QED
    BY <1>1, <1>2, <1>3
<1>5. q <= a
  <2> HIDE DEF q
  <2> QED
    BY <1>1, <1>3, <1>4
<1> QED
  BY <1>5 DEF ApplyBps

\* The views read a stored debt and a weighted collateral of the right type.
LEMMA ViewFacts ==
  ASSUME TypeOK, VaultTypeOK, NEW b \in Borrowers
  PROVE  StoredDebt(b) \in Int /\ Weighted(collateral[b]) \in Nat
<1>1. lines \in [Borrowers -> Line] /\ collateral[b] \in Nat /\ vault.weight \in 0..BPS
  BY DEF TypeOK, LedgerTypeOK, VaultTypeOK, VaultConfig
<1>2. StoredDebt(b) \in Int
  BY <1>1 DEF StoredDebt, Line
<1>3. ApplyBps(collateral[b], vault.weight) \in Nat
  BY <1>1, ApplyBpsType
<1> QED
  BY <1>1, <1>2, <1>3 DEF Weighted

\* The health factor is at least one exactly when the collateral covers the requirement.
LEMMA HealthFactorThreshold ==
  ASSUME TypeOK, VaultTypeOK, NEW b \in Borrowers
  PROVE  /\ StoredDebt(b) <= 0 => HealthFactor(b) = MaxHealth
         /\ StoredDebt(b) > 0 => (HealthFactor(b) >= BPS
                                    <=> Weighted(collateral[b]) >= RequiredCollateral(StoredDebt(b)))
         /\ HealthFactor(b) \in Nat
<1> DEFINE debt == StoredDebt(b)
           w    == Weighted(collateral[b])
           r    == RequiredCollateral(debt)
           q    == (w * BPS) \div r
<1>1. /\ debt \in Int /\ w \in Nat /\ vault.min_ratio \in Nat
      /\ BPS \in Nat /\ MaxHealth \in Nat /\ MaxHealth > BPS
  BY ViewFacts, ScaleAssumption, HealthAssumption DEF VaultTypeOK, VaultConfig
<1>2. HealthFactor(b) = IF debt <= 0 \/ vault.min_ratio = 0 THEN MaxHealth ELSE MinOf(q, MaxHealth)
  BY DEF HealthFactor
<1> HIDE DEF debt, w
<1>3. /\ r \in Int
      /\ debt > 0 /\ vault.min_ratio > 0 => r > 0
      /\ debt > 0 /\ vault.min_ratio = 0 => r = 0
  BY <1>1, RequiredCollateralFacts
<1> HIDE DEF r
<1>4. ASSUME debt > 0, vault.min_ratio > 0 PROVE q \in Nat /\ (q >= BPS <=> w >= r)
  BY <1>1, <1>3, <1>4, ScaledQuotient
<1> HIDE DEF q
<1>5. /\ debt <= 0 => HealthFactor(b) = MaxHealth
      /\ debt > 0 => (HealthFactor(b) >= BPS <=> w >= r)
      /\ HealthFactor(b) \in Nat
  BY <1>1, <1>2, <1>3, <1>4 DEF MinOf
<1> QED
  BY <1>5 DEF debt, w, r

\* The signal and the capabilities hold in every well-typed state.
LEMMA ViewsHonest == TypeOK /\ VaultTypeOK => HealthSignalExact /\ QueryViewHonest
<1> SUFFICES ASSUME TypeOK, VaultTypeOK PROVE HealthSignalExact /\ QueryViewHonest
  OBVIOUS
<1>1. HealthSignalExact
  <2> SUFFICES ASSUME NEW b \in Borrowers, StoredDebt(b) > 0
               PROVE  CreditLineSnapshot(b).health_factor_bps < BPS
                        <=> Weighted(collateral[b]) < RequiredCollateral(StoredDebt(b))
    BY DEF HealthSignalExact
  <2>1. CreditLineSnapshot(b).health_factor_bps = HealthFactor(b)
    BY DEF CreditLineSnapshot
  <2>2. StoredDebt(b) \in Int /\ Weighted(collateral[b]) \in Nat
        /\ RequiredCollateral(StoredDebt(b)) \in Int /\ BPS \in Nat
    BY ViewFacts, RequiredCollateralFacts, ScaleAssumption
  <2>3. HealthFactor(b) \in Nat
        /\ (HealthFactor(b) >= BPS <=> Weighted(collateral[b]) >= RequiredCollateral(StoredDebt(b)))
    BY HealthFactorThreshold
  <2> QED
    BY <2>1, <2>2, <2>3
<1>2. QueryViewHonest
  <2> SUFFICES ASSUME NEW b \in Borrowers
               PROVE  /\ QueryCapabilities(b).is_delinquent <=> CreditLineSnapshot(b).is_delinquent
                      /\ ~QueryCapabilities(b).health_factor_applicable
                           => HealthFactor(b) = MaxHealth /\ CollateralState(b).health_factor_bps = MaxHealth
    BY DEF QueryViewHonest
  <2>1. StoredDebt(b) \in Int
    BY ViewFacts
  <2>2. QueryCapabilities(b).is_delinquent <=> IsDelinquent(b)
    BY Zenon DEF QueryCapabilities, IsDelinquent, StoredDebt
  <2>3. CreditLineSnapshot(b).is_delinquent <=> IsDelinquent(b)
    BY Zenon DEF CreditLineSnapshot
  <2>4. QueryCapabilities(b).health_factor_applicable <=> StoredDebt(b) > 0
    BY Zenon DEF QueryCapabilities
  <2>5. StoredDebt(b) <= 0 => CollateralState(b).health_factor_bps = MaxHealth
    BY DEF CollateralState
  <2>6. StoredDebt(b) <= 0 => HealthFactor(b) = MaxHealth
    BY HealthFactorThreshold
  <2>7. StoredDebt(b) > 0 \/ StoredDebt(b) <= 0
    BY <2>1
  <2> QED
    BY <2>2, <2>3, <2>4, <2>5, <2>6, <2>7, Zenon
<1> QED
  BY <1>1, <1>2

\* The risk weight can only lower the health factor, and leaves it alone where it is 100%.
LEMMA WeightLowersHealth == TypeOK /\ VaultTypeOK => WeightOnlyLowersHealth
<1> SUFFICES ASSUME TypeOK, VaultTypeOK,
                    NEW b \in Borrowers, StoredDebt(b) > 0, vault.min_ratio > 0
             PROVE  /\ HealthFactor(b) <= FaceValueFactor(b)
                    /\ vault.weight = BPS => HealthFactor(b) = FaceValueFactor(b)
  BY DEF WeightOnlyLowersHealth
<1> DEFINE w == Weighted(collateral[b])
           c == collateral[b]
           r == RequiredCollateral(StoredDebt(b))
           x == w * BPS
           y == c * BPS
<1>1. /\ StoredDebt(b) \in Int /\ w \in Nat /\ c \in Nat /\ vault.weight \in 0..BPS
      /\ BPS \in Nat \ {0} /\ MaxHealth \in Nat /\ vault.min_ratio \in Nat
  BY ViewFacts, ScaleAssumption, HealthAssumption DEF VaultTypeOK, VaultConfig
<1>2. w <= c /\ (vault.weight = BPS => w = c)
  <2>1. ApplyBps(c, vault.weight) <= c
    BY <1>1, ApplyBpsBound
  <2> QED
    BY <1>1, <2>1 DEF Weighted
<1>3. r \in Nat \ {0}
  BY <1>1, RequiredCollateralFacts
<1>4. HealthFactor(b) = MinOf(x \div r, MaxHealth) /\ FaceValueFactor(b) = MinOf(y \div r, MaxHealth)
  BY <1>1 DEF HealthFactor, FaceValueFactor
<1> HIDE DEF w, c, r
<1>5. x \in Nat /\ y \in Nat /\ x <= y /\ (vault.weight = BPS => x = y)
  BY <1>1, <1>2
<1> HIDE DEF x, y
<1>6. x \div r \in Nat /\ y \div r \in Nat /\ x \div r <= y \div r
  BY <1>3, <1>5, QuotientMonotone
<1>7. vault.weight = BPS => HealthFactor(b) = FaceValueFactor(b)
  BY <1>4, <1>5
<1> DEFINE p == x \div r
           q == y \div r
<1>8. HealthFactor(b) = MinOf(p, MaxHealth) /\ FaceValueFactor(b) = MinOf(q, MaxHealth)
      /\ p \in Nat /\ q \in Nat /\ p <= q
  BY <1>4, <1>6
<1> HIDE DEF p, q
<1> QED
  BY <1>1, <1>7, <1>8 DEF MinOf

\* Enough collateral is health, in a form that can be read of the state after a step.
Covered(b) == StoredDebt(b) <= 0 \/ Weighted(collateral[b]) >= RequiredCollateral(StoredDebt(b))

LEMMA CoveredIsHealthy ==
  TypeOK /\ VaultTypeOK => \A b \in Borrowers : Covered(b) => HealthFactor(b) >= BPS
<1> SUFFICES ASSUME TypeOK, VaultTypeOK, NEW b \in Borrowers, Covered(b) PROVE HealthFactor(b) >= BPS
  OBVIOUS
<1>1. StoredDebt(b) \in Int /\ BPS \in Nat /\ MaxHealth \in Nat /\ MaxHealth > BPS
  BY ViewFacts, ScaleAssumption, HealthAssumption
<1> QED
  BY <1>1, HealthFactorThreshold DEF Covered

\* Who receives tokens while the collateral stays has drawn.
LEMMA OnlyDrawPays ==
  ASSUME TypeOK, VaultIInv, VaultNext, NEW x \in Borrowers,
         balance'[x] > balance[x], collateral'[x] = collateral[x]
  PROVE  \E a \in Amounts : Draw(x, a)
<1>1. /\ balance \in [Accounts -> Int] /\ balance[x] \in Nat /\ collateral \in [Borrowers -> Nat]
      /\ VaultTypeOK /\ vault.source \in Sources /\ x \in Accounts /\ Self \in Accounts
      /\ bounty_balance \in Nat
  BY AccountFacts DEF VaultIInv, VaultTypeOK, VaultConfig
<1>2. ASSUME NEW b \in Borrowers, NEW a \in Amounts, Draw(b, a) PROVE x = b
  <2>1. a \in Nat /\ balance' = Moved(balance, vault.source, b, a)
    BY <1>2, InputsAssumption DEF Draw
  <2>2. vault.source \in Accounts /\ b \in Accounts /\ vault.source # b /\ x # vault.source
    BY <1>1, AccountFacts
  <2>3. x # b => balance'[x] = balance[x]
    BY <1>1, <2>1, <2>2, MovedFacts
  <2> QED
    BY <1>1, <2>3
<1>3. ASSUME NEW b \in Borrowers, NEW a \in Amounts, Repay(b, a) PROVE FALSE
  <2> DEFINE eff  == Payment(b, a).effective
             late == LateFee(b, Payment(b, a).principal)
  <2>1. a \in Nat
    BY InputsAssumption
  <2>2. eff \in Nat /\ late \in Nat
    BY <1>1, <2>1, PaymentFacts
  <2>3. /\ balance'[b] = balance[b] - eff - late
        /\ \A y \in Borrowers \ {b} : balance'[y] = balance[y]
    BY <1>1, <1>3, <2>1, RepayMoney
  <2> HIDE DEF eff, late
  <2> QED
    BY <1>1, <2>2, <2>3
<1>4. ASSUME NEW b \in Borrowers, NEW a \in Deposits,
             DepositCollateral(b, a) \/ WithdrawCollateral(b, a)
      PROVE  FALSE
  <2>1. /\ a \in Nat /\ a > 0 /\ b \in Accounts /\ b # Self /\ x # Self
        /\ \/ balance' = Moved(balance, b, Self, a)
           \/ balance' = Moved(balance, Self, b, a)
    BY <1>4, VaultAssumption, AccountFacts DEF DepositCollateral, WithdrawCollateral
  <2>2. x = b
    BY <1>1, <2>1, MovedFacts
  <2>3. \/ collateral' = [collateral EXCEPT ![b] = collateral[b] + a]
        \/ collateral' = [collateral EXCEPT ![b] = collateral[b] - a]
    BY <1>4 DEF DepositCollateral, WithdrawCollateral, SetCollateral
  <2> QED
    BY <1>1, <2>1, <2>2, <2>3
<1>5. ASSUME ExecuteTreasuryWithdrawal PROVE FALSE
  <2>1. pending # NoProposal /\ balance' = Moved(balance, Self, pending.recipient, pending.amount)
    BY <1>5 DEF ExecuteTreasuryWithdrawal
  <2>2. /\ pending.recipient \in Accounts /\ pending.recipient # Self
        /\ pending.recipient # x /\ x # Self /\ pending.amount \in Nat
    BY <2>1, AccountFacts DEF VaultIInv, VaultTypeOK, RecipientSound, Proposal
  <2> QED
    BY <1>1, <2>1, <2>2, MovedFacts
<1>6. ASSUME WithdrawBounty PROVE FALSE
  <2>1. vault.bounty # NoAccount /\ balance' = Moved(balance, Self, vault.bounty, bounty_balance)
    BY <1>6 DEF WithdrawBounty
  <2>2. vault.bounty \in Accounts /\ vault.bounty # Self /\ vault.bounty # x /\ x # Self
    BY <1>1, <2>1, AccountFacts DEF VaultTypeOK, VaultConfig
  <2> QED
    BY <1>1, <2>1, <2>2, MovedFacts
<1>7. ASSUME UNCHANGED balance PROVE FALSE
  BY <1>1, <1>7
<1>8. ASSUME ProposeTreasuryWithdrawal \/ VaultSettings PROVE FALSE
  <2>1. UNCHANGED balance
    BY <1>8 DEF ProposeTreasuryWithdrawal, VaultSettings, money, SetLiquiditySource, SetTreasury,
       SetBounty, SetMinCollateralRatio, SetCollateralRiskWeight, SetProtocolFee,
       SetTreasuryFeeShare, ConfigureVault
  <2> QED
    BY <1>7, <2>1
<1>9. ASSUME UNCHANGED vaultVars PROVE FALSE
  BY <1>7, <1>9 DEF vaultVars, money
<1>10. ASSUME NEW b \in Borrowers, MoneyStep(b) PROVE \E a \in Amounts : Draw(x, a)
  BY <1>2, <1>3, <1>4, <1>10 DEF MoneyStep, PartialReleaseCollateral
<1> QED
  BY <1>5, <1>6, <1>8, <1>9, <1>10 DEF VaultNext, VaultStep

\* Keepers, dashboards and clients may rely on the views: the health factor crosses one where
\* a draw's collateral check does and is at most the one collateral at face value would give,
\* the capabilities hide no delinquency, and a draw leaves the line healthy by that measure.
THEOREM ViewsReliable == VaultSpec => ViewsSound
<1>1. TypeOK /\ VaultIInv => HealthSignalExact /\ WeightOnlyLowersHealth /\ QueryViewHonest
  BY ViewsHonest, WeightLowersHealth DEF VaultIInv
<1>2. ASSUME TypeOK, VaultIInv, TypeOK', VaultIInv', VaultNext, NEW x \in Borrowers,
             balance'[x] > balance[x], collateral'[x] = collateral[x]
      PROVE  HealthFactor(x)' >= BPS
  <2>1. PICK a \in Amounts : Draw(x, a)
    BY <1>2, OnlyDrawPays
  <2>2. Weighted(collateral[x]) >= RequiredCollateral(lines'[x].utilized_amount)
    BY <2>1 DEF Draw
  <2>3. vault' = vault /\ collateral' = collateral
    BY <2>1 DEF Draw
  <2>4. Weighted(collateral[x])' = Weighted(collateral[x])
    BY <2>3 DEF Weighted
  <2>5. RequiredCollateral(lines'[x].utilized_amount) = RequiredCollateral(StoredDebt(x))'
    BY <2>3 DEF RequiredCollateral, StoredDebt
  <2>6. Covered(x)'
    BY <2>2, <2>4, <2>5 DEF Covered
  <2>7. (TypeOK /\ VaultTypeOK => \A b \in Borrowers : Covered(b) => HealthFactor(b) >= BPS)'
    BY CoveredIsHealthy, PTL
  <2> QED
    BY <1>2, <2>6, <2>7 DEF VaultIInv
<1> DEFINE A == \A b \in Borrowers :
                  balance'[b] > balance[b] /\ collateral'[b] = collateral[b] => HealthFactor(b)' >= BPS
<1>3. TypeOK /\ VaultIInv /\ TypeOK' /\ VaultIInv' /\ [VaultNext]_allVars => [A]_allVars
  BY <1>2
<1>4. VaultSpec => []TypeOK
  BY ImplementsLedger, TypeCorrect, PTL
<1>5. VaultSpec => [][A]_allVars
  <2> HIDE DEF A
  <2> QED
    BY <1>3, <1>4, VaultInvariance, PTL DEF VaultSpec
<1>6. VaultSpec => DrawLeavesHealthy
  BY <1>5 DEF DrawLeavesHealthy
<1> QED
  BY <1>1, <1>4, <1>6, VaultInvariance, PTL DEF ViewsSound
-----------------------------------------------------------------------------
(* The accountant *)

FA == INSTANCE SeqFolds WITH Op <- Enter

\* A step that reports folds its events into the book, one after the other.
LEMMA ReportFolds ==
  ASSUME NEW events, Report(events)
  PROVE  account' = FA!Folded(account, events)
BY DEF Report, FA!Folded, FA!FoldTable, FA!FoldTabulates, FA!LastIndex, FoldLeft, MapThenFoldSet, Max

\* The accountant follows the contract and does not disturb it.
LEMMA AccountStepIsVaultStep == [AccountNext]_accountVars => [VaultNext]_allVars
<1> SUFFICES ASSUME [AccountNext]_accountVars PROVE [VaultNext]_allVars
  OBVIOUS
<1>1. CASE UNCHANGED accountVars
  BY <1>1 DEF accountVars
<1>2. ASSUME NEW b \in Borrowers, ReportedMoneyStep(b) PROVE VaultNext
  BY <1>2 DEF ReportedMoneyStep, VaultNext, MoneyStep
<1>3. CASE ReportedVaultStep
  BY <1>3 DEF ReportedVaultStep, VaultNext, VaultStep
<1>4. CASE LedgerStep /\ UNCHANGED <<vaultVars, account>>
  BY <1>4 DEF VaultNext
<1> QED
  BY <1>1, <1>2, <1>3, <1>4 DEF AccountNext

THEOREM ImplementsVault == AccountSpec => VaultSpec
<1>1. AccountInit => VaultInit
  BY DEF AccountInit
<1> QED
  BY <1>1, AccountStepIsVaultStep, PTL DEF AccountSpec, VaultSpec

\* The book, entry by entry.
Book(held, treasury, proposal) ==
  [collateral |-> held, treasury |-> treasury, sum |-> treasury, proposal |-> proposal]

BookKept == account = Book(collateral, treasury_balance, pending)

\* Two reports one after the other are a report of two events.
LEMMA Pair ==
  ASSUME NEW e, NEW f
  PROVE  <<e>> \o <<f>> = <<e, f>>
<1> DEFINE X == {e, f}
           s == <<e>> \o <<f>>
           t == <<e, f>>
<1>1. <<e>> \in Seq(X) /\ <<f>> \in Seq(X) /\ t \in Seq(X)
  OBVIOUS
<1>2. /\ Len(<<e>>) = 1 /\ Len(<<f>>) = 1 /\ Len(t) = 2
      /\ <<e>>[1] = e /\ <<f>>[1] = f /\ t[1] = e /\ t[2] = f
  OBVIOUS
<1>3. s \in Seq(X) /\ Len(s) = 2
  BY <1>1, <1>2, ConcatProperties
<1>4. s[1] = e /\ s[2] = f
  BY <1>1, <1>2, ConcatProperties
<1>5. t \in Seq(X) /\ Len(t) = 2 /\ t[1] = s[1] /\ t[2] = s[2]
  BY <1>1, <1>2, <1>4
<1> HIDE DEF s, t, X
<1>6. \A i \in 1..Len(s) : s[i] = t[i]
  BY <1>3, <1>5
<1>7. s = t
  BY <1>3, <1>5, <1>6, SeqEqual
<1> QED
  BY <1>7 DEF s, t

\* The fees of a repayment, reported one by one, lead to the treasury that was booked at once.
LEMMA FeesEntered ==
  ASSUME VaultTypeOK, NEW held \in [Borrowers -> Nat], NEW p, NEW fee \in Nat, NEW late \in Nat
  PROVE  FA!Folded(Book(held, treasury_balance, p), FeeEvents(fee, late))
           = Book(held, treasury_balance + SplitProtocolFee(fee, vault.share).treasury
                          + SplitProtocolFee(late, vault.share).treasury, p)
<1> DEFINE ofFee  == SplitProtocolFee(fee, vault.share)
           ofLate == SplitProtocolFee(late, vault.share)
           first  == treasury_balance + ofFee.treasury
           e      == FeeAccruedEvent(ofFee, first)
           f      == FeeAccruedEvent(ofLate, first + ofLate.treasury)
           start  == Book(held, treasury_balance, p)
<1>1. vault.share \in 0..BPS /\ treasury_balance \in Int
  BY DEF VaultTypeOK, VaultConfig
<1>2. /\ ofFee.treasury \in Int /\ ofLate.treasury \in Int
      /\ fee = 0 => ofFee.treasury = 0
      /\ late = 0 => ofLate.treasury = 0
  <2>1. ofFee.treasury \in Nat /\ ofFee.bounty \in Nat /\ ofFee.treasury + ofFee.bounty = fee
    BY <1>1, SplitProtocolFeeExact
  <2>2. ofLate.treasury \in Nat /\ ofLate.bounty \in Nat /\ ofLate.treasury + ofLate.bounty = late
    BY <1>1, SplitProtocolFeeExact
  <2> HIDE DEF ofFee, ofLate
  <2> QED
    BY <2>1, <2>2
<1>3. FeeEvents(fee, late) = (IF fee > 0 THEN <<e>> ELSE <<>>) \o (IF late > 0 THEN <<f>> ELSE <<>>)
  BY DEF FeeEvents
<1> HIDE DEF ofFee, ofLate
<1>5. first \in Int
  BY <1>1, <1>2
<1>6. Enter(start, e) = Book(held, first, p)
  BY <1>1, <1>2 DEF Enter, Book, FeeAccruedEvent
<1>7. Enter(Book(held, first, p), f) = Book(held, first + ofLate.treasury, p)
  <2> HIDE DEF first
  <2> QED
    BY <1>2, <1>5 DEF Enter, Book, FeeAccruedEvent
<1>8. /\ fee = 0 => first = treasury_balance
      /\ late = 0 => first + ofLate.treasury = first
  BY <1>1, <1>2, <1>5
<1> HIDE DEF e, f, first, start
<1>9. CASE fee = 0 /\ late = 0
  <2>1. FeeEvents(fee, late) = << >>
    BY <1>3, <1>9
  <2> QED
    BY <1>8, <1>9, <2>1, FA!FoldEmpty DEF start, first, ofFee, ofLate
<1>10. CASE fee > 0 /\ late = 0
  <2>1. FeeEvents(fee, late) = <<e>>
    BY <1>3, <1>10
  <2> QED
    BY <1>6, <1>8, <1>10, <2>1, FA!FoldOne DEF start, first, ofFee, ofLate
<1>11. CASE fee = 0 /\ late > 0
  <2>1. FeeEvents(fee, late) = <<f>>
    BY <1>3, <1>11
  <2> QED
    BY <1>7, <1>8, <1>11, <2>1, FA!FoldOne DEF start, first, ofFee, ofLate
<1>12. CASE fee > 0 /\ late > 0
  <2>1. FeeEvents(fee, late) = <<e>> \o <<f>>
    BY <1>3, <1>12
  <2>2. FeeEvents(fee, late) = <<e, f>>
    BY <2>1, Pair
  <2>3. FA!Folded(start, <<e, f>>) = Enter(Enter(start, e), f)
    BY FA!FoldTwo
  <2> QED
    BY <1>6, <1>7, <2>2, <2>3 DEF start, first, ofFee, ofLate
<1> QED
  BY <1>9, <1>10, <1>11, <1>12

\* A repayment that is reported keeps the book.
LEMMA RepayKeepsBook ==
  ASSUME TypeOK, VaultTypeOK, BookKept, NEW b \in Borrowers, NEW a \in Amounts,
         Repay(b, a), Report(RepayFeeEvents(b, a))
  PROVE  BookKept'
<1> DEFINE pay  == Payment(b, a)
           fee  == MinOf(ApplyBps(pay.interest, vault.fee), pay.effective)
           late == LateFee(b, pay.principal)
<1>1. a \in Nat /\ collateral \in [Borrowers -> Nat]
  BY InputsAssumption DEF VaultTypeOK
<1>2. fee \in Nat /\ late \in Nat
  BY <1>1, PaymentFacts
<1>3. RepayFeeEvents(b, a) = FeeEvents(fee, late)
  BY DEF RepayFeeEvents
<1>4. AccrueFees(fee, late) /\ UNCHANGED <<collateral, pending>>
  BY DEF Repay
<1> HIDE DEF fee, late
<1>5. account' = FA!Folded(Book(collateral, treasury_balance, pending), FeeEvents(fee, late))
  BY <1>3, ReportFolds DEF BookKept
<1>6. treasury_balance' = treasury_balance + SplitProtocolFee(fee, vault.share).treasury
                            + SplitProtocolFee(late, vault.share).treasury
  BY <1>4 DEF AccrueFees
<1> QED
  BY <1>1, <1>2, <1>4, <1>5, <1>6, FeesEntered DEF BookKept

\* So does every other step.
LEMMA NextBook == TypeOK /\ VaultIInv /\ BookKept /\ [AccountNext]_accountVars => BookKept'
<1> SUFFICES ASSUME TypeOK, VaultIInv, BookKept, [AccountNext]_accountVars PROVE BookKept'
  OBVIOUS
<1>1. /\ VaultTypeOK /\ collateral \in [Borrowers -> Nat] /\ treasury_balance \in Nat
      /\ pending.amount \in Nat
  BY DEF VaultIInv, VaultTypeOK, Proposal
<1>2. ASSUME UNCHANGED <<collateral, treasury_balance, pending, account>> PROVE BookKept'
  BY <1>2 DEF BookKept
<1>3. ASSUME NEW b \in Borrowers, NEW a \in Deposits, NEW amount \in Int,
             SetCollateral(b, amount), UNCHANGED <<treasury_balance, pending>>,
             Report(<<CollateralEvent(b, amount)>>)
      PROVE  BookKept'
  <2>1. account' = Enter(account, CollateralEvent(b, amount))
    BY <1>3, ReportFolds, FA!FoldOne
  <2>2. Enter(Book(collateral, treasury_balance, pending), CollateralEvent(b, amount))
          = Book([collateral EXCEPT ![b] = amount], treasury_balance, pending)
    BY <1>1 DEF Enter, Book, CollateralEvent
  <2> QED
    BY <1>3, <2>1, <2>2 DEF BookKept, SetCollateral
<1>4. ASSUME NEW b \in Borrowers, ReportedMoneyStep(b) PROVE BookKept'
  <2>1. ASSUME NEW a \in Amounts, Draw(b, a), UNCHANGED account PROVE BookKept'
    BY <1>2, <2>1 DEF Draw
  <2>2. ASSUME NEW a \in Amounts, Repay(b, a), Report(RepayFeeEvents(b, a)) PROVE BookKept'
    BY <1>1, <2>2, RepayKeepsBook
  <2>3. ASSUME NEW a \in Deposits, DepositCollateral(b, a),
               Report(<<CollateralEvent(b, collateral[b] + a)>>)
        PROVE  BookKept'
    <3>1. collateral[b] + a \in Int
      BY <1>1, VaultAssumption
    <3> QED
      BY <1>3, <2>3, <3>1 DEF DepositCollateral
  <2>4. ASSUME NEW a \in Deposits, WithdrawCollateral(b, a),
               Report(<<CollateralEvent(b, collateral[b] - a)>>)
        PROVE  BookKept'
    <3>1. collateral[b] - a \in Int
      BY <1>1, VaultAssumption
    <3> QED
      BY <1>3, <2>4, <3>1 DEF WithdrawCollateral
  <2> QED
    BY <1>4, <2>1, <2>2, <2>3, <2>4 DEF ReportedMoneyStep, PartialReleaseCollateral
<1>5. ASSUME ProposeTreasuryWithdrawal, Report(<<TreasuryWithdrawalProposedEvent(pending')>>)
      PROVE  BookKept'
  <2>1. UNCHANGED <<collateral, treasury_balance>>
    BY <1>5 DEF ProposeTreasuryWithdrawal, money
  <2>2. account' = Enter(account, TreasuryWithdrawalProposedEvent(pending'))
    BY <1>5, ReportFolds, FA!FoldOne
  <2>3. Enter(Book(collateral, treasury_balance, pending), TreasuryWithdrawalProposedEvent(pending'))
          = Book(collateral, treasury_balance, pending')
    BY DEF Enter, Book, TreasuryWithdrawalProposedEvent
  <2> QED
    BY <2>1, <2>2, <2>3 DEF BookKept
<1>6. ASSUME ExecuteTreasuryWithdrawal,
             Report(<<TreasuryWithdrawalExecutedEvent(pending.amount, treasury_balance - pending.amount)>>)
      PROVE  BookKept'
  <2> DEFINE e == TreasuryWithdrawalExecutedEvent(pending.amount, treasury_balance - pending.amount)
  <2>1. /\ UNCHANGED collateral /\ treasury_balance' = treasury_balance - pending.amount
        /\ pending' = NoProposal
    BY <1>6 DEF ExecuteTreasuryWithdrawal
  <2>2. account' = Enter(account, e)
    BY <1>6, ReportFolds, FA!FoldOne
  <2>3. Enter(Book(collateral, treasury_balance, pending), e)
          = Book(collateral, treasury_balance - pending.amount, NoProposal)
    BY <1>1 DEF Enter, Book, TreasuryWithdrawalExecutedEvent
  <2> HIDE DEF e
  <2> QED
    BY <2>1, <2>2, <2>3 DEF BookKept
<1>7. ASSUME WithdrawBounty \/ VaultSettings, UNCHANGED account PROVE BookKept'
  <2>1. UNCHANGED <<collateral, treasury_balance, pending>>
    BY <1>7 DEF WithdrawBounty, VaultSettings, money, SetLiquiditySource, SetTreasury,
       SetBounty, SetMinCollateralRatio, SetCollateralRiskWeight, SetProtocolFee,
       SetTreasuryFeeShare, ConfigureVault
  <2> QED
    BY <1>2, <1>7, <2>1
<1>8. ASSUME UNCHANGED <<vaultVars, account>> PROVE BookKept'
  BY <1>2, <1>8 DEF vaultVars, money
<1>9. CASE ReportedVaultStep
  BY <1>5, <1>6, <1>7, <1>9 DEF ReportedVaultStep
<1>10. CASE UNCHANGED accountVars
  BY <1>8, <1>10 DEF accountVars, allVars
<1> QED
  BY <1>4, <1>8, <1>9, <1>10 DEF AccountNext

\* Whoever follows the events of the money knows collateral, treasury and pending withdrawal,
\* and the reported amounts add up to the treasury.
THEOREM AccountantExact == AccountSpec => []AccountExact
<1>1. AccountInit => BookKept
  BY DEF AccountInit, VaultInit, BookKept, Book
<1>2. AccountSpec => []TypeOK /\ []VaultIInv
  BY ImplementsVault, ImplementsLedger, TypeCorrect, VaultInvariance, PTL
<1>3. BookKept => AccountExact
  BY DEF BookKept, Book, AccountExact
<1> QED
  BY <1>1, <1>2, <1>3, NextBook, PTL DEF AccountSpec
-----------------------------------------------------------------------------
(* The indexer *)

FE == INSTANCE SeqFolds WITH Op <- Follow

\* A step that publishes folds its events into the indexer's book.
LEMMA PublishFolds ==
  ASSUME NEW events, Publish(events)
  PROVE  book' = FE!Folded(book, events)
BY DEF Publish, FE!Folded, FE!FoldTable, FE!FoldTabulates, FE!LastIndex, FoldLeft, MapThenFoldSet, Max

IsSequence(s) == \E X : s \in Seq(X)

\* Events published after each other are read after each other.
LEMMA ReadInOrder ==
  ASSUME NEW base, NEW s, NEW t, IsSequence(s), IsSequence(t)
  PROVE  IsSequence(s \o t) /\ FE!Folded(base, s \o t) = FE!Folded(FE!Folded(base, s), t)
<1>1. PICK X : s \in Seq(X)
  BY DEF IsSequence
<1>2. PICK Y : t \in Seq(Y)
  BY DEF IsSequence
<1> DEFINE Z == X \cup Y
<1>3. s \in Seq(Z) /\ t \in Seq(Z)
  BY <1>1, <1>2, SeqDef
<1> HIDE DEF Z
<1>4. s \o t \in Seq(Z)
  BY <1>3, ConcatProperties
<1>5. FE!Folded(base, s \o t) = FE!Folded(FE!Folded(base, s), t)
  BY <1>3, FE!FoldConcat
<1> QED
  BY <1>4, <1>5 DEF IsSequence

LEMMA Tuples ==
  ASSUME NEW e, NEW f
  PROVE  IsSequence(<< >>) /\ IsSequence(<<e>>) /\ IsSequence(<<e, f>>)
<1>1. << >> \in Seq({e}) /\ <<e>> \in Seq({e}) /\ <<e, f>> \in Seq({e, f})
  OBVIOUS
<1> QED
  BY <1>1 DEF IsSequence

\* What the indexer keeps of a borrower.
Entry ==
  [status : Statuses \cup {"None"}, limit : Nat, rate : Nat, debt : Int, sum : Int, penalty : BOOLEAN]
Books == [Borrowers -> Entry]

\* An entry shows a line: its status, its terms and its debt.
Shows(e, l) ==
  /\ e.status = l.status /\ e.limit = l.credit_limit
  /\ e.rate = l.interest_rate_bps /\ e.debt = l.utilized_amount

\* Only b's entry is touched.
Touches(old, new, b) == new \in Books /\ \A x \in Borrowers \ {b} : new[x] = old[x]

DebtTopics   == {"accrue", "drawn", "repay", "draw_rev", "debt_frgv", "liq_setl", "liq_req"}
StatusTopics == {"suspend", "self_sus", "unsuspend", "self_uns", "closed", "defaulted", "reinstate"}

\* An event about the debt enters the debt and adds the amount.
LEMMA FollowDebt ==
  ASSUME NEW bk \in Books, NEW b \in Borrowers, NEW topic \in DebtTopics, NEW delta \in Int,
         NEW debt \in Int
  PROVE  LET new == Follow(bk, DebtEvent(topic, b, delta, debt))
         IN  /\ Touches(bk, new, b)
             /\ new[b].status = bk[b].status /\ new[b].limit = bk[b].limit
             /\ new[b].rate = bk[b].rate /\ new[b].debt = debt
             /\ new[b].sum = bk[b].sum + delta
<1> DEFINE e == DebtEvent(topic, b, delta, debt)
           n == [bk[b] EXCEPT !.debt = debt, !.sum = @ + delta]
<1>1. e.topic = topic /\ e.borrower = b /\ e.delta = delta /\ e.debt = debt
  BY DEF DebtEvent
<1> HIDE DEF e
<1>2. Follow(bk, e) = [bk EXCEPT ![b] = n]
  BY <1>1 DEF Follow, DebtTopics
<1>3. bk[b] \in Entry
  BY DEF Books
<1>4. n \in Entry /\ n.status = bk[b].status /\ n.limit = bk[b].limit /\ n.rate = bk[b].rate
      /\ n.debt = debt /\ n.sum = bk[b].sum + delta
  <2> DEFINE o == bk[b]
             v == o.sum + delta
  <2>1. o \in Entry /\ v \in Int /\ n = [o EXCEPT !.debt = debt, !.sum = v]
    BY <1>3 DEF Entry
  <2> HIDE DEF o, v, n
  <2>2. n \in Entry /\ n.status = o.status /\ n.limit = o.limit /\ n.rate = o.rate
        /\ n.debt = debt /\ n.sum = v
    BY <2>1 DEF Entry
  <2> QED
    BY <2>2 DEF o, v
<1> HIDE DEF n
<1>5. [bk EXCEPT ![b] = n] \in Books /\ [bk EXCEPT ![b] = n][b] = n
      /\ \A x \in Borrowers \ {b} : [bk EXCEPT ![b] = n][x] = bk[x]
  BY <1>4 DEF Books
<1> QED
  BY <1>2, <1>4, <1>5 DEF Touches, e

\* An event about the status enters status and terms.
LEMMA FollowStatus ==
  ASSUME NEW bk \in Books, NEW b \in Borrowers, NEW topic \in StatusTopics, NEW l \in Line
  PROVE  LET new == Follow(bk, CreditLineEvent(topic, b, l))
         IN  /\ Touches(bk, new, b)
             /\ new[b].status = l.status /\ new[b].limit = l.credit_limit
             /\ new[b].rate = l.interest_rate_bps
             /\ new[b].debt = bk[b].debt /\ new[b].sum = bk[b].sum
<1> DEFINE e == CreditLineEvent(topic, b, l)
           n == [bk[b] EXCEPT !.status = l.status, !.limit = l.credit_limit, !.rate = l.interest_rate_bps]
<1>1. /\ e.topic = topic /\ e.borrower = b /\ e.status = l.status
      /\ e.limit = l.credit_limit /\ e.rate = l.interest_rate_bps
  BY DEF CreditLineEvent
<1> HIDE DEF e
<1>2. Follow(bk, e) = [bk EXCEPT ![b] = n]
  BY <1>1 DEF Follow, StatusTopics
<1>3. /\ bk[b] \in Entry /\ l.status \in Statuses \cup {"None"} /\ l.credit_limit \in Nat
      /\ l.interest_rate_bps \in Nat
  BY LineTypes, ScaleAssumption DEF Books, MaxRate
<1>4. /\ n \in Entry /\ n.status = l.status /\ n.limit = l.credit_limit
      /\ n.rate = l.interest_rate_bps /\ n.debt = bk[b].debt /\ n.sum = bk[b].sum
  BY <1>3 DEF Entry
<1> HIDE DEF n
<1>5. [bk EXCEPT ![b] = n] \in Books /\ [bk EXCEPT ![b] = n][b] = n
      /\ \A x \in Borrowers \ {b} : [bk EXCEPT ![b] = n][x] = bk[x]
  BY <1>4 DEF Books
<1> QED
  BY <1>2, <1>4, <1>5 DEF Touches, e

\* A BorrowLifecycleEvent enters the whole line.
LEMMA FollowLifecycle ==
  ASSUME NEW bk \in Books, NEW b \in Borrowers, NEW l \in Line
  PROVE  LET new == Follow(bk, BorrowLifecycleEvent(b, l))
         IN  Touches(bk, new, b) /\ Shows(new[b], l) /\ new[b].sum = bk[b].sum
<1> DEFINE e == BorrowLifecycleEvent(b, l)
           n == [bk[b] EXCEPT !.status = l.status, !.limit = l.credit_limit, !.rate = l.interest_rate_bps,
                              !.debt = l.utilized_amount]
<1>1. /\ e.topic = "borrow_lc" /\ e.borrower = b /\ e.status = l.status
      /\ e.limit = l.credit_limit /\ e.rate = l.interest_rate_bps /\ e.debt = l.utilized_amount
  BY DEF BorrowLifecycleEvent
<1> HIDE DEF e
<1>2. Follow(bk, e) = [bk EXCEPT ![b] = n]
  BY <1>1 DEF Follow
<1>3. /\ bk[b] \in Entry /\ l.status \in Statuses \cup {"None"} /\ l.credit_limit \in Nat
      /\ l.interest_rate_bps \in Nat /\ l.utilized_amount \in Int
  BY LineTypes, ScaleAssumption DEF Books, MaxRate
<1>4. n \in Entry /\ Shows(n, l) /\ n.sum = bk[b].sum
  BY <1>3 DEF Entry, Shows
<1> HIDE DEF n
<1>5. [bk EXCEPT ![b] = n] \in Books /\ [bk EXCEPT ![b] = n][b] = n
      /\ \A x \in Borrowers \ {b} : [bk EXCEPT ![b] = n][x] = bk[x]
  BY <1>4 DEF Books
<1> QED
  BY <1>2, <1>4, <1>5 DEF Touches, e

\* opened starts a new account unless the line was open before.
LEMMA FollowOpened ==
  ASSUME NEW bk \in Books, NEW b \in Borrowers, NEW l \in Line
  PROVE  LET new  == Follow(bk, CreditLineEvent("opened", b, l))
             anew == bk[b].status \in {"None", "Closed"}
         IN  /\ Touches(bk, new, b)
             /\ new[b].status = l.status /\ new[b].limit = l.credit_limit
             /\ new[b].rate = l.interest_rate_bps
             /\ anew => new[b].debt = 0 /\ new[b].sum = 0
             /\ ~anew => new[b].debt = bk[b].debt /\ new[b].sum = bk[b].sum
<1> DEFINE e    == CreditLineEvent("opened", b, l)
           o    == bk[b]
           anew == o.status \in {"None", "Closed"}
           d    == IF anew THEN 0 ELSE o.debt
           s    == IF anew THEN 0 ELSE o.sum
           n    == [o EXCEPT !.status = l.status, !.limit = l.credit_limit, !.rate = l.interest_rate_bps,
                             !.debt = d, !.sum = s]
<1>1. /\ e.topic = "opened" /\ e.borrower = b /\ e.status = l.status
      /\ e.limit = l.credit_limit /\ e.rate = l.interest_rate_bps
  BY DEF CreditLineEvent
<1> HIDE DEF e
<1>2. Follow(bk, e) = [bk EXCEPT ![b] = n]
  BY <1>1 DEF Follow
<1>3. /\ o \in Entry /\ l.status \in Statuses \cup {"None"} /\ l.credit_limit \in Nat
      /\ l.interest_rate_bps \in Nat
  BY LineTypes, ScaleAssumption DEF Books, MaxRate
<1>4. d \in Int /\ s \in Int
  BY <1>3 DEF Entry
<1>5. (anew => d = 0 /\ s = 0) /\ (~anew => d = o.debt /\ s = o.sum)
  OBVIOUS
<1> HIDE DEF d, s, o
<1>6. n \in Entry /\ n.status = l.status /\ n.limit = l.credit_limit /\ n.rate = l.interest_rate_bps
      /\ n.debt = d /\ n.sum = s
  BY <1>3, <1>4 DEF Entry
<1> HIDE DEF n
<1>7. [bk EXCEPT ![b] = n] \in Books /\ [bk EXCEPT ![b] = n][b] = n
      /\ \A x \in Borrowers \ {b} : [bk EXCEPT ![b] = n][x] = bk[x]
  BY <1>6 DEF Books
<1> QED
  BY <1>2, <1>5, <1>6, <1>7 DEF Touches, e, o

\* A change of terms moves the status as update_risk_parameters does.
LEMMA FollowTerms ==
  ASSUME NEW bk \in Books, NEW b \in Borrowers, NEW l \in Line
  PROVE  LET new == Follow(bk, RiskParametersUpdatedEvent(b, l))
         IN  /\ Touches(bk, new, b)
             /\ new[b].status = IF bk[b].status \in {"Active", "Restricted"}
                                THEN IF bk[b].debt > l.credit_limit THEN "Restricted" ELSE "Active"
                                ELSE bk[b].status
             /\ new[b].limit = l.credit_limit /\ new[b].rate = l.interest_rate_bps
             /\ new[b].debt = bk[b].debt /\ new[b].sum = bk[b].sum
<1> DEFINE e == RiskParametersUpdatedEvent(b, l)
           o == bk[b]
           s == IF o.status \in {"Active", "Restricted"}
                THEN IF o.debt > l.credit_limit THEN "Restricted" ELSE "Active"
                ELSE o.status
           n == [o EXCEPT !.limit = l.credit_limit, !.rate = l.interest_rate_bps, !.status = s]
<1>1. /\ e.topic = "risk_upd" /\ e.borrower = b
      /\ e.limit = l.credit_limit /\ e.rate = l.interest_rate_bps
  BY DEF RiskParametersUpdatedEvent
<1> HIDE DEF e
<1>2. Follow(bk, e) = [bk EXCEPT ![b] = n]
  BY <1>1 DEF Follow
<1>3. o \in Entry /\ l.credit_limit \in Nat /\ l.interest_rate_bps \in Nat
  BY LineTypes, ScaleAssumption DEF Books, MaxRate
<1>4. s \in Statuses \cup {"None"}
  BY <1>3 DEF Entry, Statuses
<1> HIDE DEF s
<1>5. n \in Entry /\ n.status = s /\ n.limit = l.credit_limit /\ n.rate = l.interest_rate_bps
      /\ n.debt = o.debt /\ n.sum = o.sum
  BY <1>3, <1>4 DEF Entry
<1> HIDE DEF n
<1>6. [bk EXCEPT ![b] = n] \in Books /\ [bk EXCEPT ![b] = n][b] = n
      /\ \A x \in Borrowers \ {b} : [bk EXCEPT ![b] = n][x] = bk[x]
  BY <1>5 DEF Books
<1> QED
  BY <1>2, <1>5, <1>6 DEF Touches, e, s

\* A penalty notice leaves status, terms and debt alone.
LEMMA FollowPenalty ==
  ASSUME NEW bk \in Books, NEW b \in Borrowers
  PROVE  LET new == Follow(bk, PenaltyRateEnteredEvent(b))
         IN  /\ Touches(bk, new, b)
             /\ new[b].status = bk[b].status /\ new[b].limit = bk[b].limit
             /\ new[b].rate = bk[b].rate /\ new[b].debt = bk[b].debt /\ new[b].sum = bk[b].sum
<1> DEFINE e == PenaltyRateEnteredEvent(b)
           n == [bk[b] EXCEPT !.penalty = TRUE]
<1>1. e.topic = "pen_enter" /\ e.borrower = b
  BY DEF PenaltyRateEnteredEvent
<1> HIDE DEF e
<1>2. Follow(bk, e) = [bk EXCEPT ![b] = n]
  BY <1>1 DEF Follow
<1>3. bk[b] \in Entry
  BY DEF Books
<1>4. /\ n \in Entry /\ n.status = bk[b].status /\ n.limit = bk[b].limit
      /\ n.rate = bk[b].rate /\ n.debt = bk[b].debt /\ n.sum = bk[b].sum
  BY <1>3 DEF Entry
<1> HIDE DEF n
<1>5. [bk EXCEPT ![b] = n] \in Books /\ [bk EXCEPT ![b] = n][b] = n
      /\ \A x \in Borrowers \ {b} : [bk EXCEPT ![b] = n][x] = bk[x]
  BY <1>4 DEF Books
<1> QED
  BY <1>2, <1>4, <1>5 DEF Touches, e

\* The lines in t are shown as stored; then as accrued, with nothing else told of anyone, and no
\* amount missing between the debt and the sum of the amounts.
Ready(bk, t) == bk \in Books /\ \A x \in t : Shows(bk[x], lines[x])

Capitalised(bk, new, t) ==
  /\ new \in Books
  /\ \A x \in t : Shows(new[x], Accrued(x)) /\ new[x].sum - new[x].debt = bk[x].sum - bk[x].debt
  /\ \A x \in Borrowers \ t : new[x] = bk[x]

\* The penalty notices of an accrual: the rate before is the line's own, so none is of an exit.
LEMMA PenaltyNotices ==
  ASSUME TypeOK, NEW b \in Borrowers
  PROVE  PenaltyEvents(b) \in {<< >>, <<PenaltyRateEnteredEvent(b)>>}
<1> DEFINE r == lines[b].interest_rate_bps
           entered == IsDelinquent(b) /\ PenaltySurcharge > 0 /\ r # EffectiveRate(b)
           p == PenaltyRateEnteredEvent(b)
           q == PenaltyRateExitedEvent(b)
<1>1. r \in Int
  BY LineTypes, ScaleAssumption DEF TypeOK, LedgerTypeOK, MaxRate
<1>2. ~(r > r)
  BY <1>1
<1>3. PenaltyEvents(b) = (IF entered THEN <<p>> ELSE << >>) \o << >>
  BY <1>2 DEF PenaltyEvents
<1> HIDE DEF entered, p
<1>4. <<p>> \o << >> = <<p>> /\ << >> \o << >> = << >>
  <2>1. <<p>> \in Seq({p}) /\ << >> \in Seq({p})
    OBVIOUS
  <2> QED
    BY <2>1, ConcatEmptySeq
<1> QED
  BY <1>3, <1>4 DEF p

\* The events of one accrual bring the entry from the stored line to the accrued one.
LEMMA AccrualFollowed ==
  ASSUME TypeOK, NEW b \in Borrowers, NEW bk, Ready(bk, {b})
  PROVE  /\ IsSequence(AccrualEvents(b))
         /\ Capitalised(bk, FE!Folded(bk, AccrualEvents(b)), {b})
<1> DEFINE l   == lines[b]
           due == InterestDue(b)
           own == IF due > 0 THEN <<InterestAccruedEvent(b, due, l.utilized_amount + due)>> ELSE << >>
           idle == now <= l.last_accrual_ts \/ l.utilized_amount = 0
           mid == FE!Folded(bk, PenaltyEvents(b))
           new == FE!Folded(mid, own)
<1>1. /\ l \in Line /\ due \in Int /\ l.utilized_amount \in Int /\ bk \in Books /\ Shows(bk[b], l)
      /\ bk[b] \in Entry
  BY InterestDueType, LineTypes DEF TypeOK, LedgerTypeOK, Ready, Books
<1>2. AccrualEvents(b) = IF idle THEN << >> ELSE PenaltyEvents(b) \o own
  BY DEF AccrualEvents
<1>3. Accrued(b) = IF now <= l.last_accrual_ts THEN l
                   ELSE IF l.utilized_amount = 0 THEN [l EXCEPT !.last_accrual_ts = now]
                   ELSE IF due > 0 THEN [l EXCEPT !.utilized_amount = @ + due, !.accrued_interest = @ + due,
                                                  !.last_accrual_ts = now]
                   ELSE l
  BY DEF Accrued
<1>4. CASE idle
  <2>1. Shows(bk[b], Accrued(b))
    BY <1>1, <1>3, <1>4 DEF Shows, Line
  <2>2. AccrualEvents(b) = << >> /\ FE!Folded(bk, << >>) = bk
    BY <1>2, <1>4, FE!FoldEmpty
  <2> QED
    BY <1>1, <2>1, <2>2, Tuples DEF Capitalised
<1>5. CASE ~idle
  <2>1. IsSequence(PenaltyEvents(b)) /\ IsSequence(own)
    <3> HIDE DEF due
    <3> QED
      BY PenaltyNotices, Tuples
  <2>2. IsSequence(AccrualEvents(b)) /\ FE!Folded(bk, AccrualEvents(b)) = new
    <3> HIDE DEF own
    <3> QED
      BY <1>2, <1>5, <2>1, ReadInOrder
  <2>3. /\ Touches(bk, mid, b)
        /\ mid[b].status = bk[b].status /\ mid[b].limit = bk[b].limit
        /\ mid[b].rate = bk[b].rate /\ mid[b].debt = bk[b].debt /\ mid[b].sum = bk[b].sum
    <3>1. CASE PenaltyEvents(b) = << >>
      <4>1. mid = bk
        BY <3>1, FE!FoldEmpty
      <4> QED
        BY <1>1, <4>1 DEF Touches
    <3>2. CASE PenaltyEvents(b) = <<PenaltyRateEnteredEvent(b)>>
      <4>1. mid = Follow(bk, PenaltyRateEnteredEvent(b))
        BY <3>2, FE!FoldOne
      <4> QED
        BY <1>1, <4>1, FollowPenalty
    <3> QED
      BY <3>1, <3>2, PenaltyNotices
  <2>4. mid \in Books /\ mid[b] \in Entry
    BY <2>3 DEF Touches, Books
  <2> HIDE DEF mid
  <2>5. CASE due > 0
    <3> DEFINE d == l.utilized_amount + due
               e == DebtEvent("accrue", b, due, d)
    <3>1. new = Follow(mid, e)
      BY <2>5, FE!FoldOne DEF InterestAccruedEvent
    <3>2. d \in Int /\ "accrue" \in DebtTopics
      BY <1>1 DEF DebtTopics
    <3> HIDE DEF d, e, due
    <3>3. /\ Touches(mid, new, b)
          /\ new[b].status = mid[b].status /\ new[b].limit = mid[b].limit
          /\ new[b].rate = mid[b].rate /\ new[b].debt = d
          /\ new[b].sum = mid[b].sum + due
      BY <1>1, <2>4, <3>1, <3>2, FollowDebt DEF e
    <3>4. /\ Accrued(b).status = l.status /\ Accrued(b).credit_limit = l.credit_limit
          /\ Accrued(b).interest_rate_bps = l.interest_rate_bps /\ Accrued(b).utilized_amount = d
      BY <1>1, <1>3, <1>5, <2>5 DEF Line, d
    <3> HIDE DEF new
    <3>5. Shows(new[b], Accrued(b))
      BY <1>1, <2>3, <3>3, <3>4 DEF Shows
    <3>6. new[b].sum - new[b].debt = bk[b].sum - bk[b].debt
      <4>1. bk[b].sum \in Int /\ bk[b].debt = l.utilized_amount
        BY <1>1 DEF Entry, Shows
      <4>2. new[b].sum = bk[b].sum + due /\ new[b].debt = l.utilized_amount + due
        BY <2>3, <3>3 DEF d
      <4> QED
        BY <1>1, <4>1, <4>2
    <3>7. new \in Books /\ \A x \in Borrowers \ {b} : new[x] = bk[x]
      BY <2>3, <3>3 DEF Touches
    <3> QED
      BY <2>2, <3>5, <3>6, <3>7 DEF Capitalised
  <2>6. CASE ~(due > 0)
    <3>1. new = mid
      BY <2>6, FE!FoldEmpty
    <3>2. Accrued(b) = l
      BY <1>3, <1>5, <2>6
    <3>3. Shows(mid[b], l) /\ mid[b].sum - mid[b].debt = bk[b].sum - bk[b].debt
      BY <1>1, <2>3 DEF Shows
    <3> QED
      BY <2>2, <2>3, <3>1, <3>2, <3>3 DEF Capitalised, Touches
  <2> QED
    BY <2>5, <2>6
<1> QED
  BY <1>4, <1>5

\* Events before others.
Before(e, rest) == e \o rest

FB == INSTANCE SeqFolds WITH Op <- Before

\* So do the events of several accruals, in whatever order the lines come.
LEMMA AccrualsFollowed ==
  ASSUME TypeOK, NEW t \in SUBSET Borrowers, NEW bk, Ready(bk, t)
  PROVE  /\ IsSequence(AccrualEventsOf(t))
         /\ Capitalised(bk, FE!Folded(bk, AccrualEventsOf(t)), t)
<1> DEFINE f == [b \in t |-> AccrualEvents(b)]
           h == FB!GatherTable(<< >>, f, t)
           Good(u) == /\ IsSequence(h[u])
                      /\ \A k \in Books : Ready(k, u) => Capitalised(k, FE!Folded(k, h[u]), u)
           T == {u \in SUBSET t : ~Good(u)}
<1>1. AccrualEventsOf(t) = h[t]
  <2>1. FoldFunction(LAMBDA e, rest : e \o rest, << >>, f) = FB!Gathered(<< >>, f)
    BY DEF FoldFunction, FoldFunctionOnSet, MapThenFoldSet, FB!Gathered, FB!GatherTable,
       FB!Gathers, FB!Picked, Before
  <2>2. DOMAIN f = t
    OBVIOUS
  <2> HIDE DEF f
  <2> QED
    BY <2>1, <2>2 DEF AccrualEventsOf, FB!Gathered, f
<1>2. IsFiniteSet(t)
  BY BorrowersAssumption, FS_Subset
<1>3. FB!Gathers(h, << >>, f, t)
  <2>1. FB!IsFiniteSet(t)
    BY <1>2 DEF IsFiniteSet, FB!IsFiniteSet
  <2> HIDE DEF f
  <2> QED
    BY <2>1, FB!GatherTableExists
<1> HIDE DEF h, f
<1>4. Good({})
  <2>1. h[{}] = << >>
    BY <1>3, FB!GatherEntries
  <2>2. \A k \in Books : FE!Folded(k, << >>) = k
    BY FE!FoldEmpty
  <2> QED
    BY <2>1, <2>2, Tuples DEF Capitalised
<1>5. ASSUME NEW u \in SUBSET t, u # {}, Good(u \ {FB!Picked(u)}) PROVE Good(u)
  <2> DEFINE b == FB!Picked(u)
             v == u \ {b}
             a == AccrualEvents(b)
  <2>1. b \in u /\ b \in Borrowers /\ v \subseteq u /\ u = v \cup {b} /\ b \notin v
    BY <1>5 DEF FB!Picked
  <2>2. h[u] = a \o h[v]
    <3>1. h[u] = Before(f[b], h[v])
      BY <1>3, <1>5, FB!GatherEntries
    <3>2. f[b] = a
      BY <2>1 DEF f
    <3> QED
      BY <3>1, <3>2 DEF Before
  <2> HIDE DEF b, v, Good
  <2>3. IsSequence(a)
    <3>1. PICK k \in Books : Ready(k, {b})
      <4> DEFINE e == [status |-> lines[b].status, limit |-> lines[b].credit_limit,
                       rate |-> lines[b].interest_rate_bps, debt |-> lines[b].utilized_amount,
                       sum |-> 0, penalty |-> FALSE]
                 k == [x \in Borrowers |-> e]
      <4>1. /\ lines[b].status \in Statuses \cup {"None"} /\ lines[b].credit_limit \in Nat
            /\ lines[b].interest_rate_bps \in Nat /\ lines[b].utilized_amount \in Int
        BY <2>1, LineTypes, ScaleAssumption DEF TypeOK, LedgerTypeOK, MaxRate
      <4>2. e \in Entry /\ Shows(e, lines[b])
        BY <4>1 DEF Entry, Shows
      <4> HIDE DEF e
      <4>3. k \in Books /\ k[b] = e
        BY <2>1, <4>2 DEF Books
      <4> QED
        BY <4>2, <4>3 DEF Ready
    <3> QED
      BY <2>1, <3>1, AccrualFollowed
  <2>4. IsSequence(h[v])
    BY <1>5 DEF Good, v, b
  <2>5. IsSequence(h[u]) /\ \A k : FE!Folded(k, h[u]) = FE!Folded(FE!Folded(k, a), h[v])
    BY <2>2, <2>3, <2>4, ReadInOrder
  <2>6. ASSUME NEW k \in Books, Ready(k, u) PROVE Capitalised(k, FE!Folded(k, h[u]), u)
    <3> DEFINE m == FE!Folded(k, a)
               n == FE!Folded(m, h[v])
    <3>1. Capitalised(k, m, {b})
      <4>1. Ready(k, {b})
        BY <2>1, <2>6 DEF Ready
      <4> QED
        BY <2>1, <4>1, AccrualFollowed
    <3> HIDE DEF m
    <3>2. m \in Books /\ \A x \in v : m[x] = k[x]
      BY <2>1, <3>1 DEF Capitalised
    <3>3. Ready(m, v)
      BY <2>1, <2>6, <3>2 DEF Ready
    <3>4. Capitalised(m, n, v)
      BY <1>5, <3>2, <3>3 DEF Good, v, b
    <3> HIDE DEF n
    <3>5. n \in Books /\ \A x \in Borrowers \ u : n[x] = k[x]
      BY <2>1, <3>1, <3>4 DEF Capitalised
    <3>6. \A x \in v : Shows(n[x], Accrued(x)) /\ n[x].sum - n[x].debt = k[x].sum - k[x].debt
      BY <3>2, <3>4 DEF Capitalised
    <3>7. n[b] = m[b]
      BY <2>1, <3>4 DEF Capitalised
    <3>8. Shows(n[b], Accrued(b)) /\ n[b].sum - n[b].debt = k[b].sum - k[b].debt
      BY <3>1, <3>7 DEF Capitalised
    <3>9. Capitalised(k, n, u)
      BY <2>1, <3>5, <3>6, <3>8 DEF Capitalised
    <3> QED
      BY <2>5, <3>9 DEF n, m
  <2> QED
    BY <2>5, <2>6 DEF Good
<1>6. T = {}
  <2> SUFFICES ASSUME T # {} PROVE FALSE
    OBVIOUS
  <2>1. T \subseteq SUBSET t
    OBVIOUS
  <2>2. PICK u \in T : \A y \in T : y \subseteq u => y = u
    <3> HIDE DEF T
    <3> QED
      BY <1>2, <2>1, MinimalMember
  <2>3. u \in SUBSET t /\ ~Good(u)
    BY <2>2
  <2>4. u # {}
    BY <1>4, <2>3
  <2> DEFINE w == u \ {FB!Picked(u)}
  <2>5. w \subseteq u /\ w # u
    BY <2>4 DEF FB!Picked
  <2>6. Good(w)
    <3> HIDE DEF Good, w
    <3> QED
      BY <2>2, <2>3, <2>5
  <2> HIDE DEF Good
  <2> QED
    BY <1>5, <2>3, <2>4, <2>6
<1>7. Good(t)
  BY <1>6
<1> QED
  BY <1>1, <1>7 DEF Ready

\* The inductive invariant: the book is well-formed besides being exact.
IndexInv == book \in Books /\ FollowersExact

\* The same, borrower by borrower.
LEMMA Shown ==
  IndexInv <=> /\ book \in Books
               /\ \A x \in Borrowers : /\ Shows(book[x], lines[x])
                                       /\ Unreversed(x) => book[x].sum = lines[x].utilized_amount
BY DEF IndexInv, FollowersExact, IndexerExact, AmountsAddUp, Shows

LEMMA ShownNext ==
  IndexInv' <=> /\ book' \in Books
                /\ \A x \in Borrowers : /\ Shows(book'[x], lines'[x])
                                        /\ Unreversed(x)' => book'[x].sum = lines'[x].utilized_amount
BY DEF IndexInv, FollowersExact, IndexerExact, AmountsAddUp, Shows

\* A step that stores one line is followed when its borrower's entry shows the new line.
LEMMA LineFollowed ==
  ASSUME TypeOK, IndexInv, NEW b \in Borrowers, NEW new, lines' = [lines EXCEPT ![b] = new],
         Touches(book, book', b), Shows(book'[b], new),
         Unreversed(b)' => book'[b].sum = new.utilized_amount,
         \A x \in Borrowers \ {b} : draw_reversed'[x] = draw_reversed[x]
  PROVE  IndexInv'
<1>1. lines \in [Borrowers -> Line]
  BY DEF TypeOK, LedgerTypeOK
<1>2. lines'[b] = new /\ \A x \in Borrowers \ {b} : lines'[x] = lines[x]
  BY <1>1
<1>3. book' \in Books /\ \A x \in Borrowers \ {b} : book'[x] = book[x]
  BY DEF Touches
<1>4. ASSUME NEW x \in Borrowers \ {b}
      PROVE  /\ Shows(book'[x], lines'[x])
             /\ Unreversed(x)' => book'[x].sum = lines'[x].utilized_amount
  <2>1. Unreversed(x)' => Unreversed(x)
    BY <1>4 DEF Unreversed
  <2> QED
    BY <1>2, <1>3, <1>4, <2>1, Shown
<1> QED
  BY <1>2, <1>3, <1>4, ShownNext

\* Lines accrued and followed so are shown, and their accounts add up as before.
LEMMA AccountsCarried ==
  ASSUME TypeOK, IndexInv, NEW t \in SUBSET Borrowers, NEW mid, Capitalised(book, mid, t),
         NEW x \in t
  PROVE  Shows(mid[x], Accrued(x)) /\ (Unreversed(x) => mid[x].sum = Accrued(x).utilized_amount)
<1>1. x \in Borrowers /\ book[x] \in Entry /\ Shows(book[x], lines[x])
      /\ (Unreversed(x) => book[x].sum = lines[x].utilized_amount)
  BY Shown DEF Books
<1>2. mid[x] \in Entry /\ Shows(mid[x], Accrued(x))
      /\ mid[x].sum - mid[x].debt = book[x].sum - book[x].debt
  BY <1>1 DEF Capitalised, Books
<1>3. ASSUME Unreversed(x) PROVE mid[x].sum = Accrued(x).utilized_amount
  <2>1. book[x].sum = book[x].debt /\ mid[x].debt = Accrued(x).utilized_amount
    BY <1>1, <1>2, <1>3 DEF Shows
  <2>2. mid[x].sum \in Int /\ mid[x].debt \in Int /\ book[x].sum \in Int
    BY <1>1, <1>2 DEF Entry
  <2> QED
    BY <1>2, <2>1, <2>2
<1> QED
  BY <1>2, <1>3

\* The book between the accrual events of a call and its own.
Between(mid, b) ==
  /\ Touches(book, mid, b) /\ mid[b] \in Entry /\ Shows(mid[b], Accrued(b))
  /\ Unreversed(b) => mid[b].sum = Accrued(b).utilized_amount

LEMMA AccruedBook ==
  ASSUME TypeOK, IndexInv, NEW b \in Borrowers
  PROVE  LET mid == FE!Folded(book, AccrualEvents(b))
         IN  IsSequence(AccrualEvents(b)) /\ mid \in Books /\ Between(mid, b)
<1> DEFINE mid == FE!Folded(book, AccrualEvents(b))
<1>1. Ready(book, {b})
  BY Shown DEF Ready
<1>2. IsSequence(AccrualEvents(b)) /\ Capitalised(book, mid, {b})
  BY <1>1, AccrualFollowed
<1> HIDE DEF mid
<1>3. Touches(book, mid, b) /\ mid \in Books /\ mid[b] \in Entry
  BY <1>2 DEF Capitalised, Touches, Books
<1>4. Shows(mid[b], Accrued(b)) /\ (Unreversed(b) => mid[b].sum = Accrued(b).utilized_amount)
  BY <1>2, AccountsCarried
<1> QED
  BY <1>2, <1>3, <1>4 DEF Between, mid

LEMMA AfterAccrual ==
  ASSUME TypeOK, IndexInv, NEW b \in Borrowers, NEW events, IsSequence(events),
         Publish(AccrualEvents(b) \o events)
  PROVE  \E mid \in Books : Between(mid, b) /\ book' = FE!Folded(mid, events)
BY AccruedBook, ReadInOrder, PublishFolds

\* A call that changes status or terms and not the debt, and reports it after its accrual.
LEMMA StatusFollowed ==
  ASSUME TypeOK, IndexInv, NEW b \in Borrowers, NEW topic \in StatusTopics, NEW new \in Line,
         lines' = [lines EXCEPT ![b] = new], new.utilized_amount = Accrued(b).utilized_amount,
         draw_reversed' = draw_reversed, Publish(StatusEvents(topic, b))
  PROVE  IndexInv'
<1>1. lines'[b] = new
  BY DEF TypeOK, LedgerTypeOK
<1> DEFINE e == CreditLineEvent(topic, b, new)
<1>2. Publish(AccrualEvents(b) \o <<e>>) /\ IsSequence(<<e>>)
  BY <1>1, Tuples DEF StatusEvents
<1> HIDE DEF e
<1>3. PICK mid \in Books : Between(mid, b) /\ book' = FE!Folded(mid, <<e>>)
  BY <1>2, AfterAccrual
<1>4. book' = Follow(mid, e)
  BY <1>3, FE!FoldOne
<1>5. /\ Touches(mid, book', b)
      /\ book'[b].status = new.status /\ book'[b].limit = new.credit_limit
      /\ book'[b].rate = new.interest_rate_bps
      /\ book'[b].debt = mid[b].debt /\ book'[b].sum = mid[b].sum
  BY <1>4, FollowStatus DEF e
<1>6. Touches(book, book', b) /\ Shows(book'[b], new)
  BY <1>3, <1>5 DEF Between, Touches, Shows
<1>7. Unreversed(b)' => book'[b].sum = new.utilized_amount
  BY <1>3, <1>5 DEF Between, Unreversed
<1> QED
  BY <1>6, <1>7, LineFollowed

\* A call that lowers the debt, and reports the amount and the line after its accrual.
LEMMA DebtFollowed ==
  ASSUME TypeOK, IndexInv, NEW b \in Borrowers, NEW topic \in DebtTopics, NEW delta \in Int,
         NEW new \in Line, lines' = [lines EXCEPT ![b] = new], draw_reversed' = draw_reversed,
         Unreversed(b) => new.utilized_amount = Accrued(b).utilized_amount + delta,
         Publish(AccrualEvents(b) \o <<DebtEvent(topic, b, delta, new.utilized_amount),
                                       BorrowLifecycleEvent(b, new)>>)
  PROVE  IndexInv'
<1> DEFINE e == DebtEvent(topic, b, delta, new.utilized_amount)
           f == BorrowLifecycleEvent(b, new)
<1>1. Publish(AccrualEvents(b) \o <<e, f>>) /\ IsSequence(<<e, f>>)
  BY Tuples
<1> HIDE DEF e, f
<1>2. PICK mid \in Books : Between(mid, b) /\ book' = FE!Folded(mid, <<e, f>>)
  BY <1>1, AfterAccrual
<1> DEFINE mad == Follow(mid, e)
<1>3. book' = Follow(mad, f)
  BY <1>2, FE!FoldTwo
<1>4. Touches(mid, mad, b) /\ mad[b].sum = mid[b].sum + delta
  BY LineTypes, FollowDebt DEF e
<1> HIDE DEF mad
<1>5. Touches(mad, book', b) /\ Shows(book'[b], new) /\ book'[b].sum = mad[b].sum
  BY <1>3, <1>4, FollowLifecycle DEF f, Touches
<1>6. Touches(book, book', b)
  BY <1>2, <1>4, <1>5 DEF Between, Touches
<1>7. Unreversed(b)' => book'[b].sum = new.utilized_amount
  BY <1>2, <1>4, <1>5 DEF Between, Unreversed
<1> QED
  BY <1>5, <1>6, <1>7, LineFollowed

\* Suspensions, their ends and reinstatements are followed.
LEMMA StatusCallsFollowed ==
  ASSUME IInv, IndexInv, NEW b \in Borrowers, NEW topic \in StatusTopics,
         \/ \E target \in Suspensions : Suspend(b, target)
         \/ \E sources \in SUBSET Suspensions : Lift(b, sources)
         \/ \E target \in {"Active", "Restricted"} : ReinstateCreditLine(b, target),
         Publish(StatusEvents(topic, b))
  PROVE  IndexInv'
<1> DEFINE l == Accrued(b)
<1>1. TypeOK /\ l \in Line /\ now \in Nat
  BY AccruedStart DEF IInv
<1> HIDE DEF l
<1>2. PICK s \in Statuses, t \in Nat :
        /\ lines' = [lines EXCEPT ![b] = [l EXCEPT !.status = s, !.suspension_ts = t]]
        /\ draw_reversed' = draw_reversed
  BY <1>1 DEF Suspend, Lift, ReinstateCreditLine, PersistCreditLine, drawLog, Suspensions, Statuses, l
<1> DEFINE new == [l EXCEPT !.status = s, !.suspension_ts = t]
<1>3. new \in Line /\ new.utilized_amount = l.utilized_amount
  BY <1>1 DEF Line
<1> HIDE DEF new
<1>4. lines' = [lines EXCEPT ![b] = new]
  BY <1>2 DEF new
<1> QED
  BY <1>1, <1>2, <1>3, <1>4, StatusFollowed DEF l

\* A default is followed, and the request for an auction changes nothing.
LEMMA DefaultFollowed ==
  ASSUME IInv, IndexInv, NEW b \in Borrowers, DefaultCreditLine(b), Publish(DefaultEvents(b))
  PROVE  IndexInv'
<1> DEFINE l   == Accrued(b)
           new == [l EXCEPT !.status = "Defaulted"]
           u   == new.utilized_amount
           e   == CreditLineEvent("defaulted", b, new)
           f   == DebtEvent("liq_req", b, 0, u)
<1>1. TypeOK /\ l \in Line
  BY AccruedStart DEF IInv
<1>2. lines' = [lines EXCEPT ![b] = new] /\ draw_reversed' = draw_reversed
  BY DEF DefaultCreditLine, PersistCreditLine, drawLog
<1>3. lines'[b] = new
  BY <1>1, <1>2 DEF TypeOK, LedgerTypeOK
<1>4. new \in Line /\ u = l.utilized_amount /\ u \in Int
  <2> HIDE DEF l
  <2>1. new \in Line /\ u = l.utilized_amount
    BY <1>1 DEF Line, Statuses
  <2> QED
    BY <2>1, LineTypes
<1>5. DefaultEvents(b) = (AccrualEvents(b) \o <<e>>) \o <<f>>
  BY <1>3 DEF DefaultEvents, StatusEvents, LiquidationRequestedEvent
<1> HIDE DEF e, f, u
<1>6. PICK mid \in Books : Between(mid, b) /\ book' = Follow(Follow(mid, e), f)
  <2> DEFINE A == AccrualEvents(b)
             mid == FE!Folded(book, A)
  <2>1. IsSequence(A) /\ IsSequence(<<e>>) /\ IsSequence(<<f>>)
    BY <1>1, AccruedBook, Tuples
  <2> HIDE DEF A
  <2>2. IsSequence(A \o <<e>>)
    BY <2>1, ReadInOrder
  <2>3. book' = FE!Folded(book, (A \o <<e>>) \o <<f>>)
    BY <1>5, PublishFolds DEF A
  <2>4. book' = FE!Folded(FE!Folded(mid, <<e>>), <<f>>)
    BY <2>1, <2>2, <2>3, ReadInOrder
  <2>5. book' = Follow(Follow(mid, e), f)
    BY <2>4, FE!FoldOne
  <2>6. mid \in Books /\ Between(mid, b)
    BY <1>1, AccruedBook DEF A
  <2> QED
    BY <2>5, <2>6
<1> DEFINE mad == Follow(mid, e)
<1>7. /\ Touches(mid, mad, b)
      /\ mad[b].status = new.status /\ mad[b].limit = new.credit_limit
      /\ mad[b].rate = new.interest_rate_bps /\ mad[b].sum = mid[b].sum
  <2>1. "defaulted" \in StatusTopics
    BY DEF StatusTopics
  <2> HIDE DEF new
  <2> QED
    BY <1>4, <2>1, FollowStatus DEF e
<1>8. mad \in Books /\ mad[b].sum \in Int
  BY <1>7 DEF Touches, Books, Entry
<1> HIDE DEF mad
<1>9. /\ Touches(mad, book', b)
      /\ book'[b].status = mad[b].status /\ book'[b].limit = mad[b].limit
      /\ book'[b].rate = mad[b].rate /\ book'[b].debt = u
      /\ book'[b].sum = mad[b].sum + 0
  <2>1. "liq_req" \in DebtTopics /\ 0 \in Int
    BY DEF DebtTopics
  <2> QED
    BY <1>4, <1>6, <1>8, <2>1, FollowDebt DEF mad, f
<1> HIDE DEF new, l
<1>10. Touches(book, book', b) /\ Shows(book'[b], new)
  BY <1>6, <1>7, <1>9 DEF Between, Touches, Shows, u
<1>11. Unreversed(b)' => book'[b].sum = new.utilized_amount
  BY <1>2, <1>4, <1>6, <1>7, <1>8, <1>9 DEF Between, Unreversed, u, l
<1> QED
  BY <1>1, <1>2, <1>10, <1>11, LineFollowed

\* Opening and closing report the line without accruing it.
LEMMA CloseFollowed ==
  ASSUME IInv, IndexInv, NEW b \in Borrowers, NEW closer, CloseCreditLine(b, closer),
         Publish(<<CreditLineEvent("closed", b, lines'[b])>>)
  PROVE  IndexInv'
<1> DEFINE l   == lines[b]
           new == [l EXCEPT !.status = "Closed"]
<1>1. TypeOK /\ l \in Line
  BY DEF IInv, TypeOK, LedgerTypeOK
<1>2. lines' = [lines EXCEPT ![b] = new] /\ draw_reversed' = draw_reversed
  BY DEF CloseCreditLine, PersistCreditLine, drawLog
<1>3. lines'[b] = new
  BY <1>1, <1>2 DEF TypeOK, LedgerTypeOK
<1>4. book' = Follow(book, CreditLineEvent("closed", b, new))
  BY <1>3, PublishFolds, FE!FoldOne
<1>5. book \in Books /\ Shows(book[b], l) /\ (Unreversed(b) => book[b].sum = l.utilized_amount)
  BY Shown
<1> HIDE DEF l
<1>6. new \in Line /\ new.utilized_amount = l.utilized_amount
  BY <1>1 DEF Line, Statuses
<1> HIDE DEF new
<1>7. /\ Touches(book, book', b)
      /\ book'[b].status = new.status /\ book'[b].limit = new.credit_limit
      /\ book'[b].rate = new.interest_rate_bps
      /\ book'[b].debt = book[b].debt /\ book'[b].sum = book[b].sum
  <2>1. "closed" \in StatusTopics
    BY DEF StatusTopics
  <2> QED
    BY <1>4, <1>5, <1>6, <2>1, FollowStatus
<1>8. Shows(book'[b], new) /\ (Unreversed(b)' => book'[b].sum = new.utilized_amount)
  BY <1>2, <1>5, <1>6, <1>7 DEF Shows, Unreversed
<1> QED
  BY <1>1, <1>2, <1>7, <1>8, LineFollowed

LEMMA OpenFollowed ==
  ASSUME IInv, IndexInv, NEW b \in Borrowers, NEW limit \in Limits, NEW rate \in Rates,
         OpenCreditLine(b, limit, rate), Publish(<<CreditLineEvent("opened", b, lines'[b])>>)
  PROVE  IndexInv'
<1> DEFINE old     == lines[b]
           carried == CarriesDebt(b)
           i       == IF carried THEN old.accrued_interest ELSE 0
           u       == IF carried THEN old.utilized_amount ELSE 0
           t       == IF carried THEN old.last_accrual_ts ELSE now
           new     == [status |-> "Active", credit_limit |-> limit, interest_rate_bps |-> rate,
                       utilized_amount |-> u, accrued_interest |-> i, last_accrual_ts |-> t,
                       last_rate_update_ts |-> 0, suspension_ts |-> 0]
<1>1. TypeOK /\ old \in Line /\ now \in Nat /\ limit \in Nat /\ rate \in 0..MaxRate
  BY InputsAssumption, AccruedStart DEF IInv, TypeOK, LedgerTypeOK
<1>2. lines' = [lines EXCEPT ![b] = new] /\ draw_reversed' = draw_reversed
  BY DEF OpenCreditLine, PersistCreditLine, drawLog
<1>3. lines'[b] = new
  BY <1>1, <1>2 DEF TypeOK, LedgerTypeOK
<1>4. book' = Follow(book, CreditLineEvent("opened", b, new))
  BY <1>3, PublishFolds, FE!FoldOne
<1>5. book \in Books /\ Shows(book[b], old) /\ (Unreversed(b) => book[b].sum = old.utilized_amount)
  BY Shown
<1>6. i \in Int /\ u \in Int /\ t \in Nat
  BY <1>1, LineTypes
<1>7. (carried => u = old.utilized_amount) /\ (~carried => u = 0)
      /\ (carried <=> book[b].status \notin {"None", "Closed"})
  BY <1>5 DEF CarriesDebt, Shows
<1> HIDE DEF i, u, t, carried
<1>8. new \in Line /\ new.utilized_amount = u
  BY <1>1, <1>6 DEF Line, Statuses
<1> HIDE DEF new
<1>9. /\ Touches(book, book', b)
      /\ book'[b].status = new.status /\ book'[b].limit = new.credit_limit
      /\ book'[b].rate = new.interest_rate_bps
      /\ ~carried => book'[b].debt = 0 /\ book'[b].sum = 0
      /\ carried => book'[b].debt = book[b].debt /\ book'[b].sum = book[b].sum
  BY <1>4, <1>5, <1>7, <1>8, FollowOpened
<1>10. Shows(book'[b], new) /\ (Unreversed(b)' => book'[b].sum = new.utilized_amount)
  BY <1>2, <1>5, <1>7, <1>8, <1>9 DEF Shows, Unreversed
<1> QED
  BY <1>1, <1>2, <1>9, <1>10, LineFollowed

\* A change of terms is followed: the indexer's debt is the accrued one the code compares with.
LEMMA TermsFollowed ==
  ASSUME IInv, IndexInv, NEW b \in Borrowers, NEW limit \in Limits, NEW rate \in Rates,
         UpdateRiskParameters(b, limit, rate),
         Publish(AccrualEvents(b) \o <<RiskParametersUpdatedEvent(b, lines'[b])>>)
  PROVE  IndexInv'
<1> DEFINE l   == Accrued(b)
           r   == IF cfg.rate_limits.on /\ rate # l.interest_rate_bps THEN now
                  ELSE l.last_rate_update_ts
           st  == IF l.utilized_amount > limit
                  THEN IF l.status = "Active" THEN "Restricted" ELSE l.status
                  ELSE IF l.status = "Restricted" THEN "Active" ELSE l.status
           new == [l EXCEPT !.interest_rate_bps = rate, !.credit_limit = limit,
                            !.last_rate_update_ts = r, !.status = st]
           e   == RiskParametersUpdatedEvent(b, new)
<1>1. TypeOK /\ l \in Line /\ now \in Nat /\ limit \in Nat /\ rate \in 0..MaxRate
  BY InputsAssumption, AccruedStart DEF IInv
<1>2. lines' = [lines EXCEPT ![b] = new] /\ draw_reversed' = draw_reversed
  BY DEF UpdateRiskParameters, PersistCreditLine, drawLog
<1>3. lines'[b] = new
  BY <1>1, <1>2 DEF TypeOK, LedgerTypeOK
<1>4. r \in Nat /\ st \in Statuses \cup {"None"}
  BY <1>1, LineTypes DEF Statuses
<1>5. Publish(AccrualEvents(b) \o <<e>>) /\ IsSequence(<<e>>)
  BY <1>3, Tuples
<1> HIDE DEF l, r, st, e
<1>6. /\ new \in Line /\ new.status = st /\ new.credit_limit = limit
      /\ new.interest_rate_bps = rate /\ new.utilized_amount = l.utilized_amount
  BY <1>1, <1>4 DEF Line
<1> HIDE DEF new
<1>7. PICK mid \in Books : Between(mid, b) /\ book' = FE!Folded(mid, <<e>>)
  BY <1>1, <1>5, AfterAccrual
<1>8. book' = Follow(mid, e)
  BY <1>7, FE!FoldOne
<1>9. /\ Touches(mid, book', b)
      /\ book'[b].status = IF mid[b].status \in {"Active", "Restricted"}
                           THEN IF mid[b].debt > new.credit_limit THEN "Restricted" ELSE "Active"
                           ELSE mid[b].status
      /\ book'[b].limit = new.credit_limit /\ book'[b].rate = new.interest_rate_bps
      /\ book'[b].debt = mid[b].debt /\ book'[b].sum = mid[b].sum
  BY <1>6, <1>8, FollowTerms DEF e
<1>10. mid[b].status = l.status /\ mid[b].debt = l.utilized_amount
       /\ (Unreversed(b) => mid[b].sum = l.utilized_amount) /\ Touches(book, mid, b)
  BY <1>7 DEF Between, Shows, l
<1>11. book'[b].status = new.status
  BY <1>6, <1>9, <1>10 DEF st
<1>12. Touches(book, book', b) /\ Shows(book'[b], new)
  BY <1>6, <1>9, <1>10, <1>11 DEF Touches, Shows
<1>13. Unreversed(b)' => book'[b].sum = new.utilized_amount
  BY <1>2, <1>6, <1>9, <1>10 DEF Unreversed
<1> QED
  BY <1>1, <1>2, <1>12, <1>13, LineFollowed

\* A repayment is followed: of an unreversed line no more is taken than it owes.
LEMMA RepayFollowed ==
  ASSUME IInv, IndexInv, NEW b \in Borrowers, NEW amount \in Amounts, RepayCredit(b, amount),
         Publish(RepayEvents(b, amount))
  PROVE  IndexInv'
<1> DEFINE l    == Accrued(b)
           owed == MaxOf(MinOf(l.accrued_interest, MaxOf(l.utilized_amount, 0)), 0)
           pay  == AllocateRepayment(l.utilized_amount, owed, amount)
           told == AllocateRepayment(l.utilized_amount, l.accrued_interest, amount)
           i    == owed - pay.interest
           u    == MaxOf(l.utilized_amount - pay.effective, 0)
           new  == [l EXCEPT !.accrued_interest = i, !.utilized_amount = u]
           delta == -told.effective
<1>1. TypeOK /\ l \in Line /\ amount \in Nat /\ l.utilized_amount \in Int /\ l.accrued_interest \in Int
      /\ (Unreversed(b) => InterestSound(l))
  BY InputsAssumption, AccruedStart DEF IInv
<1>2. lines' = [lines EXCEPT ![b] = new] /\ draw_reversed' = draw_reversed
  BY DEF RepayCredit, PersistCreditLine, drawLog
<1>3. lines'[b] = new
  BY <1>1, <1>2 DEF TypeOK, LedgerTypeOK
<1>4. Publish(AccrualEvents(b) \o <<DebtEvent("repay", b, delta, new.utilized_amount),
                                    BorrowLifecycleEvent(b, new)>>)
  BY <1>3 DEF RepayEvents, RepaymentEvent
<1> HIDE DEF l
<1>5. told.effective = pay.effective
  BY DEF AllocateRepayment
<1>6. /\ owed \in Int /\ pay.effective \in Nat /\ pay.interest \in Nat
      /\ l.utilized_amount >= 0 => pay.effective <= l.utilized_amount
  <2>1. owed \in Int
    BY <1>1 DEF MinOf, MaxOf
  <2> HIDE DEF owed
  <2> QED
    BY <1>1, <2>1, AllocateRepaymentSplit
<1> HIDE DEF owed, pay, told
<1>7. i \in Int /\ u \in Int /\ delta \in Int
      /\ (l.utilized_amount >= 0 => u = l.utilized_amount + delta)
  BY <1>1, <1>5, <1>6 DEF MaxOf
<1>8. InterestSound(l) => l.utilized_amount >= 0
  BY <1>1 DEF InterestSound
<1> HIDE DEF i, u, delta
<1>9. new \in Line /\ new.utilized_amount = u
  BY <1>1, <1>7 DEF Line
<1> HIDE DEF new
<1>10. "repay" \in DebtTopics
  BY DEF DebtTopics
<1>11. Unreversed(b) => new.utilized_amount = Accrued(b).utilized_amount + delta
  BY <1>1, <1>7, <1>8, <1>9 DEF l
<1> QED
  BY <1>1, <1>2, <1>4, <1>7, <1>9, <1>10, <1>11, DebtFollowed

\* So is a write-off.
LEMMA ForgiveFollowed ==
  ASSUME IInv, IndexInv, NEW b \in Borrowers, NEW amount \in Amounts, ForgiveDebt(b, amount),
         Publish(ForgiveEvents(b, amount))
  PROVE  IndexInv'
<1> DEFINE l        == Accrued(b)
           forgiven == MinOf(amount, l.utilized_amount)
           i        == l.accrued_interest - MinOf(forgiven, l.accrued_interest)
           u        == l.utilized_amount - forgiven
           new      == [l EXCEPT !.accrued_interest = i, !.utilized_amount = u]
           delta    == -forgiven
<1>1. TypeOK /\ l \in Line /\ amount \in Nat /\ l.utilized_amount \in Int /\ l.accrued_interest \in Int
  BY InputsAssumption, AccruedStart DEF IInv
<1>2. lines' = [lines EXCEPT ![b] = new] /\ draw_reversed' = draw_reversed
  BY DEF ForgiveDebt, PersistCreditLine, drawLog
<1>3. lines'[b] = new
  BY <1>1, <1>2 DEF TypeOK, LedgerTypeOK
<1>4. Publish(AccrualEvents(b) \o <<DebtEvent("debt_frgv", b, delta, new.utilized_amount),
                                    BorrowLifecycleEvent(b, new)>>)
  BY <1>3 DEF ForgiveEvents, DebtForgivenEvent
<1> HIDE DEF l
<1>5. i \in Int /\ u \in Int /\ delta \in Int /\ u = l.utilized_amount + delta
  BY <1>1 DEF MinOf
<1> HIDE DEF i, u, delta
<1>6. new \in Line /\ new.utilized_amount = u
  BY <1>1, <1>5 DEF Line
<1> HIDE DEF new
<1>7. "debt_frgv" \in DebtTopics
  BY DEF DebtTopics
<1> QED
  BY <1>1, <1>2, <1>4, <1>5, <1>6, <1>7, DebtFollowed DEF l

\* A reversal reports the debt, and takes its borrower out of the account.
LEMMA ReverseFollowed ==
  ASSUME IInv, IndexInv, NEW b \in Borrowers, NEW amount \in ReverseAmounts, NEW ts \in Times,
         ReverseDraw(b, amount, ts), Publish(ReverseEvents(b, amount))
  PROVE  IndexInv'
<1> DEFINE l     == Accrued(b)
           u     == l.utilized_amount - amount
           new   == [l EXCEPT !.utilized_amount = u]
           delta == -amount
           e     == DebtEvent("draw_rev", b, delta, u)
<1>1. /\ TypeOK /\ l \in Line /\ amount \in Nat /\ amount > 0 /\ l.utilized_amount \in Int
      /\ u \in Int /\ delta \in Int
  BY InputsAssumption, AccruedStart DEF IInv, ReverseDraw
<1>2. /\ lines' = [lines EXCEPT ![b] = new]
      /\ draw_reversed' = [draw_reversed EXCEPT ![b][ts] = @ + amount]
  BY DEF ReverseDraw, PersistCreditLine
<1>3. Publish(AccrualEvents(b) \o <<e>>) /\ IsSequence(<<e>>)
  BY Tuples DEF ReverseEvents, DrawReversedEvent
<1>4. draw_reversed \in [Borrowers -> [Times -> Nat]]
  BY DEF IInv, TypeOK, ContextTypeOK
<1>5. /\ draw_reversed'[b][ts] > 0
      /\ \A x \in Borrowers \ {b} : draw_reversed'[x] = draw_reversed[x]
  BY <1>1, <1>2, <1>4
<1>6. ~Unreversed(b)'
  BY <1>5 DEF Unreversed
<1> HIDE DEF l, u, e, delta
<1>7. /\ new \in Line /\ new.utilized_amount = u /\ new.status = l.status
      /\ new.credit_limit = l.credit_limit /\ new.interest_rate_bps = l.interest_rate_bps
  BY <1>1 DEF Line
<1> HIDE DEF new
<1>8. PICK mid \in Books : Between(mid, b) /\ book' = FE!Folded(mid, <<e>>)
  BY <1>1, <1>3, AfterAccrual
<1>9. book' = Follow(mid, e)
  BY <1>8, FE!FoldOne
<1>10. /\ Touches(mid, book', b)
       /\ book'[b].status = mid[b].status /\ book'[b].limit = mid[b].limit
       /\ book'[b].rate = mid[b].rate /\ book'[b].debt = u
  <2>1. "draw_rev" \in DebtTopics
    BY DEF DebtTopics
  <2> QED
    BY <1>1, <1>9, <2>1, FollowDebt DEF e
<1>11. Touches(book, book', b) /\ Shows(book'[b], new)
  BY <1>7, <1>8, <1>10 DEF Between, Touches, Shows, l
<1> QED
  BY <1>1, <1>2, <1>5, <1>6, <1>11, LineFollowed

\* A settlement is followed, whether or not it closes the line: the recovered amount is within
\* the debt, so all of it is repaid.
LEMMA SettlementFollowed ==
  ASSUME IInv, IndexInv, NEW b \in Borrowers, NEW recovered \in Amounts, NEW id \in SettlementIds,
         NEW factor \in CloseFactors, SettleDefaultLiquidation(b, recovered, id, factor),
         Publish(SettlementEvents(b, recovered))
  PROVE  IndexInv'
<1> DEFINE l      == Accrued(b)
           repaid == MinOf(recovered, l.utilized_amount)
           i      == l.accrued_interest - MinOf(repaid, l.accrued_interest)
           u      == l.utilized_amount - repaid
           st     == IF u = 0 THEN "Closed" ELSE l.status
           new    == [l EXCEPT !.accrued_interest = i, !.utilized_amount = u, !.status = st]
           delta  == -recovered
           e      == CreditLineEvent("closed", b, new)
           f      == DebtEvent("liq_setl", b, delta, u)
           own    == IF new.status = "Closed" THEN <<e>> ELSE << >>
           A      == AccrualEvents(b)
           mid    == FE!Folded(book, A)
           mad    == FE!Folded(mid, own)
<1>1. /\ TypeOK /\ l \in Line /\ recovered \in Nat /\ delta \in Int
      /\ l.utilized_amount \in Int /\ l.accrued_interest \in Int /\ l.status = "Defaulted"
      /\ Unreversed(b) => InterestSound(l)
  BY InputsAssumption, AccruedStart DEF IInv, SettleDefaultLiquidation
<1>2. lines' = [lines EXCEPT ![b] = new] /\ draw_reversed' = draw_reversed
  BY DEF SettleDefaultLiquidation, PersistCreditLine, drawLog
<1>3. lines'[b] = new
  BY <1>1, <1>2 DEF TypeOK, LedgerTypeOK
<1>4. Unreversed(b) => u = l.utilized_amount + delta
  <2>1. factor \in 0..BPS /\ recovered <= ApplyBps(l.utilized_amount, factor)
    <3>1. cfg.close_factor \in 1..BPS /\ factor <= cfg.close_factor /\ factor \in 1..BPS
      BY <1>1, InputsAssumption DEF SettleDefaultLiquidation, TypeOK, ContextTypeOK, Config
    <3> QED
      BY <3>1, ScaleAssumption DEF SettleDefaultLiquidation
  <2> HIDE DEF l
  <2>2. InterestSound(l) => l.utilized_amount \in Nat
    BY <1>1 DEF InterestSound
  <2>3. l.utilized_amount \in Nat => ApplyBps(l.utilized_amount, factor) \in Nat
                                     /\ ApplyBps(l.utilized_amount, factor) <= l.utilized_amount
    BY <2>1, ApplyBpsBound, ApplyBpsType
  <2>4. l.utilized_amount \in Nat => recovered <= l.utilized_amount
    BY <1>1, <2>1, <2>3
  <2> QED
    BY <1>1, <2>2, <2>4 DEF MinOf
<1>5. i \in Int /\ u \in Int /\ st \in {"Closed", "Defaulted"}
  BY <1>1 DEF MinOf
<1> HIDE DEF i, st, delta, l
<1>6. new.utilized_amount = u
  BY <1>1 DEF Line
<1>7. SettlementEvents(b, recovered) = (A \o own) \o <<f>>
  BY <1>3, <1>6 DEF SettlementEvents, LiquidationSettledEvent, delta
<1> HIDE DEF u
<1>8. /\ new \in Line /\ new.status = st
      /\ new.credit_limit = l.credit_limit /\ new.interest_rate_bps = l.interest_rate_bps
  BY <1>1, <1>5 DEF Line, Statuses
<1> HIDE DEF new, e, f
<1>9. IsSequence(A) /\ mid \in Books /\ Between(mid, b)
  BY <1>1, AccruedBook
<1>10. book' = Follow(mad, f)
  <2> HIDE DEF A
  <2>1. IsSequence(own) /\ IsSequence(<<f>>)
    BY Tuples
  <2> HIDE DEF own
  <2>2. book' = FE!Folded(book, (A \o own) \o <<f>>)
    BY <1>7, PublishFolds
  <2>3. book' = FE!Folded(mad, <<f>>)
    BY <1>9, <2>1, <2>2, ReadInOrder
  <2> QED
    BY <2>3, FE!FoldOne
<1> HIDE DEF mid
<1>11. /\ Touches(mid, mad, b)
       /\ mad[b].status = new.status /\ mad[b].limit = new.credit_limit
       /\ mad[b].rate = new.interest_rate_bps /\ mad[b].sum = mid[b].sum
  <2>1. CASE new.status = "Closed"
    <3>1. mad = Follow(mid, e) /\ "closed" \in StatusTopics
      BY <2>1, FE!FoldOne DEF StatusTopics
    <3> QED
      BY <1>8, <1>9, <3>1, FollowStatus DEF e
  <2>2. CASE new.status # "Closed"
    <3>1. mad = mid
      BY <2>2, FE!FoldEmpty
    <3>2. new.status = l.status
      BY <1>1, <1>5, <1>8, <2>2
    <3> QED
      BY <1>8, <1>9, <3>1, <3>2 DEF Between, Shows, Touches, l
  <2> QED
    BY <2>1, <2>2
<1>12. mad \in Books
  BY <1>11 DEF Touches
<1> HIDE DEF mad
<1>13. /\ Touches(mad, book', b)
       /\ book'[b].status = mad[b].status /\ book'[b].limit = mad[b].limit
       /\ book'[b].rate = mad[b].rate /\ book'[b].debt = u
       /\ book'[b].sum = mad[b].sum + delta
  <2>1. "liq_setl" \in DebtTopics
    BY DEF DebtTopics
  <2> QED
    BY <1>1, <1>5, <1>10, <1>12, <2>1, FollowDebt DEF f
<1>14. Touches(book, book', b) /\ Shows(book'[b], new)
  BY <1>6, <1>9, <1>11, <1>13 DEF Between, Touches, Shows
<1>15. Unreversed(b)' => book'[b].sum = new.utilized_amount
  BY <1>2, <1>4, <1>6, <1>9, <1>11, <1>13 DEF Between, Unreversed, l
<1> QED
  BY <1>1, <1>2, <1>14, <1>15, LineFollowed

\* A batch of accruals is followed.
LEMMA BatchFollowed ==
  ASSUME IInv, IndexInv, NEW batch \in SUBSET Borrowers, AccrueBatchEvents(batch)
  PROVE  IndexInv'
<1> DEFINE t == {b \in batch : lines[b].status = "Active" /\ lines[b].utilized_amount > 0}
<1>1. TypeOK /\ t \in SUBSET Borrowers
  BY DEF IInv
<1>2. /\ lines' = [b \in Borrowers |-> IF b \in t THEN Accrued(b) ELSE lines[b]]
      /\ draw_reversed' = draw_reversed
  BY DEF AccrueBatchEvents, AccrueBatch, PersistDebts, drawLog
<1>3. book' = FE!Folded(book, AccrualEventsOf(t))
  BY PublishFolds DEF AccrueBatchEvents
<1> HIDE DEF t
<1>4. book \in Books /\ Ready(book, t)
  BY <1>1, Shown DEF Ready
<1>5. Capitalised(book, book', t)
  BY <1>1, <1>3, <1>4, AccrualsFollowed
<1>6. ASSUME NEW x \in Borrowers
      PROVE  /\ Shows(book'[x], lines'[x])
             /\ Unreversed(x)' => book'[x].sum = lines'[x].utilized_amount
  <2>1. Unreversed(x)' => Unreversed(x)
    BY <1>2 DEF Unreversed
  <2>2. CASE x \in t
    <3>1. lines'[x] = Accrued(x)
      BY <1>2, <2>2
    <3> QED
      BY <1>1, <1>5, <2>1, <2>2, <3>1, AccountsCarried
  <2>3. CASE x \notin t
    <3>1. lines'[x] = lines[x] /\ book'[x] = book[x]
      BY <1>2, <1>5, <2>3 DEF Capitalised
    <3> QED
      BY <2>1, <3>1, Shown
  <2> QED
    BY <2>2, <2>3
<1> QED
  BY <1>5, <1>6, ShownNext DEF Capitalised

\* A step that stores no line, reverses nothing and reports nothing keeps the book exact.
LEMMA LedgerStillFollowed ==
  ASSUME IndexInv, lines' = lines, draw_reversed' = draw_reversed, book' = book
  PROVE  IndexInv'
BY DEF IndexInv, FollowersExact, IndexerExact, AmountsAddUp, Unreversed

\* A draw is followed, with the interest it capitalises on other lines under a global cap.
LEMMA DrawFollowed ==
  ASSUME IInv, IndexInv, NEW b \in Borrowers, NEW amount \in Amounts, DrawCredit(b, amount),
         Publish(DrawEvents(b, amount))
  PROVE  IndexInv'
<1> DEFINE l     == Accrued(b)
           u     == l.utilized_amount + amount
           drawn == [l EXCEPT !.utilized_amount = u]
           t     == IF cfg.max_exposure > 0 THEN {x \in Borrowers \ {b} : Exists(x)} ELSE {}
           A     == AccrualEvents(b)
           B     == AccrualEventsOf(t)
           e     == DebtEvent("drawn", b, amount, u)
           f     == BorrowLifecycleEvent(b, drawn)
           mid   == FE!Folded(book, A)
           all   == FE!Folded(mid, B)
           mad   == Follow(all, e)
<1>1. TypeOK /\ l \in Line /\ amount \in Int /\ l.utilized_amount \in Int /\ u \in Int
  BY InputsAssumption, AccruedStart DEF IInv
<1>2. /\ lines' = [(IF cfg.max_exposure > 0 THEN AccrueAllExcept(b) ELSE lines) EXCEPT ![b] = drawn]
      /\ draw_reversed' = draw_reversed
  BY DEF DrawCredit, PersistDebts
<1>3. /\ t \in SUBSET Borrowers /\ b \notin t
      /\ lines'[b] = drawn
      /\ \A x \in t : lines'[x] = Accrued(x)
      /\ \A x \in Borrowers \ (t \cup {b}) : lines'[x] = lines[x]
  BY <1>1, <1>2 DEF AccrueAllExcept, TypeOK, LedgerTypeOK
<1> HIDE DEF l
<1>4. drawn \in Line /\ drawn.utilized_amount = u
  BY <1>1 DEF Line
<1>5. DrawEvents(b, amount) = (A \o B) \o <<e, f>>
  BY <1>4 DEF DrawEvents, DrawnEvent, l
<1> HIDE DEF t, u, drawn, e, f
<1>6. IsSequence(A) /\ Capitalised(book, mid, {b})
  <2>1. Ready(book, {b})
    BY Shown DEF Ready
  <2> QED
    BY <1>1, <2>1, AccrualFollowed
<1>7. IsSequence(B) /\ Capitalised(mid, all, t)
  <2> HIDE DEF mid
  <2>1. Ready(mid, t)
    BY <1>3, <1>6, Shown DEF Ready, Capitalised
  <2> QED
    BY <1>1, <1>3, <2>1, AccrualsFollowed
<1>8. book' = Follow(mad, f)
  <2> HIDE DEF A, B
  <2>1. IsSequence(A \o B) /\ IsSequence(<<e, f>>)
    BY <1>6, <1>7, ReadInOrder, Tuples
  <2>2. book' = FE!Folded(book, (A \o B) \o <<e, f>>)
    BY <1>5, PublishFolds
  <2>3. book' = FE!Folded(all, <<e, f>>)
    BY <1>6, <1>7, <2>1, <2>2, ReadInOrder
  <2> QED
    BY <2>3, FE!FoldTwo
<1> HIDE DEF mid, all
<1>9. /\ all \in Books /\ all[b] = mid[b]
      /\ \A x \in Borrowers \ (t \cup {b}) : all[x] = book[x]
  BY <1>3, <1>6, <1>7 DEF Capitalised
<1>10. Shows(mid[b], l) /\ (Unreversed(b) => mid[b].sum = l.utilized_amount)
  BY <1>1, <1>6, AccountsCarried DEF l
<1>11. Touches(all, mad, b) /\ mad[b].sum = all[b].sum + amount
  <2>1. "drawn" \in DebtTopics
    BY DEF DebtTopics
  <2> QED
    BY <1>1, <1>9, <2>1, FollowDebt DEF e
<1> HIDE DEF mad
<1>12. Touches(mad, book', b) /\ Shows(book'[b], drawn) /\ book'[b].sum = mad[b].sum
  BY <1>4, <1>8, <1>11, FollowLifecycle DEF f, Touches
<1>13. book' \in Books /\ \A x \in Borrowers \ {b} : book'[x] = all[x]
  BY <1>11, <1>12 DEF Touches
<1>14. ASSUME NEW x \in Borrowers
       PROVE  /\ Shows(book'[x], lines'[x])
              /\ Unreversed(x)' => book'[x].sum = lines'[x].utilized_amount
  <2>1. Unreversed(x)' => Unreversed(x)
    BY <1>2 DEF Unreversed
  <2>2. CASE x = b
    <3>1. Unreversed(b)' => book'[b].sum = u
      BY <1>9, <1>10, <1>11, <1>12, <2>1, <2>2 DEF u
    <3> QED
      BY <1>3, <1>4, <1>12, <2>2, <3>1
  <2>3. CASE x \in t
    <3>1. /\ book'[x] = all[x] /\ lines'[x] = Accrued(x) /\ mid[x] = book[x]
          /\ Shows(all[x], Accrued(x)) /\ all[x].sum - all[x].debt = book[x].sum - book[x].debt
      BY <1>3, <1>6, <1>7, <1>13, <2>3 DEF Capitalised
    <3>2. book[x] \in Entry /\ all[x] \in Entry /\ Shows(book[x], lines[x])
          /\ (Unreversed(x) => book[x].sum = lines[x].utilized_amount)
      BY <1>9, Shown DEF Books
    <3>3. /\ book[x].sum \in Int /\ book[x].debt \in Int /\ all[x].sum \in Int /\ all[x].debt \in Int
          /\ all[x].debt = Accrued(x).utilized_amount /\ book[x].debt = lines[x].utilized_amount
      BY <3>1, <3>2 DEF Entry, Shows
    <3>4. Unreversed(x) => all[x].sum = all[x].debt
      BY <3>1, <3>2, <3>3
    <3> QED
      BY <2>1, <3>1, <3>3, <3>4
  <2>4. CASE x # b /\ x \notin t
    <3>1. book'[x] = book[x] /\ lines'[x] = lines[x]
      BY <1>3, <1>9, <1>13, <2>4
    <3> QED
      BY <2>1, <3>1, Shown
  <2> QED
    BY <2>2, <2>3, <2>4
<1> QED
  BY <1>13, <1>14, ShownNext

\* Every step is followed.
LEMMA NextIndex == IInv /\ IndexInv /\ [EventNext]_eventVars => IndexInv'
<1> SUFFICES ASSUME IInv, IndexInv, [EventNext]_eventVars PROVE IndexInv'
  OBVIOUS
<1>1. ASSUME NEW b \in Borrowers, DebtEventStep(b) PROVE IndexInv'
  BY <1>1, DrawFollowed, RepayFollowed, ForgiveFollowed, ReverseFollowed, SettlementFollowed
     DEF DebtEventStep
<1>2. ASSUME NEW b \in Borrowers, StatusEventStep(b) PROVE IndexInv'
  <2>1. ASSUME NEW topic \in StatusTopics, Publish(StatusEvents(topic, b)),
               \/ SuspendCreditLine(b) \/ SelfSuspendCreditLine(b)
               \/ UnsuspendCreditLine(b) \/ SelfUnsuspendCreditLine(b)
               \/ \E target \in {"Active", "Restricted"} : ReinstateCreditLine(b, target)
        PROVE  IndexInv'
    <3>1. \/ \E target \in Suspensions : Suspend(b, target)
          \/ \E sources \in SUBSET Suspensions : Lift(b, sources)
          \/ \E target \in {"Active", "Restricted"} : ReinstateCreditLine(b, target)
      <4>1. /\ "Suspended" \in Suspensions /\ "SelfSuspended" \in Suspensions
            /\ Suspensions \in SUBSET Suspensions /\ {"SelfSuspended"} \in SUBSET Suspensions
        BY DEF Suspensions
      <4> QED
        BY <2>1, <4>1 DEF SuspendCreditLine, SelfSuspendCreditLine, UnsuspendCreditLine,
           SelfUnsuspendCreditLine
    <3> QED
      BY <2>1, <3>1, StatusCallsFollowed
  <2>2. {"suspend", "self_sus", "unsuspend", "self_uns", "reinstate"} \subseteq StatusTopics
    BY DEF StatusTopics
  <2>3. ASSUME NEW s \in Schedules, SetRepaymentSchedule(b, s), UNCHANGED book PROVE IndexInv'
    BY <2>3, LedgerStillFollowed DEF SetRepaymentSchedule, ledger, drawLog
  <2> QED
    BY <1>2, <2>1, <2>2, <2>3, OpenFollowed, TermsFollowed, CloseFollowed, DefaultFollowed
       DEF StatusEventStep
<1>3. ASSUME NEW batch \in SUBSET Borrowers, AccrueBatchEvents(batch) PROVE IndexInv'
  BY <1>3, BatchFollowed
<1>4. CASE (Tick \/ ConfigStep) /\ UNCHANGED book
  <2>1. lines' = lines /\ draw_reversed' = draw_reversed /\ book' = book
    BY <1>4 DEF Tick, ConfigStep, SetGracePeriodConfig, SetPenaltySurcharge, SetLateFeeFlat,
       SetLateFeeConfig, SetMaxTotalExposure, SetCloseFactor, SetRateChangeLimits, SetDrawMinInterval,
       SetMaxDrawAmount, SetMaxRepayAmount, SetProtocolPaused, Configure, ledger, drawLog
  <2> QED
    BY <2>1, LedgerStillFollowed
<1>5. CASE UNCHANGED eventVars
  BY <1>5, LedgerStillFollowed DEF eventVars, vars, ledger, drawLog
<1> QED
  BY <1>1, <1>2, <1>3, <1>4, <1>5 DEF EventNext

\* The ledger with its events is the ledger.
THEOREM EventsImplementLedger == EventSpec => Spec
<1>1. EventInit => Init
  BY DEF EventInit
<1>2. [EventNext]_eventVars => [Next]_vars
  <2>1. ASSUME NEW b \in Borrowers, DebtEventStep(b) PROVE DebtStep(b)
    BY <2>1 DEF DebtEventStep, DebtStep
  <2>2. ASSUME NEW b \in Borrowers, StatusEventStep(b) PROVE LifecycleStep(b)
    BY <2>2 DEF StatusEventStep, LifecycleStep
  <2>3. ASSUME NEW batch, AccrueBatchEvents(batch) PROVE AccrueBatch(batch)
    BY <2>3 DEF AccrueBatchEvents
  <2>4. UNCHANGED eventVars => UNCHANGED vars
    BY DEF eventVars
  <2>5. EventNext => Next
    BY <2>1, <2>2, <2>3 DEF EventNext, Next
  <2> QED
    BY <2>4, <2>5
<1> QED
  BY <1>1, <1>2, PTL DEF EventSpec, Spec

\* An indexer that has nothing but the events holds every line's status, terms and debt exactly,
\* and, where no draw was reversed, the amounts it was told add up to the debt.
THEOREM IndexerFollows == EventSpec => []FollowersExact
<1>1. EventInit => IndexInv
  <2> SUFFICES ASSUME EventInit PROVE IndexInv
    OBVIOUS
  <2> DEFINE none == [status |-> "None", limit |-> 0, rate |-> 0, debt |-> 0, sum |-> 0, penalty |-> FALSE]
  <2>1. none \in Entry /\ Shows(none, NoLine) /\ none.sum = NoLine.utilized_amount
    BY DEF Entry, Shows, NoLine
  <2> HIDE DEF none
  <2>2. book = [b \in Borrowers |-> none] /\ lines = [b \in Borrowers |-> NoLine]
    BY DEF EventInit, Init, none
  <2>3. book \in Books /\ \A x \in Borrowers : book[x] = none /\ lines[x] = NoLine
    BY <2>1, <2>2 DEF Books
  <2> QED
    BY <2>1, <2>3, Shown
<1>2. EventSpec => []IInv
  BY EventsImplementLedger, Invariance, PTL
<1>3. IndexInv => FollowersExact
  BY DEF IndexInv
<1> QED
  BY <1>1, <1>2, <1>3, NextIndex, PTL DEF EventSpec
=============================================================================
