-------------------------- MODULE CreditVaultProofs -------------------------
(***************************************************************************)
(* Theorems about CreditVault, for any accounts, amounts, fees and ledger: *)
(* the vault implements the ledger it extends, the contract's tokens are   *)
(* exactly the collateral and fees it has booked, a proposed withdrawal    *)
(* stays covered and waits out its timelock, and a borrower pays what is   *)
(* booked.                                                                 *)
(***************************************************************************)
EXTENDS CreditVault, CreditLinesProofs

-----------------------------------------------------------------------------
(* Arithmetic *)

\* A share of a natural number is a natural number.
LEMMA ApplyBpsType ==
  ASSUME NEW a \in Nat, NEW s \in 0..BPS
  PROVE  ApplyBps(a, s) \in Nat
<1> DEFINE n == a * s
<1>1. BPS \in Nat \ {0} /\ s \in Nat
  BY ScaleAssumption
<1>2. n \in Nat
  BY <1>1
<1>3. n \div BPS \in Nat
  <2> HIDE DEF n
  <2> QED
    BY <1>1, <1>2
<1> QED
  BY <1>3 DEF ApplyBps

\* split_protocol_fee gives out every unit of the fee and nothing else.
LEMMA SplitProtocolFeeExact ==
  ASSUME NEW fee \in Nat, NEW share \in 0..BPS
  PROVE  LET split == SplitProtocolFee(fee, share)
         IN  /\ split.treasury \in Nat /\ split.bounty \in Nat
             /\ split.treasury + split.bounty = fee
<1> DEFINE t    == fee * share
           b    == fee * (BPS - share)
           qt   == t \div BPS
           qb   == b \div BPS
           left == fee - qt - qb
           toT  == IF t % BPS >= b % BPS THEN left ELSE 0
<1>1. BPS \in Nat \ {0} /\ share \in Nat /\ BPS - share \in Nat
  BY ScaleAssumption
<1>2. t \in Nat /\ b \in Nat
  BY <1>1
<1>3. t + b = fee * BPS
  <2>1. fee * share + fee * (BPS - share) = fee * (share + (BPS - share))
    BY <1>1
  <2>2. share + (BPS - share) = BPS
    BY <1>1
  <2> QED
    BY <2>1, <2>2
<1>4. qt \in Nat /\ qb \in Nat /\ BPS * qt <= t /\ BPS * qb <= b
  <2> HIDE DEF t, b
  <2> QED
    BY <1>1, <1>2
<1>5. qt + qb <= fee
  <2>1. BPS * (qt + qb) <= BPS * fee
    <3> HIDE DEF t, b, qt, qb
    <3>1. BPS * (qt + qb) = BPS * qt + BPS * qb
      BY <1>1, <1>4
    <3>2. BPS * fee = fee * BPS
      BY <1>1
    <3>3. BPS * qt \in Int /\ BPS * qb \in Int
      BY <1>1, <1>4
    <3> QED
      BY <1>2, <1>3, <1>4, <3>1, <3>2, <3>3
  <2> HIDE DEF t, b, qt, qb
  <2> QED
    BY <1>1, <1>4, <2>1
<1>6. left \in Nat
  <2> HIDE DEF qt, qb
  <2> QED
    BY <1>4, <1>5
<1>7. toT \in Nat /\ left - toT \in Nat
  <2> HIDE DEF left, t, b
  <2> QED
    BY <1>6
<1>8. SplitProtocolFee(fee, share) = [treasury |-> qt + toT, bounty |-> qb + (left - toT)]
  BY DEF SplitProtocolFee
<1>9. qt + toT + (qb + (left - toT)) = fee
  <2>1. left = fee - qt - qb
    OBVIOUS
  <2> HIDE DEF qt, qb, left, toT
  <2> QED
    BY <1>4, <1>6, <1>7, <2>1
<1> HIDE DEF qt, qb, left, toT
<1> QED
  BY <1>4, <1>7, <1>8, <1>9

\* The late fee of a repayment is a natural number, and nothing without principal.
LEMMA LateFeeType ==
  ASSUME TypeOK, NEW b \in Borrowers, NEW principal \in Nat
  PROVE  LateFee(b, principal) \in Nat /\ (principal = 0 => LateFee(b, principal) = 0)
<1> DEFINE s == schedules[b]
           n == principal \div s.amount
           o == OverdueInstallments(now, s.due, s.period, n)
<1>1. InstallmentFee \in Nat
  BY DEF InstallmentFee, TypeOK, ContextTypeOK, Config
<1>2. CASE HasSchedule(b) /\ principal >= s.amount
  <2>1. s \in Schedule
    BY <1>2 DEF HasSchedule, TypeOK, ContextTypeOK
  <2>2. s.amount \in Nat \ {0} /\ s.period \in Nat \ {0} /\ s.due \in Nat
    BY <2>1 DEF Schedule
  <2>3. n \in Nat
    BY <2>2
  <2>4. o \in Nat
    <3>1. now > s.due => (now - s.due - 1) \div s.period \in Nat
      BY <2>2, TimeTypes
    <3> HIDE DEF n
    <3> QED
      BY <2>2, <2>3, <3>1, TimeTypes DEF OverdueInstallments, MinOf
  <2>5. LateFee(b, principal) = InstallmentFee * o
    BY <1>2 DEF LateFee
  <2>6. principal # 0
    BY <1>2, <2>2
  <2> HIDE DEF o
  <2> QED
    BY <1>1, <2>4, <2>5, <2>6
<1>3. CASE ~(HasSchedule(b) /\ principal >= s.amount)
  BY <1>3 DEF LateFee
<1> QED
  BY <1>2, <1>3
-----------------------------------------------------------------------------
(* The vault implements the ledger *)

\* Every step of the vault is a step of the ledger or leaves the ledger alone.
LEMMA VaultStepIsLedgerStep == [VaultNext]_allVars => [Next]_vars
<1> SUFFICES ASSUME [VaultNext]_allVars PROVE [Next]_vars
  OBVIOUS
<1>1. CASE UNCHANGED allVars
  BY <1>1 DEF allVars
<1>2. ASSUME NEW b \in Borrowers, MoneyStep(b) PROVE [Next]_vars
  <2>1. CASE \E a \in Amounts : Draw(b, a) \/ Repay(b, a)
    BY <2>1 DEF Draw, Repay, Next, DebtStep
  <2>2. CASE \E a \in Deposits : DepositCollateral(b, a) \/ WithdrawCollateral(b, a)
                                   \/ PartialReleaseCollateral(b, a)
    BY <2>2 DEF DepositCollateral, WithdrawCollateral, PartialReleaseCollateral
  <2> QED
    BY <1>2, <2>1, <2>2 DEF MoneyStep
<1>3. CASE VaultStep
  BY <1>3 DEF VaultStep, VaultSettings, ProposeTreasuryWithdrawal, ExecuteTreasuryWithdrawal, WithdrawBounty,
     SetLiquiditySource, SetTreasury, SetBounty, SetMinCollateralRatio,
     SetCollateralRiskWeight, SetProtocolFee, SetTreasuryFeeShare, ConfigureVault
<1>4. CASE LedgerStep
  BY <1>4 DEF LedgerStep, Next, DebtStep
<1> QED
  BY <1>1, <1>2, <1>3, <1>4 DEF VaultNext

\* The vault implements the ledger: whatever is done with the money, the lines behave as
\* CreditLines says, so every theorem about the ledger holds of the contract with its
\* token transfers, collateral checks and fees.
THEOREM ImplementsLedger == VaultSpec => Spec
<1>1. VaultInit => Init
  BY DEF VaultInit
<1> QED
  BY <1>1, VaultStepIsLedgerStep, PTL DEF VaultSpec, Spec
-----------------------------------------------------------------------------
(* The inductive invariant *)

\* A proposal that waits names a treasury.
RecipientSound == pending # NoProposal => pending.recipient \in Treasuries

VaultIInv == VaultTypeOK /\ CustodyExact /\ PendingWithdrawalCovered /\ RecipientSound

\* Borrowers, the contract, sources, treasuries and bounties as accounts, and which of them
\* are different.
LEMMA AccountFacts ==
  /\ Self \in Accounts /\ Borrowers \subseteq Accounts /\ Sources \subseteq Accounts
  /\ Treasuries \subseteq Accounts /\ Bounties \subseteq Accounts
  /\ NoAccount \notin Accounts
  /\ \A b \in Borrowers : b # Self /\ b \notin Sources /\ b \notin Treasuries /\ b \notin Bounties
  /\ Self \notin Treasuries /\ Self \notin Bounties
  BY AccountsAssumption DEF Accounts

\* A transfer between two accounts moves the amount and nothing else.
LEMMA MovedFacts ==
  ASSUME NEW bal \in [Accounts -> Int], NEW from \in Accounts, NEW to \in Accounts, from # to,
         NEW amount \in Nat
  PROVE  LET new == Moved(bal, from, to, amount)
         IN  /\ new \in [Accounts -> Int]
             /\ new[from] = bal[from] - amount /\ new[to] = bal[to] + amount
             /\ \A x \in Accounts \ {from, to} : new[x] = bal[x]
  BY DEF Moved

\* The same for a covered transfer, which overdraws nobody.
LEMMA CoveredTransfer ==
  ASSUME NEW bal \in [Accounts -> Nat], NEW from \in Accounts, NEW to \in Accounts, from # to,
         NEW amount \in Nat, bal[from] >= amount
  PROVE  Moved(bal, from, to, amount) \in [Accounts -> Nat]
  BY DEF Moved

\* What a repayment pays to whom: its fee, its late fee and the rest are natural numbers.
LEMMA PaymentFacts ==
  ASSUME TypeOK, VaultTypeOK, NEW b \in Borrowers, NEW amount \in Nat
  PROVE  LET pay  == Payment(b, amount)
             fee  == MinOf(ApplyBps(pay.interest, vault.fee), pay.effective)
             late == LateFee(b, pay.principal)
         IN  /\ pay.effective \in Nat /\ pay.interest \in Nat /\ pay.principal \in Nat
             /\ fee \in Nat /\ fee <= pay.effective
             /\ late \in Nat /\ (pay.effective = 0 => late = 0)
             /\ Accrued(b).utilized_amount \in Int
             /\ Accrued(b).utilized_amount >= 0 => pay.effective <= Accrued(b).utilized_amount
             /\ Accrued(b).utilized_amount < 0 => pay.effective = 0
<1> DEFINE pay == Payment(b, amount)
<1>1. Accrued(b).utilized_amount \in Int /\ Accrued(b).accrued_interest \in Int
  BY AccruedFacts, LineTypes
<1>2. /\ pay.effective \in Nat /\ pay.interest \in Nat /\ pay.principal \in Nat
      /\ pay.effective = pay.interest + pay.principal
      /\ Accrued(b).utilized_amount >= 0 => pay.effective <= Accrued(b).utilized_amount
      /\ Accrued(b).utilized_amount < 0 => pay.effective = 0
  <2>1. Accrued(b).utilized_amount < 0 => pay.effective = 0
    BY <1>1 DEF Payment, AllocateRepayment, MinOf, MaxOf
  <2> DEFINE u == Accrued(b).utilized_amount
             i == Accrued(b).accrued_interest
  <2>2. pay = AllocateRepayment(u, i, amount)
    BY DEF Payment
  <2>3. u \in Int /\ i \in Int
    BY <1>1
  <2> HIDE DEF u, i, pay
  <2>4. /\ pay.effective \in Nat /\ pay.interest \in Nat /\ pay.principal \in Nat
        /\ pay.effective = pay.interest + pay.principal
        /\ u >= 0 => pay.effective <= u
    BY <2>2, <2>3, AllocateRepaymentSplit
  <2> QED
    BY <2>1, <2>4 DEF u
<1> HIDE DEF pay
<1>3. vault.fee \in 0..BPS
  BY VaultAssumption, ScaleAssumption DEF VaultTypeOK, VaultConfig
<1>4. ApplyBps(pay.interest, vault.fee) \in Nat
  BY <1>2, <1>3, ApplyBpsType
<1>5. /\ MinOf(ApplyBps(pay.interest, vault.fee), pay.effective) \in Nat
      /\ MinOf(ApplyBps(pay.interest, vault.fee), pay.effective) <= pay.effective
  BY <1>2, <1>4 DEF MinOf
<1>6. LateFee(b, pay.principal) \in Nat /\ (pay.effective = 0 => LateFee(b, pay.principal) = 0)
  BY <1>2, LateFeeType
<1> QED
  BY <1>1, <1>2, <1>5, <1>6 DEF pay

\* A repayment's two transfers: the borrower pays the debt and the late fee, the contract
\* gets the fees unless it is also the source, and nobody is overdrawn.
LEMMA RepayMoney ==
  ASSUME TypeOK, VaultTypeOK, NEW b \in Borrowers, NEW amount \in Nat, Repay(b, amount)
  PROVE  LET pay  == Payment(b, amount)
             fee  == MinOf(ApplyBps(pay.interest, vault.fee), pay.effective)
             late == LateFee(b, pay.principal)
         IN  /\ balance' \in [Accounts -> Nat]
             /\ balance'[b] = balance[b] - pay.effective - late
             /\ \A x \in Borrowers \ {b} : balance'[x] = balance[x]
             /\ vault.source # Self => balance'[Self] = balance[Self] + fee + late
             /\ treasury_balance' \in Nat /\ bounty_balance' \in Nat
             /\ treasury_balance' >= treasury_balance /\ bounty_balance' >= bounty_balance
             /\ treasury_balance' + bounty_balance'
                  = treasury_balance + bounty_balance + fee + late
<1> DEFINE pay  == Payment(b, amount)
           eff  == pay.effective
           fee  == MinOf(ApplyBps(pay.interest, vault.fee), pay.effective)
           late == LateFee(b, pay.principal)
           m    == Moved(balance, b, Self, fee + late)
<1>1. eff \in Nat /\ fee \in Nat /\ fee <= eff /\ late \in Nat
  BY PaymentFacts
<1>2. /\ balance[b] >= eff + late
      /\ balance' = Moved(m, b, vault.source, eff - fee)
      /\ AccrueFees(fee, late)
  BY DEF Repay
<1> HIDE DEF eff, fee, late
<1>3. /\ balance \in [Accounts -> Nat] /\ balance \in [Accounts -> Int]
      /\ treasury_balance \in Nat /\ bounty_balance \in Nat
      /\ vault.source \in Sources /\ vault.share \in 0..BPS
  BY DEF VaultTypeOK, VaultConfig
<1>4. /\ b \in Accounts /\ Self \in Accounts /\ vault.source \in Accounts
      /\ b # Self /\ b # vault.source
  BY <1>3, AccountFacts
<1>5. fee + late \in Nat /\ eff - fee \in Nat
  BY <1>1
<1>6. /\ m \in [Accounts -> Int] /\ m \in [Accounts -> Nat]
      /\ m[b] = balance[b] - (fee + late) /\ m[Self] = balance[Self] + (fee + late)
      /\ \A x \in Accounts \ {b, Self} : m[x] = balance[x]
  <2>1. balance[b] \in Nat /\ balance[b] >= fee + late
    BY <1>1, <1>2, <1>3, <1>4
  <2> QED
    BY <1>3, <1>4, <1>5, <2>1, MovedFacts, CoveredTransfer
<1> HIDE DEF m
<1>7. /\ balance' \in [Accounts -> Nat]
      /\ balance'[b] = m[b] - (eff - fee)
      /\ \A x \in Accounts \ {b, vault.source} : balance'[x] = m[x]
  <2> DEFINE rest == eff - fee
  <2>1. m[b] >= rest
    BY <1>1, <1>2, <1>3, <1>4, <1>6
  <2>2. rest \in Nat /\ balance' = Moved(m, b, vault.source, rest)
    BY <1>2, <1>5
  <2> HIDE DEF rest
  <2>3. Moved(m, b, vault.source, rest) \in [Accounts -> Nat]
    BY <1>4, <1>6, <2>1, <2>2, CoveredTransfer
  <2>4. /\ Moved(m, b, vault.source, rest)[b] = m[b] - rest
        /\ \A x \in Accounts \ {b, vault.source} : Moved(m, b, vault.source, rest)[x] = m[x]
    BY <1>4, <1>6, <2>2, MovedFacts
  <2> QED
    BY <2>2, <2>3, <2>4 DEF rest
<1>8. balance'[b] = balance[b] - eff - late
  BY <1>1, <1>3, <1>4, <1>6, <1>7
<1>9. \A x \in Borrowers \ {b} : balance'[x] = balance[x]
  BY <1>3, <1>6, <1>7, AccountFacts
<1>10. vault.source # Self => balance'[Self] = balance[Self] + fee + late
  BY <1>1, <1>3, <1>4, <1>6, <1>7
<1>11. /\ treasury_balance' \in Nat /\ bounty_balance' \in Nat
       /\ treasury_balance' >= treasury_balance /\ bounty_balance' >= bounty_balance
       /\ treasury_balance' + bounty_balance' = treasury_balance + bounty_balance + fee + late
  <2> DEFINE f == SplitProtocolFee(fee, vault.share)
             g == SplitProtocolFee(late, vault.share)
  <2>1. /\ f.treasury \in Nat /\ f.bounty \in Nat /\ f.treasury + f.bounty = fee
        /\ g.treasury \in Nat /\ g.bounty \in Nat /\ g.treasury + g.bounty = late
    BY <1>1, <1>3, SplitProtocolFeeExact
  <2>2. /\ treasury_balance' = treasury_balance + f.treasury + g.treasury
        /\ bounty_balance' = bounty_balance + f.bounty + g.bounty
    BY <1>2 DEF AccrueFees
  <2> HIDE DEF f, g
  <2> QED
    BY <1>1, <1>3, <2>1, <2>2
<1> QED
  BY <1>7, <1>8, <1>9, <1>10, <1>11 DEF pay, eff, fee, late

\* Draws and repayments keep the invariant.
LEMMA DebtMoneyKeepsVaultIInv ==
  ASSUME TypeOK, VaultIInv, NEW b \in Borrowers, NEW a \in Amounts, Draw(b, a) \/ Repay(b, a)
  PROVE  VaultIInv'
<1>1. a \in Nat
  BY InputsAssumption
<1>2. UNCHANGED <<collateral, total_collateral, pending, vault>>
  BY DEF Draw, Repay
<1>3. RecipientSound'
  BY <1>2 DEF VaultIInv, RecipientSound, NoProposal
<1>4. CASE Draw(b, a)
  <2>1. /\ balance[vault.source] >= a /\ balance' = Moved(balance, vault.source, b, a)
        /\ UNCHANGED <<treasury_balance, bounty_balance>>
    BY <1>4 DEF Draw
  <2>2. balance \in [Accounts -> Nat] /\ balance \in [Accounts -> Int] /\ vault.source \in Sources
    BY DEF VaultIInv, VaultTypeOK, VaultConfig
  <2>3. /\ b \in Accounts /\ vault.source \in Accounts /\ vault.source # b
        /\ Self \in Accounts /\ b # Self
    BY <2>2, AccountFacts
  <2>4. balance' \in [Accounts -> Nat]
    BY <1>1, <2>1, <2>2, <2>3, CoveredTransfer
  <2>5. vault.source # Self => balance'[Self] = balance[Self]
    BY <1>1, <2>1, <2>2, <2>3, MovedFacts
  <2>6. VaultTypeOK'
    BY <1>2, <2>1, <2>4 DEF VaultIInv, VaultTypeOK
  <2>7. CustodyExact'
    BY <1>2, <2>1, <2>2, <2>5 DEF VaultIInv, CustodyExact
  <2>8. PendingWithdrawalCovered'
    BY <1>2, <2>1 DEF VaultIInv, PendingWithdrawalCovered
  <2> QED
    BY <1>3, <2>6, <2>7, <2>8 DEF VaultIInv
<1>5. CASE Repay(b, a)
  <2> DEFINE fee  == MinOf(ApplyBps(Payment(b, a).interest, vault.fee), Payment(b, a).effective)
             late == LateFee(b, Payment(b, a).principal)
  <2>1. VaultTypeOK
    BY DEF VaultIInv
  <2>2. /\ fee \in Nat /\ late \in Nat
        /\ balance' \in [Accounts -> Nat]
        /\ vault.source # Self => balance'[Self] = balance[Self] + fee + late
        /\ treasury_balance' \in Nat /\ bounty_balance' \in Nat
        /\ treasury_balance' >= treasury_balance
        /\ treasury_balance' + bounty_balance' = treasury_balance + bounty_balance + fee + late
    BY <1>1, <1>5, <2>1, PaymentFacts, RepayMoney
  <2> HIDE DEF fee, late
  <2>3. VaultTypeOK'
    BY <1>2, <2>2 DEF VaultIInv, VaultTypeOK
  <2>4. CustodyExact'
    <3>1. /\ vault.source \in Sources /\ balance[Self] \in Nat /\ total_collateral \in Int
          /\ treasury_balance \in Nat /\ bounty_balance \in Nat
      BY <2>1, AccountFacts DEF VaultTypeOK, VaultConfig
    <3> SUFFICES ASSUME Self \notin Sources
                 PROVE  (balance[Self] = total_collateral + treasury_balance + bounty_balance)'
      BY DEF CustodyExact
    <3>2. balance[Self] = total_collateral + treasury_balance + bounty_balance
      BY DEF VaultIInv, CustodyExact
    <3> DEFINE self == balance'[Self]
               tre  == treasury_balance'
               bou  == bounty_balance'
    <3>3. vault.source # Self
      BY <3>1
    <3>4. /\ self = balance[Self] + fee + late
          /\ tre \in Nat /\ bou \in Nat
          /\ tre + bou = treasury_balance + bounty_balance + fee + late
      BY <2>2, <3>3
    <3>5. total_collateral' = total_collateral
      BY <1>2
    <3> HIDE DEF self, tre, bou
    <3>6. self = total_collateral + tre + bou
      BY <2>2, <3>1, <3>2, <3>4
    <3> QED
      BY <3>5, <3>6 DEF self, tre, bou
  <2>5. PendingWithdrawalCovered'
    <3>1. pending.amount \in Nat /\ treasury_balance \in Nat
      BY <2>1 DEF VaultTypeOK, Proposal
    <3> QED
      BY <1>2, <2>2, <3>1 DEF VaultIInv, PendingWithdrawalCovered
  <2> QED
    BY <1>3, <2>3, <2>4, <2>5 DEF VaultIInv
<1> QED
  BY <1>4, <1>5

\* Deposits and withdrawals of collateral keep the invariant.
LEMMA CollateralKeepsVaultIInv ==
  ASSUME VaultIInv, NEW b \in Borrowers, NEW a \in Deposits,
         DepositCollateral(b, a) \/ WithdrawCollateral(b, a)
  PROVE  VaultIInv'
<1>1. a \in Nat
  BY VaultAssumption
<1>2. UNCHANGED <<treasury_balance, bounty_balance, pending, vault>>
  BY DEF DepositCollateral, WithdrawCollateral
<1>3. RecipientSound' /\ PendingWithdrawalCovered'
  BY <1>2 DEF VaultIInv, RecipientSound, PendingWithdrawalCovered, NoProposal
<1>4. /\ balance \in [Accounts -> Nat] /\ balance \in [Accounts -> Int]
      /\ collateral \in [Borrowers -> Nat] /\ total_collateral \in Int
      /\ treasury_balance \in Nat /\ bounty_balance \in Nat
      /\ b \in Accounts /\ Self \in Accounts /\ b # Self
  BY AccountFacts DEF VaultIInv, VaultTypeOK
<1>5. CASE DepositCollateral(b, a)
  <2>1. /\ balance[b] >= a /\ balance' = Moved(balance, b, Self, a)
        /\ collateral' = [collateral EXCEPT ![b] = collateral[b] + a]
        /\ total_collateral' = total_collateral + (collateral[b] + a) - collateral[b]
    BY <1>5 DEF DepositCollateral, SetCollateral
  <2>2. balance' \in [Accounts -> Nat] /\ balance'[Self] = balance[Self] + a
    BY <1>1, <1>4, <2>1, CoveredTransfer, MovedFacts
  <2>3. collateral' \in [Borrowers -> Nat] /\ total_collateral' = total_collateral + a
    BY <1>1, <1>4, <2>1
  <2>4. VaultTypeOK'
    BY <1>1, <1>2, <1>4, <2>2, <2>3 DEF VaultIInv, VaultTypeOK
  <2>5. CustodyExact'
    BY <1>1, <1>2, <1>4, <2>2, <2>3 DEF VaultIInv, CustodyExact
  <2> QED
    BY <1>3, <2>4, <2>5 DEF VaultIInv
<1>6. CASE WithdrawCollateral(b, a)
  <2>1. /\ balance[Self] >= a /\ balance' = Moved(balance, Self, b, a)
        /\ a <= collateral[b]
        /\ collateral' = [collateral EXCEPT ![b] = collateral[b] - a]
        /\ total_collateral' = total_collateral + (collateral[b] - a) - collateral[b]
    BY <1>6 DEF WithdrawCollateral, SetCollateral
  <2>2. balance' \in [Accounts -> Nat] /\ balance'[Self] = balance[Self] - a
    BY <1>1, <1>4, <2>1, CoveredTransfer, MovedFacts
  <2>3. collateral' \in [Borrowers -> Nat] /\ total_collateral' = total_collateral - a
    BY <1>1, <1>4, <2>1
  <2>4. VaultTypeOK'
    BY <1>1, <1>2, <1>4, <2>2, <2>3 DEF VaultIInv, VaultTypeOK
  <2>5. CustodyExact'
    BY <1>1, <1>2, <1>4, <2>2, <2>3 DEF VaultIInv, CustodyExact
  <2> QED
    BY <1>3, <2>4, <2>5 DEF VaultIInv
<1> QED
  BY <1>5, <1>6

\* Configuration calls keep the invariant: they leave the money and the proposal alone.
LEMMA ConfigureVaultKeepsVaultIInv ==
  ASSUME VaultIInv, NEW new \in VaultConfig, ConfigureVault(new)
  PROVE  VaultIInv'
<1>1. vault' = new /\ UNCHANGED <<money, pending>>
  BY DEF ConfigureVault
<1>2. VaultTypeOK'
  BY <1>1 DEF VaultIInv, VaultTypeOK, money
<1>3. CustodyExact' /\ PendingWithdrawalCovered' /\ RecipientSound'
  BY <1>1 DEF VaultIInv, CustodyExact, PendingWithdrawalCovered, RecipientSound, NoProposal, money
<1> QED
  BY <1>2, <1>3 DEF VaultIInv

\* Proposals and withdrawals of fees keep the invariant.
LEMMA FeesOutKeepVaultIInv ==
  ASSUME TypeOK, VaultIInv,
         ProposeTreasuryWithdrawal \/ ExecuteTreasuryWithdrawal \/ WithdrawBounty
  PROVE  VaultIInv'
<1>1. /\ balance \in [Accounts -> Nat] /\ balance \in [Accounts -> Int]
      /\ total_collateral \in Int /\ treasury_balance \in Nat /\ bounty_balance \in Nat
      /\ pending \in Proposal /\ pending.amount \in Nat /\ vault \in VaultConfig
      /\ Self \in Accounts /\ balance[Self] \in Nat
  BY AccountFacts DEF VaultIInv, VaultTypeOK, Proposal
<1>2. NoProposal \in Proposal
  BY DEF NoProposal, Proposal
<1>3. CASE ProposeTreasuryWithdrawal
  <2> DEFINE new == [recipient |-> vault.treasury, amount |-> treasury_balance,
                     execute_after |-> After(now, Timelock)]
  <2>1. pending' = new /\ vault.treasury # NoAccount /\ UNCHANGED <<money, vault>>
    BY <1>3 DEF ProposeTreasuryWithdrawal
  <2>2. vault.treasury \in Treasuries /\ After(now, Timelock) \in Nat
    BY <1>1, <2>1, TimeTypes, VaultAssumption DEF VaultConfig, After, MinOf
  <2>3. new \in Proposal /\ new.recipient \in Treasuries /\ new.amount = treasury_balance
    BY <1>1, <2>2 DEF Proposal
  <2> HIDE DEF new
  <2>4. VaultTypeOK'
    BY <2>1, <2>3 DEF VaultIInv, VaultTypeOK, money
  <2>5. CustodyExact' /\ PendingWithdrawalCovered' /\ RecipientSound'
    BY <1>1, <2>1, <2>3 DEF VaultIInv, CustodyExact, PendingWithdrawalCovered, RecipientSound, money
  <2> QED
    BY <2>4, <2>5 DEF VaultIInv
<1>4. CASE ExecuteTreasuryWithdrawal
  <2> DEFINE to == pending.recipient
  <2>1. /\ pending # NoProposal /\ treasury_balance >= pending.amount
        /\ balance[Self] >= pending.amount
        /\ treasury_balance' = treasury_balance - pending.amount
        /\ balance' = Moved(balance, Self, to, pending.amount)
        /\ pending' = NoProposal
        /\ UNCHANGED <<collateral, total_collateral, bounty_balance, vault>>
    BY <1>4 DEF ExecuteTreasuryWithdrawal
  <2>2. to \in Accounts /\ to # Self
    BY <2>1, AccountFacts DEF VaultIInv, RecipientSound
  <2> HIDE DEF to
  <2>3. balance' \in [Accounts -> Nat]
    BY <1>1, <2>1, <2>2, CoveredTransfer
  <2>4. balance'[Self] = balance[Self] - pending.amount
    BY <1>1, <2>1, <2>2, MovedFacts
  <2>5. VaultTypeOK'
    BY <1>1, <1>2, <2>1, <2>3 DEF VaultIInv, VaultTypeOK
  <2>6. CustodyExact'
    BY <1>1, <2>1, <2>4 DEF VaultIInv, CustodyExact
  <2>7. PendingWithdrawalCovered' /\ RecipientSound'
    BY <1>1, <2>1 DEF PendingWithdrawalCovered, RecipientSound, NoProposal
  <2> QED
    BY <2>5, <2>6, <2>7 DEF VaultIInv
<1>5. CASE WithdrawBounty
  <2>1. /\ vault.bounty # NoAccount /\ balance[Self] >= bounty_balance
        /\ balance' = Moved(balance, Self, vault.bounty, bounty_balance)
        /\ bounty_balance' = 0
        /\ UNCHANGED <<collateral, total_collateral, treasury_balance, pending, vault>>
    BY <1>5 DEF WithdrawBounty
  <2>2. vault.bounty \in Accounts /\ vault.bounty # Self
    BY <1>1, <2>1, AccountFacts DEF VaultConfig
  <2>3. balance' \in [Accounts -> Nat]
    BY <1>1, <2>1, <2>2, CoveredTransfer
  <2>4. balance'[Self] = balance[Self] - bounty_balance
    BY <1>1, <2>1, <2>2, MovedFacts
  <2>5. VaultTypeOK'
    BY <1>1, <2>1, <2>3 DEF VaultIInv, VaultTypeOK
  <2>6. CustodyExact'
    BY <1>1, <2>1, <2>4 DEF VaultIInv, CustodyExact
  <2>7. PendingWithdrawalCovered' /\ RecipientSound'
    BY <2>1 DEF VaultIInv, PendingWithdrawalCovered, RecipientSound, NoProposal
  <2> QED
    BY <2>5, <2>6, <2>7 DEF VaultIInv
<1> QED
  BY <1>3, <1>4, <1>5

\* The configuration setters store a valid configuration.
LEMMA SettersKeepVaultIInv ==
  ASSUME VaultIInv,
         \/ \E s \in Sources : SetLiquiditySource(s)
         \/ \E t \in Treasuries : SetTreasury(t)
         \/ \E t \in Bounties : SetBounty(t)
         \/ \E r \in Ratios : SetMinCollateralRatio(r)
         \/ \E w \in Weights : SetCollateralRiskWeight(w)
         \/ \E f \in ProtocolFees : SetProtocolFee(f)
         \/ \E s \in FeeShares : SetTreasuryFeeShare(s)
  PROVE  VaultIInv'
<1>1. \E new \in VaultConfig : ConfigureVault(new)
  <2>1. vault \in VaultConfig
    BY DEF VaultIInv, VaultTypeOK
  <2>2. /\ Ratios \subseteq Nat /\ Weights \subseteq 0..BPS
        /\ ProtocolFees \subseteq 0..MaxProtocolFee /\ FeeShares \subseteq 0..BPS
    BY VaultAssumption
  <2>3. CASE \E s \in Sources : SetLiquiditySource(s)
    BY <2>1, <2>3 DEF SetLiquiditySource, VaultConfig
  <2>4. CASE \E t \in Treasuries : SetTreasury(t)
    BY <2>1, <2>4 DEF SetTreasury, VaultConfig
  <2>5. CASE \E t \in Bounties : SetBounty(t)
    BY <2>1, <2>5 DEF SetBounty, VaultConfig
  <2>6. CASE \E r \in Ratios : SetMinCollateralRatio(r)
    BY <2>1, <2>2, <2>6 DEF SetMinCollateralRatio, VaultConfig
  <2>7. CASE \E w \in Weights : SetCollateralRiskWeight(w)
    BY <2>1, <2>2, <2>7 DEF SetCollateralRiskWeight, VaultConfig
  <2>8. CASE \E f \in ProtocolFees : SetProtocolFee(f)
    BY <2>1, <2>2, <2>8 DEF SetProtocolFee, VaultConfig
  <2>9. CASE \E s \in FeeShares : SetTreasuryFeeShare(s)
    BY <2>1, <2>2, <2>9 DEF SetTreasuryFeeShare, VaultConfig
  <2> QED
    BY <2>3, <2>4, <2>5, <2>6, <2>7, <2>8, <2>9
<1> QED
  BY <1>1, ConfigureVaultKeepsVaultIInv

\* The invariant holds when the contract goes into service.
LEMMA VaultInitVaultIInv == VaultInit => VaultIInv
<1> SUFFICES ASSUME VaultInit PROVE VaultIInv
  OBVIOUS
<1>1. /\ vault \in VaultConfig /\ pending = NoProposal /\ NoProposal \in Proposal
      /\ collateral \in [Borrowers -> Nat] /\ total_collateral = 0
      /\ treasury_balance = 0 /\ bounty_balance = 0
  BY VaultAssumption DEF VaultInit, NoProposal, Proposal
<1>2. balance \in [Accounts -> Nat]
  BY VaultAssumption DEF VaultInit
<1>3. Self \notin Sources => balance[Self] = 0
  BY AccountFacts DEF VaultInit
<1> QED
  BY <1>1, <1>2, <1>3 DEF VaultIInv, VaultTypeOK, CustodyExact, PendingWithdrawalCovered,
     RecipientSound, NoProposal

\* Every step keeps the invariant.
LEMMA VaultNextVaultIInv == TypeOK /\ VaultIInv /\ [VaultNext]_allVars => VaultIInv'
<1> SUFFICES ASSUME TypeOK, VaultIInv, [VaultNext]_allVars PROVE VaultIInv'
  OBVIOUS
<1>1. CASE UNCHANGED vaultVars
  <2>1. VaultTypeOK'
    BY <1>1 DEF VaultIInv, VaultTypeOK, vaultVars, money
  <2>2. CustodyExact' /\ PendingWithdrawalCovered' /\ RecipientSound'
    BY <1>1 DEF VaultIInv, CustodyExact, PendingWithdrawalCovered, RecipientSound, NoProposal,
       vaultVars, money
  <2> QED
    BY <2>1, <2>2 DEF VaultIInv
<1>2. ASSUME NEW b \in Borrowers, MoneyStep(b) PROVE VaultIInv'
  BY <1>2, DebtMoneyKeepsVaultIInv, CollateralKeepsVaultIInv
     DEF MoneyStep, PartialReleaseCollateral
<1>3. CASE VaultStep
  BY <1>3, FeesOutKeepVaultIInv, SettersKeepVaultIInv DEF VaultStep, VaultSettings
<1> QED
  BY <1>1, <1>2, <1>3 DEF VaultNext, allVars
-----------------------------------------------------------------------------
(* The collateral accumulator *)

\* Only set_collateral_balance touches the collateral, and it moves both together.
LEMMA CollateralSteps ==
  ASSUME [VaultNext]_allVars
  PROVE  \/ UNCHANGED <<collateral, total_collateral>>
         \/ \E b \in Borrowers : \E amount : SetCollateral(b, amount)
<1>1. CASE UNCHANGED vaultVars
  BY <1>1 DEF vaultVars, money
<1>2. ASSUME NEW b \in Borrowers, MoneyStep(b)
      PROVE  UNCHANGED <<collateral, total_collateral>> \/ \E amount : SetCollateral(b, amount)
  BY <1>2 DEF MoneyStep, Draw, Repay, DepositCollateral, WithdrawCollateral,
     PartialReleaseCollateral
<1>3. CASE VaultStep
  BY <1>3 DEF VaultStep, VaultSettings, money, ProposeTreasuryWithdrawal,
     ExecuteTreasuryWithdrawal, WithdrawBounty, SetLiquiditySource, SetTreasury, SetBounty,
     SetMinCollateralRatio, SetCollateralRiskWeight, SetProtocolFee, SetTreasuryFeeShare,
     ConfigureVault
<1> QED
  BY <1>1, <1>2, <1>3 DEF VaultNext, allVars

\* Every step keeps the accumulator equal to the sum of the balances.
LEMMA NextCollateral ==
  ASSUME VaultTypeOK, VaultTypeOK', TotalCollateralConserved, [VaultNext]_allVars
  PROVE  TotalCollateralConserved'
<1>1. collateral \in [Borrowers -> Int] /\ collateral' \in [Borrowers -> Int]
  BY DEF VaultTypeOK
<1>2. CASE UNCHANGED <<collateral, total_collateral>>
  BY <1>2 DEF TotalCollateralConserved
<1>3. ASSUME NEW b \in Borrowers, NEW amount, SetCollateral(b, amount)
      PROVE  TotalCollateralConserved'
  <2> DEFINE new == collateral'
  <2>1. /\ new[b] = amount /\ \A x \in Borrowers : x # b => new[x] = collateral[x]
        /\ total_collateral' = SumFunction(collateral) + amount - collateral[b]
    BY <1>1, <1>3 DEF SetCollateral, TotalCollateralConserved
  <2>2. new \in [Borrowers -> Int]
    BY <1>1
  <2> HIDE DEF new
  <2>3. SumFunction(new) = SumFunction(collateral) + new[b] - collateral[b]
    BY <1>1, <2>1, <2>2, BorrowersAssumption, SumFunctionUpdate
  <2> QED
    BY <2>1, <2>3 DEF TotalCollateralConserved, new
<1> QED
  BY <1>2, <1>3, CollateralSteps
-----------------------------------------------------------------------------
(* Theorems *)

\* Every reachable state satisfies the inductive invariant.
THEOREM VaultInvariance == VaultSpec => []VaultIInv
<1>1. VaultSpec => []TypeOK
  BY ImplementsLedger, TypeCorrect, PTL
<1> QED
  BY <1>1, VaultInitVaultIInv, VaultNextVaultIInv, PTL DEF VaultSpec

\* Balances, collateral, fee accumulators and proposals keep their types: nothing is
\* overdrawn.
THEOREM VaultTypeCorrect == VaultSpec => []VaultTypeOK
<1>1. VaultIInv => VaultTypeOK
  BY DEF VaultIInv
<1> QED
  BY <1>1, VaultInvariance, PTL

\* With a separate reserve, the contract's token balance is its collateral and fees.
THEOREM Custody == VaultSpec => []CustodyExact
<1>1. VaultIInv => CustodyExact
  BY DEF VaultIInv
<1> QED
  BY <1>1, VaultInvariance, PTL

\* The contract's TotalCollateral is the sum of the borrowers' collateral, so the assertion
\* in adjust_total_collateral never fails.
THEOREM CollateralConserved == VaultSpec => []TotalCollateralConserved
<1>1. VaultInit => TotalCollateralConserved
  <2> SUFFICES ASSUME VaultInit PROVE TotalCollateralConserved
    OBVIOUS
  <2>1. DOMAIN collateral = Borrowers /\ \A b \in Borrowers : collateral[b] = 0
    BY DEF VaultInit
  <2>2. SumFunction(collateral) = 0
    BY <2>1, BorrowersAssumption, SumFunctionZero
  <2> QED
    BY <2>2 DEF VaultInit, TotalCollateralConserved
<1>2. /\ VaultTypeOK /\ VaultTypeOK' /\ TotalCollateralConserved
      /\ [VaultNext]_allVars
      => TotalCollateralConserved'
  BY NextCollateral
<1> QED
  BY <1>1, <1>2, VaultTypeCorrect, PTL DEF VaultSpec

\* A proposed treasury withdrawal can be paid when its timelock ends.
THEOREM PendingCovered == VaultSpec => []PendingWithdrawalCovered
<1>1. VaultIInv => PendingWithdrawalCovered
  BY DEF VaultIInv
<1> QED
  BY <1>1, VaultInvariance, PTL

\* The treasury is paid out by a proposal that waited out its timelock, and by nothing else.
THEOREM Timelocked == VaultSpec => TreasuryTimelocked
<1>1. TypeOK /\ VaultIInv /\ [VaultNext]_allVars => [PaidByProposal]_allVars
  <2> SUFFICES ASSUME TypeOK, VaultIInv, VaultNext, treasury_balance' < treasury_balance
               PROVE  /\ now >= pending.execute_after
                      /\ treasury_balance - treasury_balance' = pending.amount
                      /\ balance'[pending.recipient] = balance[pending.recipient] + pending.amount
    BY DEF PaidByProposal
  <2>1. /\ treasury_balance \in Nat /\ balance \in [Accounts -> Int] /\ pending.amount \in Nat
        /\ Self \in Accounts
    BY AccountFacts DEF VaultIInv, VaultTypeOK, Proposal
  <2>2. ASSUME UNCHANGED treasury_balance PROVE FALSE
    BY <2>1, <2>2
  <2>3. ASSUME NEW b \in Borrowers, MoneyStep(b) PROVE FALSE
    <3>1. ASSUME NEW a \in Amounts, Repay(b, a) PROVE FALSE
      <4>1. a \in Nat /\ VaultTypeOK
        BY InputsAssumption DEF VaultIInv
      <4>2. treasury_balance' \in Nat /\ treasury_balance' >= treasury_balance
        BY <3>1, <4>1, RepayMoney
      <4> QED
        BY <2>1, <4>2
    <3> QED
      BY <2>2, <2>3, <3>1 DEF MoneyStep, Draw, DepositCollateral, WithdrawCollateral,
         PartialReleaseCollateral
  <2>4. ExecuteTreasuryWithdrawal
    BY <2>2, <2>3 DEF VaultNext, VaultStep, VaultSettings, vaultVars, money, ProposeTreasuryWithdrawal,
       WithdrawBounty, SetLiquiditySource, SetTreasury, SetBounty, SetMinCollateralRatio,
       SetCollateralRiskWeight, SetProtocolFee, SetTreasuryFeeShare, ConfigureVault
  <2>5. /\ pending # NoProposal /\ now >= pending.execute_after
        /\ treasury_balance' = treasury_balance - pending.amount
        /\ balance' = Moved(balance, Self, pending.recipient, pending.amount)
    BY <2>4 DEF ExecuteTreasuryWithdrawal
  <2>6. pending.recipient \in Accounts /\ pending.recipient # Self
    BY <2>5, AccountFacts DEF VaultIInv, RecipientSound
  <2>7. balance'[pending.recipient] = balance[pending.recipient] + pending.amount
    BY <2>1, <2>5, <2>6, MovedFacts
  <2> QED
    BY <2>1, <2>5, <2>7
<1>2. VaultSpec => []TypeOK
  BY ImplementsLedger, TypeCorrect, PTL
<1> QED
  BY <1>1, <1>2, VaultInvariance, PTL DEF VaultSpec, TreasuryTimelocked

\* A borrower's tokens move by what is booked: a draw pays out what it adds to the debt, a
\* repayment takes what it removes from it and the fees.
THEOREM PaidAsOwed == VaultSpec => MoneyMatchesDebt
<1>1. TypeOK /\ VaultIInv /\ [VaultNext]_allVars => [\A b \in Borrowers : PaidAsBooked(b)]_allVars
  <2> SUFFICES ASSUME TypeOK, VaultIInv, VaultNext, NEW x \in Borrowers
               PROVE  PaidAsBooked(x)
    OBVIOUS
  <2> SUFFICES ASSUME balance[x] # balance'[x], collateral'[x] = collateral[x]
               PROVE  PaidAsBooked(x)
    <3>1. balance[x] \in Nat
      BY AccountFacts DEF VaultIInv, VaultTypeOK
    <3> QED
      BY <3>1 DEF PaidAsBooked
  <2>1. /\ balance \in [Accounts -> Int] /\ balance[x] \in Nat /\ collateral \in [Borrowers -> Nat]
        /\ treasury_balance \in Nat /\ bounty_balance \in Nat
        /\ VaultTypeOK /\ vault.source \in Sources /\ x \in Accounts /\ Self \in Accounts
    BY AccountFacts DEF VaultIInv, VaultTypeOK, VaultConfig
  <2>2. lines \in [Borrowers -> Line] /\ Accrued(x).utilized_amount \in Int
    BY AccruedFacts, LineTypes DEF TypeOK, LedgerTypeOK
  <2>3. ASSUME NEW b \in Borrowers, NEW a \in Amounts, Draw(b, a) PROVE PaidAsBooked(x)
    <3> DEFINE drawn == [Accrued(b) EXCEPT !.utilized_amount = @ + a]
    <3>1. /\ a \in Nat /\ balance' = Moved(balance, vault.source, b, a)
          /\ UNCHANGED <<treasury_balance, bounty_balance>>
      BY <2>3, InputsAssumption DEF Draw
    <3>2. vault.source \in Accounts /\ b \in Accounts /\ vault.source # b /\ x # vault.source
      BY <2>1, AccountFacts
    <3>3. x = b /\ balance'[b] = balance[b] + a
      BY <2>1, <3>1, <3>2, MovedFacts
    <3>4. lines'[b] = drawn
      BY <2>2, <2>3 DEF Draw, DrawCredit, PersistDebts, AccrueAllExcept
    <3>5. drawn.utilized_amount = Accrued(b).utilized_amount + a
      BY AccruedFacts DEF Line
    <3> QED
      BY <2>1, <2>2, <3>1, <3>3, <3>4, <3>5 DEF PaidAsBooked
  <2>4. ASSUME NEW b \in Borrowers, NEW a \in Amounts, Repay(b, a) PROVE PaidAsBooked(x)
    <3> DEFINE pay  == Payment(b, a)
               eff  == pay.effective
               fee  == MinOf(ApplyBps(pay.interest, vault.fee), pay.effective)
               late == LateFee(b, pay.principal)
               debt == Accrued(b).utilized_amount
    <3>1. a \in Nat
      BY InputsAssumption
    <3>2. /\ eff \in Nat /\ fee \in Nat /\ late \in Nat /\ (eff = 0 => late = 0)
          /\ debt \in Int /\ (debt >= 0 => eff <= debt) /\ (debt < 0 => eff = 0)
      BY <2>1, <3>1, PaymentFacts
    <3>3. /\ balance'[b] = balance[b] - eff - late
          /\ \A y \in Borrowers \ {b} : balance'[y] = balance[y]
          /\ treasury_balance' \in Nat /\ bounty_balance' \in Nat
          /\ treasury_balance' + bounty_balance' = treasury_balance + bounty_balance + fee + late
      BY <2>1, <2>4, <3>1, RepayMoney
    <3>4. x = b
      BY <3>3
    <3>5. lines'[b].utilized_amount = MaxOf(debt - eff, 0)
      <4>1. eff = MaxOf(MinOf(a, MaxOf(debt, 0)), 0)
        BY DEF Payment, AllocateRepayment
      <4> HIDE DEF eff
      <4>2. Accrued(b) \in Line
        BY AccruedFacts
      <4>3. \E i : lines' = [lines EXCEPT ![b] = [Accrued(b) EXCEPT !.accrued_interest = i,
                                                   !.utilized_amount = MaxOf(debt - eff, 0)]]
        BY <2>4, <4>1 DEF Repay, RepayCredit, PersistCreditLine, AllocateRepayment
      <4> QED
        BY <2>2, <4>2, <4>3 DEF Line
    <3> HIDE DEF eff, fee, late, debt
    <3>6. debt >= 0
      BY <2>1, <3>2, <3>3, <3>4
    <3>7. lines'[b].utilized_amount = debt - eff
      BY <3>2, <3>5, <3>6 DEF MaxOf
    <3>8. Accrued(x).utilized_amount - lines'[x].utilized_amount = eff
      BY <3>2, <3>4, <3>7 DEF debt
    <3>9. balance[x] - balance'[x] = eff + late
      BY <2>1, <3>2, <3>3, <3>4
    <3>10. treasury_balance' + bounty_balance' - treasury_balance - bounty_balance = fee + late
      <4> DEFINE t == treasury_balance'
                 c == bounty_balance'
      <4>1. t \in Int /\ c \in Int /\ t + c = treasury_balance + bounty_balance + fee + late
        BY <3>3
      <4> HIDE DEF t, c
      <4>2. t + c - treasury_balance - bounty_balance = fee + late
        BY <2>1, <3>2, <4>1
      <4> QED
        BY <4>2 DEF t, c
    <3>11. eff <= eff + late /\ eff + late <= eff + (fee + late)
      BY <3>2
    <3> QED
      BY <3>8, <3>9, <3>10, <3>11, Zenon DEF PaidAsBooked
  <2>5. ASSUME NEW b \in Borrowers, NEW a \in Deposits,
               DepositCollateral(b, a) \/ WithdrawCollateral(b, a)
        PROVE  FALSE
    <3>1. /\ a \in Nat /\ a > 0 /\ b \in Accounts /\ b # Self /\ x # Self
          /\ \/ balance' = Moved(balance, b, Self, a)
             \/ balance' = Moved(balance, Self, b, a)
      BY <2>5, VaultAssumption, AccountFacts DEF DepositCollateral, WithdrawCollateral
    <3>2. x = b
      BY <2>1, <3>1, MovedFacts
    <3>3. \/ collateral' = [collateral EXCEPT ![b] = collateral[b] + a]
          \/ collateral' = [collateral EXCEPT ![b] = collateral[b] - a]
      BY <2>5 DEF DepositCollateral, WithdrawCollateral, SetCollateral
    <3> QED
      BY <2>1, <3>1, <3>2, <3>3
  <2>6. ASSUME ExecuteTreasuryWithdrawal \/ WithdrawBounty PROVE FALSE
    <3>1. CASE ExecuteTreasuryWithdrawal
      <4>1. pending # NoProposal /\ balance' = Moved(balance, Self, pending.recipient, pending.amount)
        BY <3>1 DEF ExecuteTreasuryWithdrawal
      <4>2. /\ pending.recipient \in Accounts /\ pending.recipient # Self
            /\ pending.recipient # x /\ x # Self /\ pending.amount \in Nat
        BY <4>1, AccountFacts DEF VaultIInv, VaultTypeOK, RecipientSound, Proposal
      <4> QED
        BY <2>1, <4>1, <4>2, MovedFacts
    <3>2. CASE WithdrawBounty
      <4>1. vault.bounty # NoAccount /\ balance' = Moved(balance, Self, vault.bounty, bounty_balance)
        BY <3>2 DEF WithdrawBounty
      <4>2. /\ vault.bounty \in Accounts /\ vault.bounty # Self
            /\ vault.bounty # x /\ x # Self
        BY <2>1, <4>1, AccountFacts DEF VaultTypeOK, VaultConfig
      <4> QED
        BY <2>1, <4>1, <4>2, MovedFacts
    <3> QED
      BY <2>6, <3>1, <3>2
  <2>7. ASSUME UNCHANGED balance PROVE FALSE
    BY <2>7
  <2>8. ASSUME NEW b \in Borrowers, MoneyStep(b) PROVE PaidAsBooked(x)
    BY <2>3, <2>4, <2>5, <2>8 DEF MoneyStep, PartialReleaseCollateral
  <2>9. CASE VaultStep
    BY <2>6, <2>7, <2>9 DEF VaultStep, VaultSettings, money, ProposeTreasuryWithdrawal, SetLiquiditySource,
       SetTreasury, SetBounty, SetMinCollateralRatio, SetCollateralRiskWeight, SetProtocolFee,
       SetTreasuryFeeShare, ConfigureVault
  <2> QED
    BY <2>7, <2>8, <2>9 DEF VaultNext, vaultVars, money
<1>2. VaultSpec => []TypeOK
  BY ImplementsLedger, TypeCorrect, PTL
<1> QED
  BY <1>1, <1>2, VaultInvariance, PTL DEF VaultSpec, MoneyMatchesDebt
=============================================================================
