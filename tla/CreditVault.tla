---------------------------- MODULE CreditVault -----------------------------
(***************************************************************************)
(* The money of the credit contract: the liquidity token that draws and    *)
(* repayments move, the collateral borrowers deposit in the same token,    *)
(* the protocol and late fees skimmed into the treasury and bounty         *)
(* accumulators, and the timelocked withdrawal of the treasury.            *)
(*                                                                         *)
(* Every entrypoint that moves tokens is the entrypoint of CreditLines     *)
(* with its token half conjoined; the others leave the money alone.        *)
(* The token is an external contract, modelled by a balance per account: a *)
(* transfer of more than a balance reverts, and allowances are ample.      *)
(* Deposits of allowlisted tokens other than the liquidity token revert in *)
(* the code (the conservation assertion does not count them), so a         *)
(* borrower has one collateral balance.  No collateral admin cooldown is   *)
(* set.                                                                    *)
(***************************************************************************)
EXTENDS CreditLines

CONSTANTS
  Self,           \* the credit contract's own address
  Sources,        \* addresses the admin may set as LiquiditySource
  Treasuries,     \* addresses the admin may set as the treasury
  Bounties,       \* addresses the admin may set as the bounty pool
  NoAccount,      \* no address set
  ReserveFunds,   \* token balance a source starts with
  WalletFunds,    \* token balance a borrower starts with
  Deposits,       \* amounts of collateral deposits and withdrawals
  Ratios,         \* minimum collateral ratios; 0 switches the check off
  Weights,        \* collateral risk weights
  ProtocolFees,   \* protocol fee rates
  FeeShares,      \* treasury shares of the fees
  Deployments,    \* configurations the contract may be put into service with
  MaxProtocolFee, \* MAX_PROTOCOL_FEE_BPS
  Timelock        \* delay of a treasury withdrawal: 86_400

Accounts == Borrowers \cup {Self} \cup Sources \cup Treasuries \cup Bounties

VaultConfig ==
  [source : Sources, treasury : Treasuries \cup {NoAccount}, bounty : Bounties \cup {NoAccount},
   min_ratio : Nat, weight : 0..BPS, fee : 0..MaxProtocolFee, share : 0..BPS]

ASSUME AccountsAssumption ==
  /\ NoAccount \notin Accounts
  /\ Self \notin Borrowers \cup Treasuries \cup Bounties
  /\ Borrowers \cap (Sources \cup Treasuries \cup Bounties) = {}
ASSUME VaultAssumption ==
  /\ ReserveFunds \in Nat /\ WalletFunds \in Nat /\ Deposits \subseteq Nat
  /\ Ratios \subseteq Nat /\ Weights \subseteq 0..BPS
  /\ MaxProtocolFee \in 0..BPS /\ ProtocolFees \subseteq 0..MaxProtocolFee
  /\ FeeShares \subseteq 0..BPS /\ Timelock \in Nat
  /\ Deployments \subseteq VaultConfig

VARIABLES
  balance,          \* token balance of every account
  collateral,       \* CollateralBalance of each borrower
  total_collateral, \* TotalCollateral
  treasury_balance, \* TreasuryBalance
  bounty_balance,   \* BountyBalance
  pending,          \* PendingTreasuryWithdrawal
  vault             \* configuration: source, addresses, ratio, weight and fee terms

money     == <<balance, collateral, total_collateral, treasury_balance, bounty_balance>>
vaultVars == <<money, pending, vault>>
allVars   == <<vars, vaultVars>>

NoProposal == [recipient |-> NoAccount, amount |-> 0, execute_after |-> 0]

\* A token transfer.
Moved(bal, from, to, amount) == [bal EXCEPT ![from] = @ - amount, ![to] = @ + amount]
-----------------------------------------------------------------------------
(* Arithmetic *)

\* Mutant: both sides of the split are rounded down.
SplitProtocolFeeFloors(fee, share) ==
  [treasury |-> (fee * share) \div BPS, bounty |-> (fee * (BPS - share)) \div BPS]

\* split_protocol_fee: both sides rounded down, the unit left over to the side with the
\* larger remainder, the treasury first.
SplitProtocolFee(fee, share) ==
  LET t          == fee * share
      b          == fee * (BPS - share)
      left       == fee - t \div BPS - b \div BPS
      toTreasury == IF t % BPS >= b % BPS THEN left ELSE 0
  IN  [treasury |-> t \div BPS + toTreasury, bounty |-> b \div BPS + (left - toTreasury)]

\* required_collateral: the ratio of the debt rounded up; the division truncates towards
\* zero, so a negative debt rounds up too.
RequiredCollateral(debt) ==
  LET n    == debt * vault.min_ratio
      size == MaxOf(n, -n)
      q    == IF n >= 0 THEN size \div BPS ELSE -(size \div BPS)
  IN  IF size % BPS = 0 THEN q ELSE q + 1

\* weighted_collateral_value, rounded down.
Weighted(amount) == IF vault.weight >= BPS THEN amount ELSE ApplyBps(amount, vault.weight)

\* How a repayment is split over the accrued line.
Payment(b, amount) == AllocateRepayment(Accrued(b).utilized_amount, Accrued(b).accrued_interest, amount)

\* The fee for one overdue instalment: a LateFeeConfig supersedes the legacy flat fee.
InstallmentFee ==
  CASE cfg.late_fee_config.kind = "Flat"     -> cfg.late_fee_config.value
    [] cfg.late_fee_config.kind = "AprBased" -> 0
    [] OTHER                                 -> cfg.late_fee

\* The late fee of a repayment: per overdue instalment that its principal covers.
LateFee(b, principal) ==
  IF HasSchedule(b) /\ principal >= schedules[b].amount
  THEN InstallmentFee * OverdueInstallments(now, schedules[b].due, schedules[b].period,
                                            principal \div schedules[b].amount)
  ELSE 0
-----------------------------------------------------------------------------
(* Draws and repayments *)

\* draw_credit: the collateral covers the debt after the draw, the source pays.
Draw(b, amount) ==
  /\ DrawCredit(b, amount)
  /\ Weighted(collateral[b]) >= RequiredCollateral(lines'[b].utilized_amount)
  /\ balance[vault.source] >= amount
  /\ balance' = Moved(balance, vault.source, b, amount)
  /\ UNCHANGED <<collateral, total_collateral, treasury_balance, bounty_balance, pending, vault>>

\* accrue_protocol_fee, called once for the protocol fee and once for the late fee.
AccrueFees(fee, late) ==
  LET ofFee  == SplitProtocolFee(fee, vault.share)
      ofLate == SplitProtocolFee(late, vault.share)
  IN  /\ treasury_balance' = treasury_balance + ofFee.treasury + ofLate.treasury
      /\ bounty_balance'   = bounty_balance + ofFee.bounty + ofLate.bounty

\* Mutant: the reserve is paid what was requested, not what was owed.
RepayRequested(b, amount) ==
  LET pay  == Payment(b, amount)
      fee  == MinOf(ApplyBps(pay.interest, vault.fee), pay.effective)
      late == LateFee(b, pay.principal)
  IN  /\ RepayCredit(b, amount)
      /\ balance[b] >= amount + late
      /\ balance' = Moved(Moved(balance, b, Self, fee + late), b, vault.source, amount - fee)
      /\ AccrueFees(fee, late)
      /\ UNCHANGED <<collateral, total_collateral, pending, vault>>

\* repay_credit: the fee on the interest and the late fee go to the contract, the rest of
\* what is owed to the source.
Repay(b, amount) ==
  LET pay  == Payment(b, amount)
      fee  == MinOf(ApplyBps(pay.interest, vault.fee), pay.effective)
      late == LateFee(b, pay.principal)
  IN  /\ RepayCredit(b, amount)
      /\ balance[b] >= pay.effective + late
      /\ balance' = Moved(Moved(balance, b, Self, fee + late), b, vault.source, pay.effective - fee)
      /\ AccrueFees(fee, late)
      /\ UNCHANGED <<collateral, total_collateral, pending, vault>>
-----------------------------------------------------------------------------
(* Collateral *)

\* Mutant: total_collateral grows by the new balance, not by the difference.
SetCollateralGross(b, amount) ==
  /\ collateral' = [collateral EXCEPT ![b] = amount]
  /\ total_collateral' = total_collateral + amount

\* set_collateral_balance; total_collateral moves by the difference.
SetCollateral(b, amount) ==
  /\ collateral' = [collateral EXCEPT ![b] = amount]
  /\ total_collateral' = total_collateral + amount - collateral[b]

\* deposit_collateral.  The conservation assertion adds up the borrowers that have a
\* credit line, so a deposit made before the first line is opened reverts.
DepositCollateral(b, amount) ==
  /\ amount > 0
  /\ balance[b] >= amount
  /\ Exists(b)
  /\ balance' = Moved(balance, b, Self, amount)
  /\ SetCollateral(b, collateral[b] + amount)
  /\ UNCHANGED <<vars, treasury_balance, bounty_balance, pending, vault>>

\* Mutant: the balance check is left to the token transfer.
WithdrawCollateralUnchecked(b, amount) ==
  LET debt == lines[b].utilized_amount
  IN  /\ amount > 0
      /\ debt > 0 => Weighted(collateral[b]) - Weighted(amount) >= RequiredCollateral(debt)
      /\ balance[Self] >= amount
      /\ balance' = Moved(balance, Self, b, amount)
      /\ SetCollateral(b, collateral[b] - amount)
      /\ UNCHANGED <<vars, treasury_balance, bounty_balance, pending, vault>>

\* withdraw_collateral: the stored debt, interest not yet capitalised left out, stays covered.
WithdrawCollateral(b, amount) ==
  LET debt == lines[b].utilized_amount
  IN  /\ amount > 0
      /\ amount <= collateral[b]
      /\ debt > 0 => Weighted(collateral[b]) - Weighted(amount) >= RequiredCollateral(debt)
      /\ balance[Self] >= amount
      /\ balance' = Moved(balance, Self, b, amount)
      /\ SetCollateral(b, collateral[b] - amount)
      /\ UNCHANGED <<vars, treasury_balance, bounty_balance, pending, vault>>

\* partial_release_collateral has the same checks and effect.
PartialReleaseCollateral(b, amount) == WithdrawCollateral(b, amount)
-----------------------------------------------------------------------------
(* Treasury and bounty *)

\* propose_treasury_withdrawal: the amount is what the treasury holds now.
ProposeTreasuryWithdrawal ==
  /\ vault.treasury # NoAccount
  /\ pending = NoProposal
  /\ pending' = [recipient |-> vault.treasury, amount |-> treasury_balance,
                 execute_after |-> After(now, Timelock)]
  /\ UNCHANGED <<vars, money, vault>>

\* Mutant: the whole treasury is cleared, fees newer than the proposal included.
ExecuteAndClear ==
  /\ pending # NoProposal
  /\ now >= pending.execute_after
  /\ treasury_balance >= pending.amount
  /\ balance[Self] >= pending.amount
  /\ treasury_balance' = 0
  /\ balance' = Moved(balance, Self, pending.recipient, pending.amount)
  /\ pending' = NoProposal
  /\ UNCHANGED <<vars, collateral, total_collateral, bounty_balance, vault>>

\* Mutant: the proposal is not consumed.
ExecuteAndKeep ==
  /\ pending # NoProposal
  /\ now >= pending.execute_after
  /\ treasury_balance >= pending.amount
  /\ balance[Self] >= pending.amount
  /\ treasury_balance' = treasury_balance - pending.amount
  /\ balance' = Moved(balance, Self, pending.recipient, pending.amount)
  /\ UNCHANGED <<vars, collateral, total_collateral, bounty_balance, pending, vault>>

\* execute_treasury_withdrawal: the proposed amount only; fees that came later stay.
ExecuteTreasuryWithdrawal ==
  /\ pending # NoProposal
  /\ now >= pending.execute_after
  /\ treasury_balance >= pending.amount
  /\ balance[Self] >= pending.amount
  /\ treasury_balance' = treasury_balance - pending.amount
  /\ balance' = Moved(balance, Self, pending.recipient, pending.amount)
  /\ pending' = NoProposal
  /\ UNCHANGED <<vars, collateral, total_collateral, bounty_balance, vault>>

\* withdraw_bounty: at once and in full.
WithdrawBounty ==
  /\ vault.bounty # NoAccount
  /\ bounty_balance # 0
  /\ balance[Self] >= bounty_balance
  /\ balance' = Moved(balance, Self, vault.bounty, bounty_balance)
  /\ bounty_balance' = 0
  /\ UNCHANGED <<vars, collateral, total_collateral, treasury_balance, pending, vault>>
-----------------------------------------------------------------------------
(* Configuration *)

ConfigureVault(new) == vault' = new /\ UNCHANGED <<vars, money, pending>>

SetLiquiditySource(s) == ConfigureVault([vault EXCEPT !.source = s])
SetTreasury(t)        == ConfigureVault([vault EXCEPT !.treasury = t])
SetBounty(t)          == ConfigureVault([vault EXCEPT !.bounty = t])

SetMinCollateralRatio(r)   == ~paused /\ ConfigureVault([vault EXCEPT !.min_ratio = r])
SetCollateralRiskWeight(w) == ~paused /\ w <= BPS /\ ConfigureVault([vault EXCEPT !.weight = w])

\* Fee terms may not change while a defaulted line awaits its auction's settlement.
SetProtocolFee(f) ==
  NoActiveAuctions /\ f <= MaxProtocolFee /\ ConfigureVault([vault EXCEPT !.fee = f])
SetTreasuryFeeShare(s) ==
  NoActiveAuctions /\ s <= BPS /\ ConfigureVault([vault EXCEPT !.share = s])
-----------------------------------------------------------------------------
\* The contract after init and the deployment's setters: the token and a funded source
\* are configured, nothing has been drawn or deposited.
VaultInit ==
  /\ Init
  /\ vault \in Deployments
  /\ balance = [a \in Accounts |-> IF a \in Borrowers THEN WalletFunds
                                   ELSE IF a \in Sources THEN ReserveFunds ELSE 0]
  /\ collateral = [b \in Borrowers |-> 0]
  /\ total_collateral = 0
  /\ treasury_balance = 0
  /\ bounty_balance = 0
  /\ pending = NoProposal

\* Calls that move a borrower's tokens.
MoneyStep(b) ==
  \/ \E a \in Amounts : Draw(b, a)
  \/ \E a \in Amounts : Repay(b, a)
  \/ \E a \in Deposits : DepositCollateral(b, a)
  \/ \E a \in Deposits : WithdrawCollateral(b, a)
  \/ \E a \in Deposits : PartialReleaseCollateral(b, a)

\* Calls about the money's configuration.
VaultSettings ==
  \/ \E s \in Sources : SetLiquiditySource(s)
  \/ \E t \in Treasuries : SetTreasury(t)
  \/ \E t \in Bounties : SetBounty(t)
  \/ \E r \in Ratios : SetMinCollateralRatio(r)
  \/ \E w \in Weights : SetCollateralRiskWeight(w)
  \/ \E f \in ProtocolFees : SetProtocolFee(f)
  \/ \E s \in FeeShares : SetTreasuryFeeShare(s)

\* Calls about fees, and the configuration.
VaultStep ==
  \/ ProposeTreasuryWithdrawal
  \/ ExecuteTreasuryWithdrawal
  \/ WithdrawBounty
  \/ VaultSettings

\* Calls that move no tokens: write-offs, reversals and settlements are accounting only.
LedgerStep ==
  \/ Tick
  \/ \E b \in Borrowers : LifecycleStep(b)
  \/ \E b \in Borrowers, a \in Amounts : ForgiveDebt(b, a)
  \/ \E b \in Borrowers, a \in ReverseAmounts, ts \in Times : ReverseDraw(b, a, ts)
  \/ \E b \in Borrowers, a \in Amounts, id \in SettlementIds, f \in CloseFactors :
       SettleDefaultLiquidation(b, a, id, f)
  \/ \E batch \in SUBSET Borrowers : AccrueBatch(batch)
  \/ ConfigStep

VaultNext ==
  \/ \E b \in Borrowers : MoneyStep(b)
  \/ VaultStep
  \/ LedgerStep /\ UNCHANGED vaultVars

VaultSpec == VaultInit /\ [][VaultNext]_allVars
-----------------------------------------------------------------------------
Proposal == [recipient : Treasuries \cup {NoAccount}, amount : Nat, execute_after : Nat]

\* Every variable keeps the type its storage entry has; no balance is overdrawn and no
\* collateral or fee accumulator falls below zero.
VaultTypeOK ==
  /\ balance \in [Accounts -> Nat]
  /\ collateral \in [Borrowers -> Nat]
  /\ total_collateral \in Int
  /\ treasury_balance \in Nat /\ bounty_balance \in Nat
  /\ pending \in Proposal
  /\ vault \in VaultConfig

\* With a separate reserve the contract holds exactly the collateral and the fees it has
\* booked: deposits, withdrawals, fee skims with their rounding, late fees and both ways
\* fees are paid out keep the token balance and the three accumulators together, so no fee
\* is ever paid out of collateral.
CustodyExact ==
  Self \notin Sources => balance[Self] = total_collateral + treasury_balance + bounty_balance

\* TotalCollateral is the sum of the borrowers' collateral, which the assertion in
\* adjust_total_collateral demands of every deposit and withdrawal.
TotalCollateralConserved == total_collateral = SumFunction(collateral)

\* A proposed treasury withdrawal stays covered until it is executed: nothing else takes
\* from the treasury, so subtract_treasury_balance never fails after the timelock.
PendingWithdrawalCovered == pending.amount <= treasury_balance

\* What a borrower pays in a step, less what the step takes off the accrued debt, lies
\* between nothing and the fees the step books.
PaidAsBooked(b) ==
  LET paid   == balance[b] - balance'[b]
      repaid == Accrued(b).utilized_amount - lines'[b].utilized_amount
      fees   == treasury_balance' + bounty_balance' - treasury_balance - bounty_balance
  IN  paid # 0 /\ collateral'[b] = collateral[b] => repaid <= paid /\ paid <= repaid + fees

\* What a borrower gets in a draw is what is added to the debt, and what a borrower pays
\* beyond the reduction of the accrued debt is booked as a fee: an overpayment is not
\* taken.
MoneyMatchesDebt == [][\A b \in Borrowers : PaidAsBooked(b)]_allVars

\* A step that takes from the treasury pays out a proposal that has waited long enough.
PaidByProposal ==
  treasury_balance' < treasury_balance =>
    /\ now >= pending.execute_after
    /\ treasury_balance - treasury_balance' = pending.amount
    /\ balance'[pending.recipient] = balance[pending.recipient] + pending.amount

\* The treasury is paid out only by a proposal that waited out its timelock, in the amount
\* the treasury held when it was made and to the address set at that time.
TreasuryTimelocked == [][PaidByProposal]_allVars
-----------------------------------------------------------------------------
(* A statement of the code's comments, refuted by the code *)

\* collateral.rs: a withdrawal "can never push an active credit line under-collateralized":
\* what is left after a withdrawal covers the stored debt at the minimum ratio.
WithdrawalKeepsRatio ==
  [][\A b \in Borrowers :
       collateral'[b] < collateral[b] /\ lines[b].utilized_amount > 0 =>
         Weighted(collateral[b])' >= RequiredCollateral(lines[b].utilized_amount)]_allVars
=============================================================================
