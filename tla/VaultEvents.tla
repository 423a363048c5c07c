---------------------------- MODULE VaultEvents -----------------------------
(***************************************************************************)
(* The events of the contract's money, and an accountant that follows      *)
(* them: collateral movements, skimmed fees, and treasury withdrawals,     *)
(* each with the balance it leaves.  The bounty cannot be followed:        *)
(* withdraw_bounty publishes nothing.  Debt events are those of EventLog.  *)
(***************************************************************************)
EXTENDS Views, SequencesExt

VARIABLE account  \* what the events tell: the collateral of each borrower and the treasury as
                  \* last reported, the sum of the reported treasury amounts, the proposal

accountVars == <<allVars, account>>

\* col_dep, col_wit and col_prel, each followed by col_lca with the same balance.
CollateralEvent(b, new_balance) == [topic |-> "collateral", borrower |-> b, new_balance |-> new_balance]

FeeAccruedEvent(split, new_treasury_balance) ==
  [topic |-> "fee_accrd", amount |-> split.treasury, new_balance |-> new_treasury_balance]

TreasuryWithdrawalProposedEvent(p) == [topic |-> "tre_prop", proposal |-> p]
TreasuryWithdrawalExecutedEvent(amount, remaining) ==
  [topic |-> "tre_exec", amount |-> -amount, new_balance |-> remaining]

Enter(acc, e) ==
  CASE e.topic = "collateral" -> [acc EXCEPT !.collateral[e.borrower] = e.new_balance]
    [] e.topic = "tre_prop"   -> [acc EXCEPT !.proposal = e.proposal]
    [] e.topic = "fee_accrd"  -> [acc EXCEPT !.treasury = e.new_balance, !.sum = @ + e.amount]
    [] OTHER -> [acc EXCEPT !.treasury = e.new_balance, !.sum = @ + e.amount, !.proposal = NoProposal]

Report(events) == account' = FoldLeft(Enter, account, events)
-----------------------------------------------------------------------------
\* Mutant: only the protocol fee is reported, the late fee is booked in silence.
FeeEventsNoLate(fee, late) ==
  LET ofFee == SplitProtocolFee(fee, vault.share)
  IN  IF fee > 0 THEN <<FeeAccruedEvent(ofFee, treasury_balance + ofFee.treasury)>> ELSE <<>>

\* accrue_protocol_fee reports each fee with the balance right after it, and no fee of zero.
FeeEvents(fee, late) ==
  LET ofFee  == SplitProtocolFee(fee, vault.share)
      ofLate == SplitProtocolFee(late, vault.share)
      first  == treasury_balance + ofFee.treasury
  IN  (IF fee > 0 THEN <<FeeAccruedEvent(ofFee, first)>> ELSE <<>>)
        \o (IF late > 0 THEN <<FeeAccruedEvent(ofLate, first + ofLate.treasury)>> ELSE <<>>)

\* The fees of a repayment, as Repay books them.
RepayFeeEvents(b, amount) ==
  LET pay == Payment(b, amount)
  IN  FeeEvents(MinOf(ApplyBps(pay.interest, vault.fee), pay.effective), LateFee(b, pay.principal))

ReportedMoneyStep(b) ==
  \/ \E a \in Amounts : Draw(b, a) /\ UNCHANGED account
  \/ \E a \in Amounts : Repay(b, a) /\ Report(RepayFeeEvents(b, a))
  \/ \E a \in Deposits : /\ DepositCollateral(b, a)
                         /\ Report(<<CollateralEvent(b, collateral[b] + a)>>)
  \/ \E a \in Deposits : /\ WithdrawCollateral(b, a) \/ PartialReleaseCollateral(b, a)
                         /\ Report(<<CollateralEvent(b, collateral[b] - a)>>)

ReportedVaultStep ==
  \/ ProposeTreasuryWithdrawal /\ Report(<<TreasuryWithdrawalProposedEvent(pending')>>)
  \/ /\ ExecuteTreasuryWithdrawal
     /\ Report(<<TreasuryWithdrawalExecutedEvent(pending.amount, treasury_balance - pending.amount)>>)
  \/ (WithdrawBounty \/ VaultSettings) /\ UNCHANGED account

AccountInit ==
  /\ VaultInit
  /\ account = [collateral |-> [b \in Borrowers |-> 0], treasury |-> 0, sum |-> 0, proposal |-> NoProposal]

AccountNext ==
  \/ \E b \in Borrowers : ReportedMoneyStep(b)
  \/ ReportedVaultStep
  \/ LedgerStep /\ UNCHANGED <<vaultVars, account>>

AccountSpec == AccountInit /\ [][AccountNext]_accountVars
-----------------------------------------------------------------------------
\* Whoever follows the events knows the collateral of every borrower, the treasury and the
\* pending withdrawal without a query, and the reported amounts add up to the treasury: each
\* of several fees of one repayment is reported, fees between proposal and execution included.
AccountExact ==
  /\ account.collateral = collateral
  /\ account.treasury = treasury_balance /\ account.sum = treasury_balance
  /\ account.proposal = pending
=============================================================================
