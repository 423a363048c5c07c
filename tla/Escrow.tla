------------------------------- MODULE Escrow -------------------------------
(***************************************************************************)
(* The escrow contract of a funding campaign (contracts/soroban/contracts/ *)
(* escrow) together with the milestones contract that releases its money   *)
(* (contracts/soroban/contracts/milestones).                               *)
(*                                                                         *)
(* The administrator given to the escrow is either an account, which may   *)
(* approve withdrawals and change the platform fee, or the milestones      *)
(* contract, which does nothing but release the share of an approved       *)
(* milestone.  Executing an approved withdrawal is open to anyone, to any  *)
(* recipient, and neither approval nor execution looks at the sign of the  *)
(* amount.                                                                 *)
(***************************************************************************)
EXTENDS Host, FiniteSets, Functions

CONSTANTS
  Contributors,
  Funds,          \* token balance of a contributor at the start
  Gifts,          \* amounts of deposits
  Withdrawals,    \* amounts an account administrator approves and anyone executes
  MaxApproved,    \* bound of the model on the size of the approved amount
  MaxRaised,      \* bound of the model on the total raised
  Targets,        \* campaign targets
  Deadlines,      \* campaign deadlines
  Fees,           \* platform fees proposed, in basis points
  FeeUnit,        \* 10_000
  MaxFee,         \* MAX_FEE_BPS
  Plans           \* milestone lists the milestones contract is initialized with

NoFee == -1
Vault == "escrow"
Creator == "creator"
Platform == "platform"
Accounts == Contributors \cup {Vault, Creator, Platform}

Milestone ==
  [release_bps : 0..FeeUnit, status : {"Pending", "Submitted", "Approved", "Rejected"}]

ASSUME EscrowAssumption ==
  /\ IsFiniteSet(Contributors) /\ Contributors \cap {Vault, Creator, Platform} = {}
  /\ Funds \in Nat /\ Gifts \subseteq Nat /\ Withdrawals \subseteq Int
  /\ MaxApproved \in Nat /\ MaxRaised \in Nat
  /\ Targets \subseteq Int /\ Deadlines \subseteq Nat
  /\ FeeUnit \in Nat \ {0} /\ MaxFee \in 0..FeeUnit /\ Fees \subseteq Nat
  /\ \A p \in Plans : p \in [DOMAIN p -> Milestone] /\ IsFiniteSet(DOMAIN p)

VARIABLES
  campaign,       \* the escrow's instance storage
  contributions,  \* Balances
  milestones,     \* the milestone list; empty before the milestones contract is initialized
  purse,          \* token balances
  withdrawn       \* tokens that calls of execute_withdrawal from outside took from the
                  \* escrow (history)

escrowVars == <<campaign, contributions, milestones, purse, withdrawn>>

NoCampaign == [admin |-> "none", target |-> 0, deadline |-> 0, fee |-> 0, pending_fee |-> NoFee,
          approved |-> 0, total_raised |-> 0]

EscrowInit ==
  /\ campaign = NoCampaign
  /\ contributions = [c \in Contributors |-> 0]
  /\ milestones = << >>
  /\ purse = [a \in Accounts |-> IF a \in Contributors THEN Funds ELSE 0]
  /\ withdrawn = 0
-----------------------------------------------------------------------------
IsInitialized == campaign.admin # "none"

Initialize(admin, target, deadline, fee) ==
  /\ ~IsInitialized
  /\ fee <= MaxFee
  /\ campaign' = [NoCampaign EXCEPT !.admin = admin, !.target = target, !.deadline = deadline, !.fee = fee]
  /\ UNCHANGED <<now, contributions, milestones, purse, withdrawn>>

Deposit(from, amount) ==
  /\ IsInitialized
  /\ now <= campaign.deadline
  /\ purse[from] >= amount
  /\ campaign.total_raised + amount <= MaxRaised
  /\ purse' = Transfer(purse, from, Vault, amount)
  /\ contributions' = [contributions EXCEPT ![from] = @ + amount]
  /\ campaign' = [campaign EXCEPT !.total_raised = @ + amount]
  /\ UNCHANGED <<now, milestones, withdrawn>>

\* approve_withdrawal adds any amount, a negative one too.
ApproveWithdrawal(amount) ==
  /\ campaign.admin = "account"
  /\ campaign.approved + amount \in -MaxApproved..MaxApproved
  /\ campaign' = [campaign EXCEPT !.approved = @ + amount]
  /\ UNCHANGED <<now, contributions, milestones, purse, withdrawn>>

ProposeFeeChange(fee) ==
  /\ campaign.admin = "account"
  /\ fee <= MaxFee
  /\ campaign' = [campaign EXCEPT !.pending_fee = fee]
  /\ UNCHANGED <<now, contributions, milestones, purse, withdrawn>>

ConfirmFeeChange ==
  /\ campaign.admin = "account"
  /\ campaign.pending_fee # NoFee
  /\ campaign' = [campaign EXCEPT !.fee = campaign.pending_fee, !.pending_fee = NoFee]
  /\ UNCHANGED <<now, contributions, milestones, purse, withdrawn>>

CancelFeeChange ==
  /\ campaign.admin = "account"
  /\ campaign.pending_fee # NoFee
  /\ campaign' = [campaign EXCEPT !.pending_fee = NoFee]
  /\ UNCHANGED <<now, contributions, milestones, purse, withdrawn>>

\* The two transfers of execute_withdrawal: what is left to the recipient, who may be the
\* escrow itself, and the fee to the platform.
PaidOut(to, amount) ==
  LET fee == Share(amount, campaign.fee, FeeUnit)
      net == IF to = Vault THEN purse ELSE Transfer(purse, Vault, to, amount - fee)
  IN  Transfer(net, Vault, Platform, fee)

\* The escrow's balance covers them, one after the other.
Covered(to, amount) ==
  LET fee == Share(amount, campaign.fee, FeeUnit)
  IN  IF to = Vault THEN purse[Vault] >= amount - fee /\ purse[Vault] >= fee
      ELSE purse[Vault] >= amount

\* execute_withdrawal, called by anyone for any recipient.  For an amount that is not
\* positive neither net nor fee is, so nothing is transferred, and the approved amount is
\* still reduced by it.
ExecuteWithdrawal(to, amount) ==
  /\ IsInitialized
  /\ campaign.approved >= amount
  /\ campaign.approved - amount <= MaxApproved
  /\ \/ amount <= 0 /\ UNCHANGED purse
     \/ amount > 0 /\ Covered(to, amount) /\ purse' = PaidOut(to, amount)
  /\ campaign' = [campaign EXCEPT !.approved = @ - amount]
  /\ withdrawn' = withdrawn + purse[Vault] - purse'[Vault]
  /\ UNCHANGED <<now, contributions, milestones>>

\* Mutant: a campaign that just met its target still refunds.
RefundableAtTarget == now >= campaign.deadline /\ campaign.total_raised <= campaign.target

Refundable == now >= campaign.deadline /\ campaign.total_raised < campaign.target

Refund(c) ==
  /\ IsInitialized
  /\ Refundable
  /\ contributions[c] > 0
  /\ purse[Vault] >= contributions[c]
  /\ purse' = Transfer(purse, Vault, c, contributions[c])
  /\ contributions' = [contributions EXCEPT ![c] = 0]
  /\ campaign' = [campaign EXCEPT !.total_raised = @ - contributions[c]]
  /\ UNCHANGED <<now, milestones, withdrawn>>
-----------------------------------------------------------------------------
(* The milestones contract *)

\* The list is stored as it was given, the statuses too.
InitializeMilestones(plan) ==
  /\ milestones = << >>
  /\ SumFunction([i \in DOMAIN plan |-> plan[i].release_bps]) = FeeUnit
  /\ milestones' = plan
  /\ UNCHANGED <<now, campaign, contributions, purse, withdrawn>>

SubmitMilestone(i) ==
  /\ milestones[i].status \in {"Pending", "Rejected"}
  /\ milestones' = [milestones EXCEPT ![i].status = "Submitted"]
  /\ UNCHANGED <<now, campaign, contributions, purse, withdrawn>>

RejectMilestone(i) ==
  /\ milestones[i].status = "Submitted"
  /\ milestones' = [milestones EXCEPT ![i].status = "Rejected"]
  /\ UNCHANGED <<now, campaign, contributions, purse, withdrawn>>

Release(i) == Share(campaign.total_raised, milestones[i].release_bps, FeeUnit)

\* approve_withdrawal and execute_withdrawal are called within the approval, for the creator:
\* the approved amount is raised and spent in one invocation.
ApproveMilestone(i) ==
  /\ milestones[i].status = "Submitted"
  /\ milestones' = [milestones EXCEPT ![i].status = "Approved"]
  /\ \/ Release(i) = 0 /\ UNCHANGED purse
     \/ /\ Release(i) > 0
        /\ campaign.admin = "milestones"
        /\ campaign.approved >= 0
        /\ Covered(Creator, Release(i))
        /\ purse' = PaidOut(Creator, Release(i))
  /\ UNCHANGED <<now, campaign, contributions, withdrawn>>
-----------------------------------------------------------------------------
EscrowNext ==
  \/ \E admin \in {"account", "milestones"}, t \in Targets, d \in Deadlines, f \in Fees :
        Initialize(admin, t, d, f)
  \/ \E c \in Contributors, a \in Gifts : Deposit(c, a)
  \/ \E a \in Withdrawals : ApproveWithdrawal(a)
  \/ \E to \in Accounts, a \in Withdrawals : ExecuteWithdrawal(to, a)
  \/ \E f \in Fees : ProposeFeeChange(f)
  \/ ConfirmFeeChange \/ CancelFeeChange
  \/ \E c \in Contributors : Refund(c)
  \/ \E p \in Plans : InitializeMilestones(p)
  \/ \E i \in DOMAIN milestones : SubmitMilestone(i) \/ RejectMilestone(i) \/ ApproveMilestone(i)
  \/ Tick /\ UNCHANGED escrowVars
-----------------------------------------------------------------------------
\* Every variable keeps its type; neither the escrow nor a contributor is overdrawn, and
\* the fee never exceeds the cap.
EscrowTypeOK ==
  /\ campaign.admin \in {"none", "account", "milestones"}
  /\ campaign.fee \in 0..MaxFee /\ campaign.pending_fee \in {NoFee} \cup 0..MaxFee
  /\ campaign.approved \in Int /\ campaign.total_raised \in Nat
  /\ contributions \in [Contributors -> Nat]
  /\ \A i \in DOMAIN milestones :
       milestones[i].status \in {"Pending", "Submitted", "Approved", "Rejected"}
  /\ purse \in [Accounts -> Nat] /\ withdrawn \in Nat

\* deposit and refund keep TotalRaised equal to the contributions it adds up, so success
\* and milestone shares are computed from what contributors can still claim.
RaisedIsContributed == campaign.total_raised = SumFunction(contributions)

\* A milestone's share is taken from the total at its approval, while deposits and refunds
\* go on.  Once the campaign has reached its target, the escrow covers every milestone that
\* is not approved yet, but for what execute_withdrawal, called from outside, has taken.
SuccessCoversMilestones ==
  campaign.admin = "milestones" /\ campaign.total_raised >= campaign.target =>
    purse[Vault] + withdrawn >=
      SumFunction([i \in DOMAIN milestones |->
                     IF milestones[i].status = "Approved" THEN 0 ELSE Release(i)])

\* A campaign past its deadline that reached its target never drops below it again, so
\* refunds never start while the creator is being paid.
SuccessIsFinal ==
  [][IsInitialized /\ now >= campaign.deadline /\ campaign.total_raised >= campaign.target =>
       campaign.total_raised' >= campaign.target']_<<now, escrowVars>>

\* The escrow keeps what it promises contributors and creator: totals are contributions, a success
\* covers the milestones but for releases from outside, and is final.
EscrowSound == [](EscrowTypeOK /\ RaisedIsContributed /\ SuccessCoversMilestones) /\ SuccessIsFinal
=============================================================================
