------------------------------ MODULE CrowdPay ------------------------------
(***************************************************************************)
(* The crowdpay contract (contracts/soroban/contracts/crowdpay): backers   *)
(* contribute until a deadline, the creator releases milestones, and a     *)
(* campaign that is set Failed pays its backers back.                      *)
(***************************************************************************)
EXTENDS Host, FiniteSets, Functions

CONSTANTS
  Backers,
  Savings,        \* token balance of a backer at the start
  Pledges,        \* amounts of contributions
  Goals,          \* campaign goals
  Ends,           \* campaign deadlines
  Ladders         \* milestone targets, as sequences

Till == "crowdpay"
Owner == "owner"

ASSUME CrowdAssumption ==
  /\ IsFiniteSet(Backers) /\ Backers \cap {Till, Owner} = {} /\ Savings \in Nat
  /\ Pledges \subseteq Nat /\ Goals \subseteq Nat /\ Ends \subseteq Nat
  /\ \A l \in Ladders : l \in [DOMAIN l -> Nat]

VARIABLES
  crowd,          \* instance storage: status, goal, deadline, total_raised
  released,       \* Milestones: the target of each and whether it was released
  pledged,        \* Contributions
  wallets         \* token balances

crowdVars == <<crowd, released, pledged, wallets>>

CrowdInit ==
  /\ crowd = [status |-> "None", goal |-> 0, deadline |-> 0, total_raised |-> 0]
  /\ released = << >>
  /\ pledged = [b \in Backers |-> 0]
  /\ wallets = [a \in Backers \cup {Till, Owner} |-> IF a \in Backers THEN Savings ELSE 0]
-----------------------------------------------------------------------------
InitializeCrowd(goal, deadline, ladder) ==
  /\ crowd.status = "None"
  /\ crowd' = [status |-> "Active", goal |-> goal, deadline |-> deadline, total_raised |-> 0]
  /\ released' = [i \in DOMAIN ladder |-> [target |-> ladder[i], released |-> FALSE]]
  /\ UNCHANGED <<now, pledged, wallets>>

Contribute(b, amount) ==
  LET total == crowd.total_raised + amount
  IN  /\ crowd.status \in {"Active", "Funded"}
      /\ now < crowd.deadline
      /\ wallets[b] >= amount
      /\ wallets' = Transfer(wallets, b, Till, amount)
      /\ pledged' = [pledged EXCEPT ![b] = @ + amount]
      /\ crowd' = [crowd EXCEPT !.total_raised = total,
                                !.status = IF total >= crowd.goal THEN "Funded" ELSE @]
      /\ UNCHANGED <<now, released>>

\* The whole balance goes to the creator, whichever milestone it is.
ReleaseMilestone(i) ==
  /\ crowd.status # "None"
  /\ ~released[i].released
  /\ crowd.total_raised >= released[i].target
  /\ released' = [released EXCEPT ![i].released = TRUE]
  /\ wallets' = Transfer(wallets, Till, Owner, wallets[Till])
  /\ UNCHANGED <<now, crowd, pledged>>

\* Mutant: the contribution is not cleared.
RefundTwice(b) ==
  /\ crowd.status = "Failed"
  /\ pledged[b] > 0
  /\ wallets[Till] >= pledged[b]
  /\ wallets' = Transfer(wallets, Till, b, pledged[b])
  /\ UNCHANGED <<now, crowd, released, pledged>>

RefundBacker(b) ==
  /\ crowd.status = "Failed"
  /\ pledged[b] > 0
  /\ wallets[Till] >= pledged[b]
  /\ wallets' = Transfer(wallets, Till, b, pledged[b])
  /\ pledged' = [pledged EXCEPT ![b] = 0]
  /\ UNCHANGED <<now, crowd, released>>

\* Mutant: only the creator may declare the failure.
SetFailedByCreator(by) ==
  /\ crowd.status # "None"
  /\ by = "creator"
  /\ crowd' = [crowd EXCEPT !.status = "Failed"]
  /\ UNCHANGED <<now, released, pledged, wallets>>

SetFailed(by) ==
  /\ crowd.status # "None"
  /\ by = "creator" \/ (now >= crowd.deadline /\ crowd.total_raised < crowd.goal)
  /\ crowd' = [crowd EXCEPT !.status = "Failed"]
  /\ UNCHANGED <<now, released, pledged, wallets>>
-----------------------------------------------------------------------------
CrowdNext ==
  \/ \E g \in Goals, d \in Ends, l \in Ladders : InitializeCrowd(g, d, l)
  \/ \E b \in Backers, a \in Pledges : Contribute(b, a)
  \/ \E i \in DOMAIN released : ReleaseMilestone(i)
  \/ \E b \in Backers : RefundBacker(b)
  \/ \E by \in {"creator", "anyone"} : SetFailed(by)
  \/ Tick /\ UNCHANGED crowdVars

\* Time passes, an unfunded campaign is declared failed by someone, and a backer of a
\* failed campaign asks for the money back.  Nothing is assumed of the creator.
CrowdFairness ==
  /\ WF_<<now, crowdVars>>(crowd.status # "None" /\ Tick /\ UNCHANGED crowdVars)
  /\ WF_<<now, crowdVars>>(SetFailed("anyone"))
  /\ \A b \in Backers : WF_<<now, crowdVars>>(RefundBacker(b))
-----------------------------------------------------------------------------
NothingReleased == \A i \in DOMAIN released : ~released[i].released

\* Until the creator takes a milestone the contract holds exactly what its backers can
\* claim, through contributions, the failure and refunds in any order: no refund is paid
\* with another backer's money.
RefundsCovered == NothingReleased => wallets[Till] = SumFunction(pledged)

\* An unfunded campaign does not depend on its creator: after the deadline every backer
\* gets the money back, unless the creator has taken a milestone.
UnfundedIsRefunded ==
  \A b \in Backers :
    crowd.status # "None" /\ now >= crowd.deadline /\ crowd.total_raised < crowd.goal
      ~> pledged[b] = 0 \/ ~NothingReleased
=============================================================================
