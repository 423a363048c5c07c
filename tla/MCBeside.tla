------------------------------ MODULE MCBeside ------------------------------
(***************************************************************************)
(* The contracts that do not meet the credit contract, for model checking: *)
(* creditra-credit, one part of its interface at a time and with bounds of *)
(* its own, the escrow with its milestones, and crowdpay.                  *)
(***************************************************************************)
EXTENDS Beside

CONSTANTS x, y, c2  \* the two denoms, and a contributor
VARIABLE part  \* the contract, or the part of its interface, that a behaviour uses

Init ==
  /\ now = 0
  /\ part \in {"trail", "fees", "collateral", "oracles", "prices", "policies", "escrow", "crowdpay"}
  /\ CosmInit /\ SettingsInit
  /\ EscrowInit /\ CrowdInit

TickOnly == Tick /\ UNCHANGED <<cosmVars, settingsVars>>

\* What a part is not about stays small in it: one line where lines do not interact, and with
\* collateral no draw is annotated, a client holds at most MaxHeld of a denom, and there are at
\* most two such holdings; at most MaxWithdrawn leaves the escrow outside milestones, and of the
\* two contributors one may be paid out of it.
MaxHeld == 2
MaxWithdrawn == 2
Bounded ==
  /\ part \in {"trail", "oracles", "escrow"} => now <= 2
  /\ part \in {"trail", "fees"} => Len(clines) <= 1
  /\ part = "trail" => \A i \in DOMAIN draws : \A w \in Range(draws[i]) : w.amount = 1 /\ w.denom = y
  /\ part = "escrow" => withdrawn <= MaxWithdrawn /\ purse[c2] + contributions[c2] <= Funds
  /\ part = "collateral" =>
       /\ \A i \in DOMAIN draws : \A w \in Range(draws[i]) : w.amount = 2 /\ w.denom = y
       /\ \A i \in DOMAIN audit : \A j \in DOMAIN audit[i] :
            Len(audit[i][j]) <= 2 /\ audit[i][j][Len(audit[i][j])].action # "MemoAdded"
       /\ \A c \in Clients, d \in Denoms : balances[c][d] <= MaxHeld
       /\ Cardinality({<<c, d>> \in Clients \X Denoms : balances[c][d] > 0}) <= 2

CosmNext ==
  \/ part \in {"trail", "fees", "collateral"} /\ LedgerNext /\ UNCHANGED settingsVars
  \/ part = "trail" /\ ReaderNext /\ UNCHANGED settingsVars
  \/ part = "fees" /\ FeeNext /\ UNCHANGED settingsVars
  \/ part = "collateral" /\ CollateralNext /\ UNCHANGED settingsVars
  \/ part = "oracles" /\ OracleNext /\ UNCHANGED cosmVars
  \/ part = "prices" /\ PriceNext /\ UNCHANGED cosmVars
  \/ part = "policies" /\ PolicyNext /\ UNCHANGED cosmVars
  \/ part \in {"trail", "oracles", "prices"} /\ TickOnly

Next ==
  /\ UNCHANGED part
  /\ \/ CosmNext /\ UNCHANGED <<escrowVars, crowdVars>>
     \/ part = "escrow" /\ EscrowNext /\ UNCHANGED <<crowdVars, cosmVars, settingsVars>>
     \/ part = "crowdpay" /\ CrowdNext /\ UNCHANGED <<escrowVars, cosmVars, settingsVars>>
  /\ Bounded'

vars == <<now, part, cosmVars, settingsVars, escrowVars, crowdVars>>

Spec == Init /\ [][Next]_vars /\ CrowdFairness

Terms(cd, ca, kd, ka) ==
  [collateral_denom |-> cd, collateral_amount |-> ca, credit_denom |-> kd, credit_amount |-> ka]
TwoTerms == {Terms(x, 1, y, 3), Terms(y, 0, y, 0)}
Quorums == {[k |-> k, deviation |-> d, age |-> 1] : k \in {1, 2, 3}, d \in {0, 2}}
TwoFees == {[kind |-> k, value |-> v] : k \in {"Flat", "AprBased"}, v \in {0, 5}}
SomeVersions == [major : 1..2, minor : 0..2]
Planned(bps, status) == [release_bps |-> bps, status |-> status]
TwoPlans == {<<Planned(1, "Pending"), Planned(3, "Pending")>>,
             <<Planned(2, "Approved"), Planned(2, "Submitted")>>,
             <<Planned(4, "Pending")>>, <<Planned(3, "Pending"), Planned(2, "Pending")>>}
SomeWithdrawals == {-2, 2}
TwoRungs == {<<2, 3>>}
=============================================================================
