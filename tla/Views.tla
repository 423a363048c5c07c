------------------------------- MODULE Views --------------------------------
(***************************************************************************)
(* The read-only views of the credit contract that keepers and dashboards  *)
(* act on: health factor, collateral state, line snapshot and the query    *)
(* capabilities.  A view reads the stored state and accrues nothing; each  *)
(* is an operator over the state of CreditVault.                           *)
(***************************************************************************)
EXTENDS CreditVault

CONSTANT MaxHealth  \* u32::MAX, where a health factor saturates: no debt to worry about

ASSUME HealthAssumption == MaxHealth \in Nat /\ MaxHealth > BPS

StoredDebt(b) == lines[b].utilized_amount

\* Mutant: the requirement is rounded down, as the formula in the documentation reads.
HealthFactorFloors(b) ==
  LET required == ApplyBps(StoredDebt(b), vault.min_ratio)
  IN  IF StoredDebt(b) <= 0 \/ vault.min_ratio = 0 \/ required = 0
      THEN MaxHealth
      ELSE MinOf((Weighted(collateral[b]) * BPS) \div required, MaxHealth)

\* get_health_factor: weighted collateral over the requirement of the stored debt, with the
\* draw's rounding.
HealthFactor(b) ==
  LET required == RequiredCollateral(StoredDebt(b))
  IN  IF StoredDebt(b) <= 0 \/ vault.min_ratio = 0
      THEN MaxHealth
      ELSE MinOf((Weighted(collateral[b]) * BPS) \div required, MaxHealth)

\* get_collateral_state: the raw ratio, neither weighted nor compared with the minimum.
CollateralState(b) ==
  [balance |-> collateral[b], min_ratio_bps |-> vault.min_ratio,
   health_factor_bps |-> IF StoredDebt(b) <= 0 THEN MaxHealth
                         ELSE MinOf((collateral[b] * BPS) \div StoredDebt(b), MaxHealth)]

\* get_credit_line_snapshot; a borrower without a line has none.
CreditLineSnapshot(b) ==
  [line |-> lines[b], collateral_balance |-> collateral[b], health_factor_bps |-> HealthFactor(b),
   repayment_schedule |-> schedules[b], is_delinquent |-> IsDelinquent(b)]

\* query_capabilities: which of the borrower's queries say anything.
QueryCapabilities(b) ==
  LET owes  == StoredDebt(b) > 0
      gates == lines[b].status # "Closed" /\ owes /\ HasSchedule(b)
  IN  [has_credit_line |-> Exists(b), has_repayment_schedule |-> HasSchedule(b),
       health_factor_applicable |-> owes, delinquency_applicable |-> gates,
       is_delinquent |-> gates /\ IsDelinquent(b)]
-----------------------------------------------------------------------------
(* What a reader may conclude *)

\* A keeper's threshold is the draw's: the health factor is below one exactly when the
\* weighted collateral is below what the same debt would require of a draw, whatever the
\* rounding of weight, requirement and quotient; and the snapshot carries that factor.
HealthSignalExact ==
  \A b \in Borrowers :
    StoredDebt(b) > 0 =>
      (CreditLineSnapshot(b).health_factor_bps < BPS
         <=> Weighted(collateral[b]) < RequiredCollateral(StoredDebt(b)))

\* The factor a reader of the documentation computes: collateral at face value.
FaceValueFactor(b) ==
  MinOf((collateral[b] * BPS) \div RequiredCollateral(StoredDebt(b)), MaxHealth)

\* Code and documentation of get_health_factor disagree on the risk weight: query.rs:103-104 says
\* "No risk weights or haircuts: Collateral units are weighted 1:1" (docs/credit.md:814 likewise),
\* the code takes the weighted value, as the draw does.  The disagreement is on the safe side: the
\* factor never exceeds the documented one, and is that one where the weight is 100%.
WeightOnlyLowersHealth ==
  \A b \in Borrowers :
    StoredDebt(b) > 0 /\ vault.min_ratio > 0 =>
      /\ HealthFactor(b) <= FaceValueFactor(b)
      /\ vault.weight = BPS => HealthFactor(b) = FaceValueFactor(b)

\* A client that follows the capabilities misses nothing: a line they call not delinquent is
\* not, and where they call the health factor idle it shows no debt.
QueryViewHonest ==
  \A b \in Borrowers :
    LET may == QueryCapabilities(b)
    IN  /\ may.is_delinquent <=> CreditLineSnapshot(b).is_delinquent
        /\ ~may.health_factor_applicable => HealthFactor(b) = MaxHealth
                                            /\ CollateralState(b).health_factor_bps = MaxHealth

\* draw_credit leaves the line healthy: whoever takes out tokens against the line is, by the
\* views' measure and right after the draw, not a candidate for liquidation.
DrawLeavesHealthy ==
  [][\A b \in Borrowers :
       balance'[b] > balance[b] /\ collateral'[b] = collateral[b] => HealthFactor(b)' >= BPS]_allVars

\* The reader's conclusions, in one property: the signal, what the risk weight does to it, the
\* capabilities and the state right after a draw.
ViewsSound == [](HealthSignalExact /\ WeightOnlyLowersHealth /\ QueryViewHonest) /\ DrawLeavesHealthy
=============================================================================
