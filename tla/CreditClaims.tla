---------------------------- MODULE CreditClaims ----------------------------
(***************************************************************************)
(* Statements the repository's documents and comments make about the debt  *)
(* ledger.  Each is checked on its own against CreditLines and refuted by  *)
(* what the code does; the findings say where and how.                     *)
(***************************************************************************)
EXTENDS CreditLines

\* risk.rs: update_risk_parameters accrues before it mutates, so "the borrower is never
\* charged the new rate on debt accrued under the old rate": when the rate of an Active
\* line with debt changes, the old rate's period has been closed at that moment.
RateChangeNotRetroactive ==
  [][\A b \in Borrowers :
       /\ StatusOf(b) = "Active"
       /\ lines'[b].interest_rate_bps # lines[b].interest_rate_bps
       /\ lines'[b].utilized_amount > 0
       => lines'[b].last_accrual_ts = now]_vars

\* PROTOCOL_SPEC.md: "Repayment never blocked except for Closed."
RepaymentNeverBlocked ==
  \A b \in Borrowers :
    StatusOf(b) \notin {"None", "Closed"} => \E a \in Amounts : ENABLED RepayCredit(b, a)
=============================================================================
