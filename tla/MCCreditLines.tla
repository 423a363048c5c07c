--------------------------- MODULE MCCreditLines ----------------------------
(***************************************************************************)
(* Values of the constants of CreditLines for model checking.  A set that  *)
(* is empty in a run switches the calls that draw from it off.             *)
(***************************************************************************)
EXTENDS CreditClaims

None == {}

\* Suspension grace policies.
GraceBoth == {[secs |-> 1, waiver |-> "FullWaiver", rate |-> 0],
              [secs |-> 2, waiver |-> "ReducedRate", rate |-> 1]}

\* Repayment schedules: an instalment of one unit every time unit, first due at 2.
UnitSchedule == {[amount |-> 1, period |-> 1, due |-> 2]}

FlatFee == {[kind |-> "Flat", value |-> 1]}

OneBpsPerUnit == {[on |-> TRUE, delta |-> 1, interval |-> 1]}
=============================================================================
