----------------------------- MODULE MCEventLog -----------------------------
(***************************************************************************)
(* Values of the constants of EventLog for model checking.  A set that is  *)
(* empty in a run switches the calls that draw from it off.                *)
(***************************************************************************)
EXTENDS EventLog

None == {}

FlatFee == {[kind |-> "Flat", value |-> 1]}

\* One unit per time unit, first due at 2.
UnitSchedule == {[amount |-> 1, period |-> 1, due |-> 2]}

\* Draws are reversed and schedules set while there is a single line and no other setting,
\* and a global cap, a close factor or a late fee is in force beside no other setting.
Focus ==
  /\ (\E b \in Borrowers : ~Unreversed(b) \/ HasSchedule(b)) =>
       Cardinality({b \in Borrowers : Exists(b)}) = 1 /\ cfg.max_exposure = 0
  /\ cfg.max_exposure > 0 \/ (\E b \in Borrowers : ~Unreversed(b) \/ HasSchedule(b)) =>
       cfg.close_factor = BPS /\ cfg.late_fee_config.kind = "None"
  /\ cfg.close_factor = BPS \/ cfg.late_fee_config.kind = "None"
=============================================================================
