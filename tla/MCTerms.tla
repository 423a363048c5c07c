------------------------------ MODULE MCTerms -------------------------------
(***************************************************************************)
(* The terms of a line for model checking, each behaviour under one group  *)
(* of settings: interest with grace windows and reversals ("interest"), or *)
(* caps, a liquidation grace, a schedule and rate limits ("terms").        *)
(***************************************************************************)
EXTENDS MCCreditLines

VARIABLE part

RatesOf == [interest |-> {4}, terms |-> {2, 3}]
LastTime == [interest |-> 4, terms |-> 3]

\* Settings of the other part stay as they are at the start; rate-change limits are in force
\* beside no cap, and a least interval between draws beside no grace.
Within ==
  /\ now <= LastTime[part]
  /\ \A b \in Borrowers : Exists(b) => lines[b].interest_rate_bps \in RatesOf[part]
  /\ part = "terms" => /\ cfg.grace.secs = 0 /\ cfg.draw_interval = 0
                       /\ \A b \in Borrowers, t \in Times : draw_reversed[b][t] = 0
                       /\ cfg.rate_limits.on => \A b \in Borrowers : caps[b].util = BPS /\ caps[b].exposure = 0
  /\ part = "interest" => /\ cfg.surcharge = 0 /\ ~cfg.rate_limits.on
                          /\ cfg.draw_interval > 0 => cfg.grace.secs = 0
                          /\ \A b \in Borrowers : /\ ~HasSchedule(b)
                                                  /\ caps[b] = [util |-> BPS, exposure |-> 0, liq_grace |-> 0]

PartInit == part \in DOMAIN LastTime /\ Init
PartNext == Next /\ UNCHANGED part /\ Within'
PartSpec == PartInit /\ [][PartNext]_<<vars, part>>
=============================================================================
