---------------------------- MODULE CreditLines -----------------------------
(***************************************************************************)
(* The debt ledger of the credit contract (contracts/credit/src): one      *)
(* credit line per borrower, its status machine, the interest that every   *)
(* mutating entrypoint capitalises first, the repayment schedule, the      *)
(* settlement of defaults, and the protocol-wide aggregates kept beside    *)
(* the lines (TotalUtilized, ActiveLineCount, PendingAuctionCount).        *)
(*                                                                         *)
(* A contract invocation is atomic: it either reverts, leaving no trace,   *)
(* or takes effect as a whole, so each entrypoint is one action, enabled   *)
(* exactly when the invocation would not revert.  Token movements,         *)
(* collateral, freezes and admin cooldowns only add reasons to revert and  *)
(* state of their own; here reserve and collateral are ample and no freeze *)
(* is in force.                                                            *)
(***************************************************************************)
EXTENDS CreditMath, FiniteSets, Functions

CONSTANTS
  Borrowers,      \* addresses that may hold a credit line
  Limits,         \* credit limits an admin may set
  Rates,          \* interest rates an admin may set
  Amounts,        \* amounts of draws, repayments, write-offs and recoveries
  ReverseAmounts, \* amounts of draw reversals
  SettlementIds,  \* settlement ids
  Schedules,      \* repayment schedules an admin may attach
  GraceConfigs,   \* [secs, waiver, rate]: suspension grace policies
  Surcharges,     \* penalty surcharges (legacy key)
  LateFees,       \* flat late fees (legacy key)
  LateFeeConfigs, \* [kind, value]: LateFeeConfig values
  ExposureCaps,   \* global exposure caps; 0 removes the cap
  CloseFactors,   \* protocol and per-settlement close factors
  RateLimits,     \* [on, delta, interval]: RateChangeConfig values
  DrawIntervals,  \* minimum seconds between draws
  CallMaxima,     \* largest amounts of one draw or of one repayment
  UtilCaps,       \* per-borrower utilization caps in bps; BPS is no cap
  BorrowerCaps,   \* per-borrower exposure caps; 0 removes the cap
  LiqGraces,      \* per-borrower liquidation grace periods; 0 is none
  ReverseWindow,  \* DRAW_REVERSAL_WINDOW_SECS
  MaxTs,          \* u64::MAX, where timestamps saturate
  MaxTime         \* bound of the model: the last ledger timestamp

ASSUME BorrowersAssumption == IsFiniteSet(Borrowers)
ASSUME InputsAssumption ==
  /\ Limits \subseteq Nat /\ Amounts \subseteq Nat /\ ReverseAmounts \subseteq Nat
  /\ Rates \subseteq 0..MaxRate
  /\ Schedules \subseteq [amount : Nat, period : Nat, due : Nat]
  /\ GraceConfigs \subseteq [secs : Nat, waiver : {"FullWaiver", "ReducedRate"}, rate : 0..MaxRate]
  /\ Surcharges \subseteq 0..MaxRate /\ LateFees \subseteq Nat
  /\ LateFeeConfigs \subseteq [kind : {"None", "Flat", "AprBased"}, value : Nat]
  /\ \A c \in LateFeeConfigs : c.kind = "AprBased" => c.value <= MaxRate
  /\ ExposureCaps \subseteq Nat /\ BorrowerCaps \subseteq Nat
  /\ CloseFactors \subseteq 1..BPS /\ UtilCaps \subseteq 1..BPS
  /\ RateLimits \subseteq [on : BOOLEAN, delta : Nat, interval : Nat]
  /\ DrawIntervals \subseteq Nat /\ LiqGraces \subseteq Nat /\ CallMaxima \subseteq Nat
  /\ ReverseWindow \in Nat /\ MaxTs \in Nat /\ MaxTime \in 1..MaxTs

VARIABLES
  now,                   \* ledger timestamp
  paused,                \* the emergency pause flag
  lines,                 \* CreditLineData of each borrower
  total_utilized,        \* TotalUtilized
  active_line_count,     \* ActiveLineCount
  pending_auction_count, \* PendingAuctionCount
  schedules,             \* RepaymentSchedule of each borrower
  last_draw_ts,          \* LastDrawTs of each borrower; 0 before the first draw
  draw_audit,            \* DrawAudit(borrower, ts) amounts still in the reversal window
  draw_reversed,         \* DrawReversedAmount(borrower, ts)
  settled,               \* consumed (borrower, settlement id) markers
  cfg,                   \* protocol-wide configuration
  caps                   \* per-borrower configuration

vars == <<now, paused, lines, total_utilized, active_line_count, pending_auction_count,
          schedules, last_draw_ts, draw_audit, draw_reversed, settled, cfg, caps>>

ledger   == <<lines, total_utilized, active_line_count>>
drawLog  == <<last_draw_ts, draw_audit, draw_reversed>>
settings == <<paused, cfg, caps>>

Times == 0..MaxTime

\* saturating_add on timestamps.
After(ts, secs) == MinOf(ts + secs, MaxTs)

Suspensions == {"Suspended", "SelfSuspended"}
Statuses    == {"Active", "Restricted", "Defaulted", "Closed"} \cup Suspensions

\* A borrower without a stored record reads as NoLine.
NoLine ==
  [status |-> "None", credit_limit |-> 0, utilized_amount |-> 0, accrued_interest |-> 0,
   interest_rate_bps |-> 0, last_accrual_ts |-> 0, last_rate_update_ts |-> 0,
   suspension_ts |-> 0]

Line ==
  [status : Statuses \cup {"None"}, credit_limit : Nat, utilized_amount : Int,
   accrued_interest : Int, interest_rate_bps : 0..MaxRate, last_accrual_ts : Nat,
   last_rate_update_ts : Nat, suspension_ts : Nat]

NoSchedule == [amount |-> 0, period |-> 0, due |-> 0]
Schedule   == [amount : Nat \ {0}, period : Nat \ {0}, due : Nat]

Exists(b)       == lines[b].status # "None"
HasSchedule(b)  == schedules[b] # NoSchedule
WithStatus(s)   == {b \in Borrowers : lines[b].status = s}
Utilized(ls)    == [b \in Borrowers |-> ls[b].utilized_amount]
-----------------------------------------------------------------------------
(* Interest *)

\* The surcharge that late-fee configuration adds to a delinquent line's rate.
PenaltySurcharge ==
  CASE cfg.late_fee_config.kind = "AprBased" -> cfg.late_fee_config.value
    [] cfg.late_fee_config.kind = "Flat"     -> 0
    [] OTHER                                 -> cfg.surcharge

IsDelinquent(b) ==
  /\ lines[b].status # "Closed" /\ lines[b].utilized_amount > 0
  /\ HasSchedule(b)
  /\ now > After(schedules[b].due, cfg.grace.secs)

EffectiveRate(b) ==
  IF IsDelinquent(b) /\ PenaltySurcharge > 0
  THEN MinOf(lines[b].interest_rate_bps + PenaltySurcharge, MaxRate)
  ELSE lines[b].interest_rate_bps

\* The part of the unaccrued period that lies in the line's suspension grace window.
GraceSecs(b) ==
  LET l == lines[b]
  IN  IF l.status \in Suspensions /\ cfg.grace.secs > 0
      THEN MaxOf(MinOf(now, After(l.suspension_ts, cfg.grace.secs)) - l.last_accrual_ts, 0)
      ELSE 0

GraceRate == IF cfg.grace.waiver = "FullWaiver" THEN 0 ELSE cfg.grace.rate

\* Interest due on b's line for the period since last_accrual_ts.
InterestDue(b) ==
  LET l == lines[b]
  IN  ProrateInterest(l.utilized_amount, GraceRate, GraceSecs(b))
        + ProrateInterest(l.utilized_amount, EffectiveRate(b),
                          now - l.last_accrual_ts - GraceSecs(b))

\* A negative balance is cast to u128 before the product, which then overflows unless rate
\* and seconds are zero (or both one, which is treated alike).
AccrualReverts(b) ==
  /\ lines[b].utilized_amount < 0 /\ now > lines[b].last_accrual_ts
  /\ \/ GraceRate > 0 /\ GraceSecs(b) > 0
     \/ EffectiveRate(b) > 0 /\ now - lines[b].last_accrual_ts > GraceSecs(b)

\* Mutant: the clock of a line without debt is left behind.
AccruedIdleClock(b) ==
  LET l == lines[b]
      i == InterestDue(b)
  IN  IF i > 0 THEN [l EXCEPT !.utilized_amount = @ + i, !.accrued_interest = @ + i,
                              !.last_accrual_ts = now]
      ELSE l

\* Mutant: a waived grace window is marked as used up to its end.
AccruedToGraceEnd(b) ==
  LET l == lines[b]
      i == InterestDue(b)
  IN  IF GraceSecs(b) > 0 THEN [l EXCEPT !.utilized_amount  = @ + i, !.accrued_interest = @ + i,
                                         !.last_accrual_ts  = After(l.suspension_ts, cfg.grace.secs)]
      ELSE IF l.utilized_amount = 0 THEN [l EXCEPT !.last_accrual_ts = now]
      ELSE IF i > 0 THEN [l EXCEPT !.utilized_amount = @ + i, !.accrued_interest = @ + i,
                                   !.last_accrual_ts = now]
      ELSE l

\* apply_accrual: b's line with the interest due capitalised.
Accrued(b) ==
  LET l == lines[b]
      i == InterestDue(b)
  IN  IF now <= l.last_accrual_ts THEN l
      ELSE IF l.utilized_amount = 0 THEN [l EXCEPT !.last_accrual_ts = now]
      ELSE IF i > 0 THEN [l EXCEPT !.utilized_amount  = @ + i,
                                   !.accrued_interest = @ + i,
                                   !.last_accrual_ts  = now]
      ELSE l

\* The head of every accruing handler: the record exists and its accrual does not revert.
Accruable(b) == Exists(b) /\ ~AccrualReverts(b)
-----------------------------------------------------------------------------
(* Persisting lines *)

\* Mutant: the delta is taken from the line after its accrual.
PersistCreditLineAfterAccrual(b, l) ==
  LET isActive  == l.status = "Active"
      wasActive == lines[b].status = "Active"
  IN  /\ lines' = [lines EXCEPT ![b] = l]
      /\ total_utilized' = total_utilized + l.utilized_amount - Accrued(b).utilized_amount
      /\ active_line_count' = IF isActive /\ ~wasActive THEN active_line_count + 1
                              ELSE IF wasActive /\ ~isActive THEN Decrement(active_line_count)
                              ELSE active_line_count

\* persist_credit_line for one line, whose status may change.  adjust_total_utilized
\* ends in an assertion that the accumulator is the sum of the stored lines; that it
\* never fails is TotalUtilizedConserved.
PersistCreditLine(b, l) ==
  LET isActive  == l.status = "Active"
      wasActive == lines[b].status = "Active"
  IN  /\ lines' = [lines EXCEPT ![b] = l]
      /\ total_utilized' = total_utilized + l.utilized_amount - lines[b].utilized_amount
      /\ active_line_count' = IF isActive /\ ~wasActive THEN active_line_count + 1
                              ELSE IF wasActive /\ ~isActive THEN Decrement(active_line_count)
                              ELSE active_line_count

\* persist_credit_line for several lines in turn, none of which changes status.
PersistDebts(new) ==
  LET growth == [b \in Borrowers |-> new[b].utilized_amount - lines[b].utilized_amount]
  IN  /\ lines' = new
      /\ total_utilized' = total_utilized + SumFunction(growth)
      /\ UNCHANGED active_line_count

\* Mutant: the counter is decremented without looking at the status.
EndAuctionUnchecked(b) == pending_auction_count' = pending_auction_count - 1

\* Mutant: leaving Defaulted does not end the auction.
EndAuctionForgotten(b) == UNCHANGED pending_auction_count

\* A line leaving Defaulted ends its auction.
EndAuction(b) ==
  pending_auction_count' = IF lines[b].status = "Defaulted"
                           THEN Decrement(pending_auction_count)
                           ELSE pending_auction_count
ClearSchedule(b) == schedules' = [schedules EXCEPT ![b] = NoSchedule]

NoActiveAuctions == pending_auction_count = 0
-----------------------------------------------------------------------------
(* Entrypoints that move debt *)

\* Mutant: the caps are compared with the stored debt, before the draw.
WithinBorrowerCapsStale(b, debt) ==
  /\ debt <= lines[b].credit_limit
  /\ lines[b].utilized_amount <= ApplyBps(lines[b].credit_limit, caps[b].util)
  /\ caps[b].exposure > 0 => lines[b].utilized_amount <= caps[b].exposure

\* The limits on one borrower's debt that a draw checks, after accrual.
WithinBorrowerCaps(b, debt) ==
  /\ debt <= lines[b].credit_limit
  /\ debt <= ApplyBps(lines[b].credit_limit, caps[b].util)
  /\ caps[b].exposure > 0 => debt <= caps[b].exposure

\* Mutant: the global cap is checked against stale debts.
AccrueAllExceptSkipped(b) == lines

\* accrue_all_except: every other stored line accrued.
AccrueAllExcept(b) == [x \in Borrowers |-> IF x # b /\ Exists(x) THEN Accrued(x) ELSE lines[x]]

\* draw_credit: under a global cap every other line is accrued, and stored, first.
DrawCredit(b, amount) ==
  LET l        == Accrued(b)
      drawn    == [l EXCEPT !.utilized_amount = @ + amount]
      isCapped == cfg.max_exposure > 0
      others   == IF isCapped THEN AccrueAllExcept(b) ELSE lines
  IN  /\ ~paused
      /\ amount > 0
      /\ cfg.max_draw > 0 => amount <= cfg.max_draw
      /\ Accruable(b)
      /\ l.status \in {"Active", "Restricted"}
      /\ last_draw_ts[b] # 0 => now >= After(last_draw_ts[b], cfg.draw_interval)
      /\ WithinBorrowerCaps(b, drawn.utilized_amount)
      /\ isCapped => \A x \in Borrowers : ~AccrualReverts(x)
      /\ PersistDebts([others EXCEPT ![b] = drawn])
      /\ isCapped => total_utilized' <= cfg.max_exposure
      /\ last_draw_ts' = [last_draw_ts EXCEPT ![b] = now]
      /\ draw_audit' = [draw_audit EXCEPT ![b][now] = amount]
      /\ UNCHANGED <<now, pending_auction_count, schedules, draw_reversed, settled, settings>>

\* advance_repayment_schedule_after_repay: one period per whole instalment of principal.
AdvanceSchedule(b, principal) ==
  schedules' = IF HasSchedule(b) /\ principal >= schedules[b].amount
               THEN [schedules EXCEPT ![b].due =
                       After(@, (principal \div schedules[b].amount) * schedules[b].period)]
               ELSE schedules

\* repay_credit: open to the borrower whatever the pause flag says.
RepayCredit(b, amount) ==
  LET l    == Accrued(b)
      owed == MaxOf(MinOf(l.accrued_interest, MaxOf(l.utilized_amount, 0)), 0)
      pay  == AllocateRepayment(l.utilized_amount, owed, amount)
  IN  /\ amount > 0
      /\ cfg.max_repay > 0 => amount <= cfg.max_repay
      /\ Accruable(b)
      /\ l.status # "Closed"
      /\ PersistCreditLine(b, [l EXCEPT
           !.accrued_interest = owed - pay.interest,
           !.utilized_amount  = MaxOf(l.utilized_amount - pay.effective, 0)])
      /\ AdvanceSchedule(b, pay.principal)
      /\ UNCHANGED <<now, pending_auction_count, drawLog, settled, settings>>

\* accrue_batch: anyone may capitalise the interest of active lines with debt.
AccrueBatch(batch) ==
  LET due == {b \in batch : lines[b].status = "Active" /\ lines[b].utilized_amount > 0}
  IN  /\ ~paused
      /\ PersistDebts([b \in Borrowers |-> IF b \in due THEN Accrued(b) ELSE lines[b]])
      /\ UNCHANGED <<now, pending_auction_count, schedules, drawLog, settled, settings>>

\* forgive_debt: admin write-off, interest first.
ForgiveDebt(b, amount) ==
  LET l        == Accrued(b)
      forgiven == MinOf(amount, l.utilized_amount)
      interest == MinOf(forgiven, l.accrued_interest)
  IN  /\ ~paused
      /\ amount > 0
      /\ Accruable(b)
      /\ l.status # "Closed"
      /\ l.utilized_amount # 0
      /\ PersistCreditLine(b, [l EXCEPT !.accrued_interest = @ - interest,
                                        !.utilized_amount  = @ - forgiven])
      /\ UNCHANGED <<now, pending_auction_count, schedules, drawLog, settled, settings>>

\* reverse_draw: an accounting-only correction of a draw made at timestamp ts.
ReverseDraw(b, amount, ts) ==
  LET l == Accrued(b)
  IN  /\ ~paused
      /\ amount > 0
      /\ now - ts <= ReverseWindow
      /\ Accruable(b)
      /\ draw_audit[b][ts] > 0
      /\ amount <= draw_audit[b][ts] - draw_reversed[b][ts]
      /\ PersistCreditLine(b, [l EXCEPT !.utilized_amount = @ - amount])
      /\ draw_reversed' = [draw_reversed EXCEPT ![b][ts] = @ + amount]
      /\ UNCHANGED <<now, pending_auction_count, schedules, last_draw_ts, draw_audit,
                     settled, settings>>

\* settle_default_liquidation: the accounting half of an auction's settlement.
SettleDefaultLiquidation(b, recovered, id, factor) ==
  LET l        == Accrued(b)
      repaid   == MinOf(recovered, l.utilized_amount)
      interest == MinOf(repaid, l.accrued_interest)
      left     == l.utilized_amount - repaid
      new      == [l EXCEPT !.accrued_interest = @ - interest,
                            !.utilized_amount  = left,
                            !.status = IF left = 0 THEN "Closed" ELSE @]
  IN  /\ recovered > 0
      /\ factor <= cfg.close_factor
      /\ <<b, id>> \notin settled
      /\ Accruable(b)
      /\ l.status = "Defaulted"
      /\ recovered <= ApplyBps(l.utilized_amount, factor)
      /\ PersistCreditLine(b, new)
      /\ IF new.status = "Closed"
         THEN EndAuction(b) /\ ClearSchedule(b)
         ELSE UNCHANGED <<pending_auction_count, schedules>>
      /\ settled' = settled \cup {<<b, id>>}
      /\ UNCHANGED <<now, drawLog, settings>>
-----------------------------------------------------------------------------
(* Lifecycle entrypoints *)

\* Mutant: a Closed line's debt comes back with it.
CarriesDebtFromClosed(b) == Exists(b)

\* open_credit_line keeps the debt and the clock of a line that exists and is not Closed.
CarriesDebt(b) == lines[b].status \notin {"None", "Closed"}

OpenCreditLine(b, limit, rate) ==
  LET old     == lines[b]
      carried == CarriesDebt(b)
  IN  /\ ~paused
      /\ limit > 0
      /\ rate <= MaxRate
      /\ old.status # "Active"
      /\ PersistCreditLine(b,
           [status |-> "Active", credit_limit |-> limit, interest_rate_bps |-> rate,
            utilized_amount     |-> IF carried THEN old.utilized_amount ELSE 0,
            accrued_interest    |-> IF carried THEN old.accrued_interest ELSE 0,
            last_accrual_ts     |-> IF carried THEN old.last_accrual_ts ELSE now,
            last_rate_update_ts |-> 0, suspension_ts |-> 0])
      /\ EndAuction(b)
      /\ ClearSchedule(b)
      /\ UNCHANGED <<now, drawLog, settled, settings>>

\* update_risk_parameters: new limit and rate, and the Active / Restricted switch.
UpdateRiskParameters(b, limit, rate) ==
  LET l       == Accrued(b)
      change  == rate # l.interest_rate_bps
      checked == cfg.rate_limits.on /\ change
      delta   == MaxOf(rate, l.interest_rate_bps) - MinOf(rate, l.interest_rate_bps)
  IN  /\ ~paused
      /\ Accruable(b)
      /\ checked => /\ delta <= cfg.rate_limits.delta
                    /\ l.last_rate_update_ts > 0 =>
                         now - l.last_rate_update_ts >= cfg.rate_limits.interval
      /\ rate <= MaxRate
      /\ PersistCreditLine(b, [l EXCEPT
           !.interest_rate_bps   = rate,
           !.credit_limit        = limit,
           !.last_rate_update_ts = IF checked THEN now ELSE @,
           !.status = IF l.utilized_amount > limit
                      THEN IF @ = "Active" THEN "Restricted" ELSE @
                      ELSE IF @ = "Restricted" THEN "Active" ELSE @])
      /\ UNCHANGED <<now, pending_auction_count, schedules, drawLog, settled, settings>>

\* suspend_credit_line_internal: an Active line is put on hold, by either party.
Suspend(b, target) ==
  LET l == Accrued(b)
  IN  /\ ~paused
      /\ Accruable(b)
      /\ l.status = "Active"
      /\ l.suspension_ts = 0 \/ now > l.suspension_ts
      /\ PersistCreditLine(b, [l EXCEPT !.status = target, !.suspension_ts = now])
      /\ UNCHANGED <<now, pending_auction_count, schedules, drawLog, settled, settings>>

SuspendCreditLine(b)     == Suspend(b, "Suspended")
SelfSuspendCreditLine(b) == Suspend(b, "SelfSuspended")

\* A suspension is lifted and its stamp reset.
Lift(b, sources) ==
  LET l == Accrued(b)
  IN  /\ ~paused
      /\ Accruable(b)
      /\ l.status \in sources
      /\ PersistCreditLine(b, [l EXCEPT !.status = "Active", !.suspension_ts = 0])
      /\ UNCHANGED <<now, pending_auction_count, schedules, drawLog, settled, settings>>

\* unsuspend_credit_line (admin) and self_unsuspend_credit_line (borrower).
UnsuspendCreditLine(b)     == Lift(b, Suspensions)
SelfUnsuspendCreditLine(b) == Lift(b, {"SelfSuspended"})

\* close_credit_line: no accrual; the admin may close over outstanding debt.
CloseCreditLine(b, closer) ==
  /\ ~paused
  /\ Exists(b)
  /\ lines[b].status # "Closed"
  /\ closer = "borrower" => lines[b].utilized_amount = 0
  /\ PersistCreditLine(b, [lines[b] EXCEPT !.status = "Closed"])
  /\ EndAuction(b)
  /\ ClearSchedule(b)
  /\ UNCHANGED <<now, drawLog, settled, settings>>

\* Mutant: a schedule takes precedence over a suspension.
GraceBaseScheduleFirst(b, l) ==
  IF HasSchedule(b) THEN schedules[b].due
  ELSE IF l.suspension_ts > 0 THEN l.suspension_ts
  ELSE IF l.last_rate_update_ts > 0 THEN l.last_rate_update_ts
  ELSE l.last_accrual_ts

\* The timestamp from which default_credit_line counts the liquidation grace.
GraceBase(b, l) ==
  IF l.suspension_ts > 0 THEN l.suspension_ts
  ELSE IF HasSchedule(b) THEN schedules[b].due
  ELSE IF l.last_rate_update_ts > 0 THEN l.last_rate_update_ts
  ELSE l.last_accrual_ts

DefaultAllowed(b) ==
  LET l == Accrued(b)
  IN  /\ Accruable(b)
      /\ l.status \in {"Active", "Restricted"} \cup Suspensions
      /\ caps[b].liq_grace > 0 => now >= After(GraceBase(b, l), caps[b].liq_grace)

DefaultCreditLine(b) ==
  /\ ~paused
  /\ DefaultAllowed(b)
  /\ pending_auction_count' = pending_auction_count + 1
  /\ PersistCreditLine(b, [Accrued(b) EXCEPT !.status = "Defaulted"])
  /\ UNCHANGED <<now, schedules, drawLog, settled, settings>>

ReinstateCreditLine(b, target) ==
  LET l == Accrued(b)
  IN  /\ ~paused
      /\ Accruable(b)
      /\ l.status = "Defaulted"
      /\ EndAuction(b)
      /\ PersistCreditLine(b, [l EXCEPT !.status = target, !.suspension_ts = 0])
      /\ UNCHANGED <<now, schedules, drawLog, settled, settings>>

SetRepaymentSchedule(b, schedule) ==
  /\ ~paused
  /\ schedule.amount > 0 /\ schedule.period > 0
  /\ Exists(b)
  /\ schedules' = [schedules EXCEPT ![b] = schedule]
  /\ UNCHANGED <<now, ledger, pending_auction_count, drawLog, settled, settings>>
-----------------------------------------------------------------------------
(* Configuration entrypoints *)

Configure(new) ==
  /\ cfg' = new
  /\ UNCHANGED <<now, paused, ledger, pending_auction_count, schedules, drawLog, settled, caps>>

SetGracePeriodConfig(g) == Configure([cfg EXCEPT !.grace = g])

\* Mutant: the check for pending auctions is missing.
SetLateFeeConfigUnguarded(c) == Configure([cfg EXCEPT !.late_fee_config = c])

\* Fee terms may not change while a defaulted line awaits its auction's settlement.
SetPenaltySurcharge(s) == ~paused /\ NoActiveAuctions /\ Configure([cfg EXCEPT !.surcharge = s])
SetLateFeeFlat(f)      == ~paused /\ NoActiveAuctions /\ Configure([cfg EXCEPT !.late_fee = f])
SetLateFeeConfig(c)    == NoActiveAuctions /\ Configure([cfg EXCEPT !.late_fee_config = c])

SetMaxTotalExposure(c)  == Configure([cfg EXCEPT !.max_exposure = c])
SetCloseFactor(f)       == Configure([cfg EXCEPT !.close_factor = f])
SetRateChangeLimits(r)  == ~paused /\ Configure([cfg EXCEPT !.rate_limits = r])
SetDrawMinInterval(i)   == ~paused /\ Configure([cfg EXCEPT !.draw_interval = i])

\* The largest draw and repayment of one call; once set, they can be changed but not removed.
SetMaxDrawAmount(m)  == ~paused /\ m > 0 /\ Configure([cfg EXCEPT !.max_draw = m])
SetMaxRepayAmount(m) == ~paused /\ m > 0 /\ Configure([cfg EXCEPT !.max_repay = m])

ConfigureBorrower(new) ==
  /\ caps' = new
  /\ UNCHANGED <<now, paused, ledger, pending_auction_count, schedules, drawLog, settled, cfg>>

SetUtilizationCap(b, c)      == ConfigureBorrower([caps EXCEPT ![b].util = c])
SetBorrowerExposureCap(b, c) == ConfigureBorrower([caps EXCEPT ![b].exposure = c])
SetLiquidationGrace(b, g) ==
  /\ ~paused
  /\ Exists(b) /\ lines[b].status # "Closed"
  /\ ConfigureBorrower([caps EXCEPT ![b].liq_grace = g])

SetProtocolPaused ==
  /\ paused' = ~paused
  /\ UNCHANGED <<now, ledger, pending_auction_count, schedules, drawLog, settled, cfg, caps>>

\* Ledger time passes.  Draw records too old to be reversed are never read again.
Tick ==
  /\ now < MaxTime
  /\ now' = now + 1
  /\ draw_audit' = [b \in Borrowers |-> [t \in Times |->
                     IF now' - t > ReverseWindow THEN 0 ELSE draw_audit[b][t]]]
  /\ UNCHANGED <<ledger, pending_auction_count, schedules, last_draw_ts, draw_reversed,
                 settled, settings>>
-----------------------------------------------------------------------------
Init ==
  /\ now = 1
  /\ paused = FALSE
  /\ lines = [b \in Borrowers |-> NoLine]
  /\ total_utilized = 0
  /\ active_line_count = 0
  /\ pending_auction_count = 0
  /\ schedules = [b \in Borrowers |-> NoSchedule]
  /\ last_draw_ts = [b \in Borrowers |-> 0]
  /\ draw_audit = [b \in Borrowers |-> [t \in Times |-> 0]]
  /\ draw_reversed = [b \in Borrowers |-> [t \in Times |-> 0]]
  /\ settled = {}
  /\ cfg = [grace |-> [secs |-> 0, waiver |-> "FullWaiver", rate |-> 0],
            surcharge |-> 0, late_fee |-> 0, late_fee_config |-> [kind |-> "None", value |-> 0],
            max_exposure |-> 0, close_factor |-> BPS, draw_interval |-> 0,
            max_draw |-> 0, max_repay |-> 0,
            rate_limits |-> [on |-> FALSE, delta |-> 0, interval |-> 0]]
  /\ caps = [b \in Borrowers |-> [util |-> BPS, exposure |-> 0, liq_grace |-> 0]]

\* Calls about one borrower's debt.
DebtStep(b) ==
  \/ \E a \in Amounts : DrawCredit(b, a)
  \/ \E a \in Amounts : RepayCredit(b, a)
  \/ \E a \in Amounts : ForgiveDebt(b, a)
  \/ \E a \in ReverseAmounts, ts \in Times : ReverseDraw(b, a, ts)
  \/ \E a \in Amounts, id \in SettlementIds, f \in CloseFactors :
       SettleDefaultLiquidation(b, a, id, f)

\* Calls about one borrower's status and terms.
LifecycleStep(b) ==
  \/ \E limit \in Limits, rate \in Rates : OpenCreditLine(b, limit, rate)
  \/ \E limit \in Limits, rate \in Rates : UpdateRiskParameters(b, limit, rate)
  \/ SuspendCreditLine(b)
  \/ SelfSuspendCreditLine(b)
  \/ UnsuspendCreditLine(b)
  \/ SelfUnsuspendCreditLine(b)
  \/ \E closer \in {"admin", "borrower"} : CloseCreditLine(b, closer)
  \/ DefaultCreditLine(b)
  \/ \E target \in {"Active", "Restricted"} : ReinstateCreditLine(b, target)
  \/ \E s \in Schedules : SetRepaymentSchedule(b, s)
  \/ \E c \in UtilCaps : SetUtilizationCap(b, c)
  \/ \E c \in BorrowerCaps : SetBorrowerExposureCap(b, c)
  \/ \E g \in LiqGraces : SetLiquidationGrace(b, g)

\* Calls about the protocol as a whole.
ConfigStep ==
  \/ \E g \in GraceConfigs : SetGracePeriodConfig(g)
  \/ \E s \in Surcharges : SetPenaltySurcharge(s)
  \/ \E f \in LateFees : SetLateFeeFlat(f)
  \/ \E c \in LateFeeConfigs : SetLateFeeConfig(c)
  \/ \E c \in ExposureCaps : SetMaxTotalExposure(c)
  \/ \E f \in CloseFactors : SetCloseFactor(f)
  \/ \E r \in RateLimits : SetRateChangeLimits(r)
  \/ \E i \in DrawIntervals : SetDrawMinInterval(i)
  \/ \E m \in CallMaxima : SetMaxDrawAmount(m)
  \/ \E m \in CallMaxima : SetMaxRepayAmount(m)
  \/ SetProtocolPaused

Next ==
  \/ Tick
  \/ \E b \in Borrowers : DebtStep(b) \/ LifecycleStep(b)
  \/ \E batch \in SUBSET Borrowers : AccrueBatch(batch)
  \/ ConfigStep

Spec == Init /\ [][Next]_vars
-----------------------------------------------------------------------------
(* Type invariant *)

Config ==
  [grace : [secs : Nat, waiver : {"FullWaiver", "ReducedRate"}, rate : 0..MaxRate],
   surcharge : 0..MaxRate, late_fee : Nat,
   late_fee_config : [kind : {"None", "Flat", "AprBased"}, value : Nat],
   max_exposure : Nat, close_factor : 1..BPS, draw_interval : Nat,
   max_draw : Nat, max_repay : Nat,
   rate_limits : [on : BOOLEAN, delta : Nat, interval : Nat]]

LedgerTypeOK ==
  /\ lines \in [Borrowers -> Line]
  /\ active_line_count \in Nat
  /\ pending_auction_count \in Nat

ContextTypeOK ==
  /\ now \in Times \ {0}
  /\ paused \in BOOLEAN
  /\ schedules \in [Borrowers -> Schedule \cup {NoSchedule}]
  /\ last_draw_ts \in [Borrowers -> Nat]
  /\ draw_audit \in [Borrowers -> [Times -> Nat]]
  /\ draw_reversed \in [Borrowers -> [Times -> Nat]]
  /\ settled \subseteq Borrowers \X SettlementIds
  /\ cfg \in Config
  /\ caps \in [Borrowers -> [util : 1..BPS, exposure : Nat, liq_grace : Nat]]

\* Every variable keeps the type its storage entry has in the contract; the
\* accumulator total_utilized is pinned down by TotalUtilizedConserved instead.
TypeOK == LedgerTypeOK /\ ContextTypeOK
-----------------------------------------------------------------------------
(* Safety invariants *)

\* persist_credit_line keeps TotalUtilized equal to the sum of utilized_amount over
\* every stored line, closed ones included, through draws, accruals of other
\* borrowers' lines, reversals, write-offs, settlements and re-openings.
TotalUtilizedConserved == total_utilized = SumFunction(Utilized(lines))

\* ActiveLineCount, moved by persist_credit_line from the previous status each caller
\* passes in, counts exactly the Active lines.
ActiveLineCountExact == active_line_count = Cardinality(WithStatus("Active"))

\* PendingAuctionCount, moved by hand in five lifecycle handlers with a saturating
\* decrement, counts exactly the Defaulted lines: every way out of Defaulted
\* (settle, close, reinstate, re-open) ends exactly one auction.
PendingAuctionCountExact == pending_auction_count = Cardinality(WithStatus("Defaulted"))

\* Both counters are exact, so neither saturating decrement ever saturates.
CountersExact == ActiveLineCountExact /\ PendingAuctionCountExact

\* A line's suspension timestamp is set exactly while it is suspended, so the grace
\* window apply_accrual and default_credit_line measure from it is the current one and
\* the TimestampRegression check of suspend_credit_line can never refuse a first
\* suspension.  Defaulted and Closed lines may keep the stamp they had.
SuspensionStampSound ==
  \A b \in Borrowers :
    /\ lines[b].status \in {"None", "Active", "Restricted"} => lines[b].suspension_ts = 0
    /\ lines[b].status \in Suspensions => lines[b].suspension_ts \in 1..now

\* No interest clock is ahead of the ledger, so the unsigned difference
\* now - last_accrual_ts in apply_accrual never wraps.
AccrualClockNotAhead == \A b \in Borrowers : lines[b].last_accrual_ts <= now

\* No time apply_accrual and default_credit_line measure from is left over or in the future.
StampsSound == SuspensionStampSound /\ AccrualClockNotAhead

\* None of b's draws has been reversed.
Unreversed(b) == \A t \in Times : draw_reversed[b][t] = 0

\* As long as none of a borrower's draws has been reversed, the interest part of the
\* debt stays between zero and the debt, whatever order draws, repayments, write-offs
\* and settlements come in.
InterestWithinDebt ==
  \A b \in Borrowers :
    Unreversed(b) => /\ 0 <= lines[b].accrued_interest
                     /\ lines[b].accrued_interest <= lines[b].utilized_amount
-----------------------------------------------------------------------------
(* Action properties *)

StatusOf(b) == lines[b].status

\* Interest is charged only for time in which there was debt: when a line without debt
\* takes on debt its interest clock is reset to that moment.
FreshDebtStartsClock ==
  [][\A b \in Borrowers :
       lines[b].utilized_amount = 0 /\ lines'[b].utilized_amount > 0 =>
         lines'[b].last_accrual_ts = now]_vars

\* What the other borrowers owe, interest not yet capitalised included.
OwedByOthers(b) ==
  SumFunction([x \in Borrowers |-> IF x = b \/ ~Exists(x) THEN 0 ELSE Accrued(x).utilized_amount])

\* A draw leaves the borrower within the credit limit, the utilization cap and the
\* borrower's exposure cap, and the protocol within the global cap, with every interest
\* already owed counted, the other borrowers' uncapitalised interest included.  Only a
\* draw lifts a debt above its accrued value.
DrawWithinCaps ==
  [][\A b \in Borrowers :
       LET debt == lines'[b].utilized_amount
       IN  lines[b].utilized_amount >= 0 /\ debt > Accrued(b).utilized_amount =>
             /\ debt <= MinOf(lines[b].credit_limit, ApplyBps(lines[b].credit_limit, caps[b].util))
             /\ caps[b].exposure > 0 => debt <= caps[b].exposure
             /\ cfg.max_exposure > 0 => debt + OwedByOthers(b)' <= cfg.max_exposure]_vars

\* A suspended borrower whose line has a liquidation grace is never defaulted before the
\* grace counted from the suspension has passed, whatever schedule or rate change came
\* after it.  The end of the grace saturates at u64::MAX, as it does in the code.
DefaultWaitsOutGrace ==
  [][\A b \in Borrowers :
       StatusOf(b) \in Suspensions /\ StatusOf(b)' = "Defaulted" =>
         now >= After(lines[b].suspension_ts, caps[b].liq_grace)]_vars

\* A Closed line comes back only through open_credit_line, Active, with no debt and a
\* new interest clock, whatever debt it was force-closed over.
ClosedLineReopensEmpty ==
  [][\A b \in Borrowers :
       StatusOf(b) = "Closed" /\ StatusOf(b)' # "Closed" =>
         /\ StatusOf(b)' = "Active"
         /\ lines'[b].utilized_amount = 0 /\ lines'[b].accrued_interest = 0
         /\ lines'[b].last_accrual_ts = now]_vars
-----------------------------------------------------------------------------
(* Refinement *)

Machine == INSTANCE StatusMachine WITH
  status   <- [b \in Borrowers |-> lines[b].status],
  auctions <- pending_auction_count,
  fees     <- <<cfg.surcharge, cfg.late_fee, cfg.late_fee_config>>

\* The ledger implements the documented status machine: whatever entrypoints are called
\* in whatever order, a line's status follows the documented edges, PendingAuctionCount
\* moves with it (the saturating decrement never saturates), and the fee terms an
\* auction was opened under stay in force until no Defaulted line is left.
StatusMachineImplemented == Machine!Spec
=============================================================================
