------------------------------ MODULE EventLog ------------------------------
(***************************************************************************)
(* The events of the debt ledger, and an indexer that follows them.        *)
(* Every handler of CreditLines that publishes is conjoined with the       *)
(* events of its code, in their order, accrual events first; the others    *)
(* are silent.  The indexer reads them in ledger order and keeps of each   *)
(* borrower what the payloads tell.  Timestamps, scores and reasons are    *)
(* left out of the payloads.                                               *)
(***************************************************************************)
EXTENDS CreditLines, SequencesExt

VARIABLE book  \* per borrower: status, limit and rate last seen, debt as last reported,
               \* the sum of all reported amounts, and whether a penalty rate is in force

eventVars == <<vars, book>>

-----------------------------------------------------------------------------
(* Payloads *)

\* CreditLineEvent and BorrowLifecycleEvent: the line's status and terms, no or the new debt.
CreditLineEvent(topic, b, l) ==
  [topic |-> topic, borrower |-> b, status |-> l.status, limit |-> l.credit_limit,
   rate |-> l.interest_rate_bps]
BorrowLifecycleEvent(b, l) ==
  [topic |-> "borrow_lc", borrower |-> b, status |-> l.status, limit |-> l.credit_limit,
   rate |-> l.interest_rate_bps, debt |-> l.utilized_amount]

\* RiskParametersUpdatedEvent: the new terms, without the status they may change.
RiskParametersUpdatedEvent(b, l) ==
  [topic |-> "risk_upd", borrower |-> b, limit |-> l.credit_limit, rate |-> l.interest_rate_bps]

\* The events that report an amount and the debt after it; the request for a liquidation
\* changes nothing.  delta is the amount, negative where the event lowers the debt.
DebtEvent(topic, b, delta, debt) ==
  [topic |-> topic, borrower |-> b, delta |-> delta, debt |-> debt]

InterestAccruedEvent(b, amount, debt)  == DebtEvent("accrue", b, amount, debt)
DrawnEvent(b, amount, debt)            == DebtEvent("drawn", b, amount, debt)
RepaymentEvent(b, amount, debt)        == DebtEvent("repay", b, -amount, debt)
DrawReversedEvent(b, amount, debt)     == DebtEvent("draw_rev", b, -amount, debt)
DebtForgivenEvent(b, amount, debt)     == DebtEvent("debt_frgv", b, -amount, debt)
LiquidationSettledEvent(b, amount, debt) == DebtEvent("liq_setl", b, -amount, debt)
LiquidationRequestedEvent(b, debt)     == DebtEvent("liq_req", b, 0, debt)

PenaltyRateEnteredEvent(b) == [topic |-> "pen_enter", borrower |-> b]
PenaltyRateExitedEvent(b)  == [topic |-> "pen_exit", borrower |-> b]
-----------------------------------------------------------------------------
(* The indexer *)

\* Terms and status: opened starts a new debt unless the line was open before, and a change
\* of terms moves an Active or Restricted line to the side its debt is on.
Follow(bk, e) ==
  LET old == bk[e.borrower]
      new ==
        CASE e.topic = "opened" ->
               [old EXCEPT !.status = e.status, !.limit = e.limit, !.rate = e.rate,
                           !.debt = IF old.status \in {"None", "Closed"} THEN 0 ELSE @,
                           !.sum  = IF old.status \in {"None", "Closed"} THEN 0 ELSE @]
          [] e.topic \in {"suspend", "self_sus", "unsuspend", "self_uns", "closed", "defaulted",
                          "reinstate"} ->
               [old EXCEPT !.status = e.status, !.limit = e.limit, !.rate = e.rate]
          [] e.topic = "borrow_lc" ->
               [old EXCEPT !.status = e.status, !.limit = e.limit, !.rate = e.rate, !.debt = e.debt]
          [] e.topic = "risk_upd" ->
               [old EXCEPT !.limit = e.limit, !.rate = e.rate,
                           !.status = IF @ \in {"Active", "Restricted"}
                                      THEN IF old.debt > e.limit THEN "Restricted" ELSE "Active"
                                      ELSE @]
          [] e.topic = "pen_enter" -> [old EXCEPT !.penalty = TRUE]
          [] e.topic = "pen_exit"  -> [old EXCEPT !.penalty = FALSE]
          [] OTHER -> [old EXCEPT !.debt = e.debt, !.sum = @ + e.delta]
  IN  [bk EXCEPT ![e.borrower] = new]

Publish(events) == book' = FoldLeft(Follow, book, events)
-----------------------------------------------------------------------------
(* What each handler publishes *)

\* apply_accrual on penalty rates: the rate before is read from the line itself, so it is
\* always the base rate.
PenaltyEvents(b) ==
  LET previous == lines[b].interest_rate_bps
      entered  == IsDelinquent(b) /\ PenaltySurcharge > 0 /\ previous # EffectiveRate(b)
      exited   == ~IsDelinquent(b) /\ previous > lines[b].interest_rate_bps
  IN  (IF entered THEN <<PenaltyRateEnteredEvent(b)>> ELSE <<>>)
        \o (IF exited THEN <<PenaltyRateExitedEvent(b)>> ELSE <<>>)

\* apply_accrual: nothing before time has passed or without debt.
AccrualEvents(b) ==
  LET l   == lines[b]
      due == InterestDue(b)
  IN  IF now <= l.last_accrual_ts \/ l.utilized_amount = 0 THEN <<>>
      ELSE PenaltyEvents(b)
             \o (IF due > 0 THEN <<InterestAccruedEvent(b, due, l.utilized_amount + due)>> ELSE <<>>)

\* The accrual of several lines, in the order of the stored ids or of the batch: each event
\* speaks of its own borrower only, so any order tells the same.
AccrualEventsOf(batch) ==
  FoldFunction(LAMBDA e, rest : e \o rest, <<>>, [b \in batch |-> AccrualEvents(b)])

\* Mutant: the accruals of the other borrowers' lines go unreported.
DrawEventsOwn(b, amount) ==
  AccrualEvents(b)
    \o <<DrawnEvent(b, amount, Accrued(b).utilized_amount + amount),
         BorrowLifecycleEvent(b, [Accrued(b) EXCEPT !.utilized_amount = @ + amount])>>

DrawEvents(b, amount) ==
  LET drawn  == [Accrued(b) EXCEPT !.utilized_amount = @ + amount]
      others == IF cfg.max_exposure > 0 THEN {x \in Borrowers \ {b} : Exists(x)} ELSE {}
  IN  AccrualEvents(b) \o AccrualEventsOf(others)
        \o <<DrawnEvent(b, amount, drawn.utilized_amount), BorrowLifecycleEvent(b, drawn)>>

RepayEvents(b, amount) ==
  LET l   == Accrued(b)
      pay == AllocateRepayment(l.utilized_amount, l.accrued_interest, amount)
  IN  AccrualEvents(b) \o <<RepaymentEvent(b, pay.effective, lines'[b].utilized_amount),
                            BorrowLifecycleEvent(b, lines'[b])>>

ForgiveEvents(b, amount) ==
  AccrualEvents(b)
    \o <<DebtForgivenEvent(b, MinOf(amount, Accrued(b).utilized_amount),
                           lines'[b].utilized_amount),
         BorrowLifecycleEvent(b, lines'[b])>>

ReverseEvents(b, amount) ==
  AccrualEvents(b) \o <<DrawReversedEvent(b, amount, Accrued(b).utilized_amount - amount)>>

\* Step 10 of settle_default_liquidation: closed only when nothing is left.
SettlementEvents(b, recovered) ==
  AccrualEvents(b)
    \o (IF lines'[b].status = "Closed" THEN <<CreditLineEvent("closed", b, lines'[b])>> ELSE <<>>)
    \o <<LiquidationSettledEvent(b, recovered, lines'[b].utilized_amount)>>

\* The handlers that end in publish_credit_line_event; open and close do not accrue.
StatusEvents(topic, b) == AccrualEvents(b) \o <<CreditLineEvent(topic, b, lines'[b])>>

\* default_credit_line also asks for an auction over the whole debt.
DefaultEvents(b) ==
  StatusEvents("defaulted", b) \o <<LiquidationRequestedEvent(b, lines'[b].utilized_amount)>>
-----------------------------------------------------------------------------
EventInit ==
  /\ Init
  /\ book = [b \in Borrowers |-> [status |-> "None", limit |-> 0, rate |-> 0, debt |-> 0,
                                  sum |-> 0, penalty |-> FALSE]]

DebtEventStep(b) ==
  \/ \E a \in Amounts : DrawCredit(b, a) /\ Publish(DrawEvents(b, a))
  \/ \E a \in Amounts : RepayCredit(b, a) /\ Publish(RepayEvents(b, a))
  \/ \E a \in Amounts : ForgiveDebt(b, a) /\ Publish(ForgiveEvents(b, a))
  \/ \E a \in ReverseAmounts, ts \in Times : ReverseDraw(b, a, ts) /\ Publish(ReverseEvents(b, a))
  \/ \E a \in Amounts, id \in SettlementIds, f \in CloseFactors :
       SettleDefaultLiquidation(b, a, id, f) /\ Publish(SettlementEvents(b, a))

StatusEventStep(b) ==
  \/ \E limit \in Limits, rate \in Rates :
       OpenCreditLine(b, limit, rate) /\ Publish(<<CreditLineEvent("opened", b, lines'[b])>>)
  \/ \E limit \in Limits, rate \in Rates :
       /\ UpdateRiskParameters(b, limit, rate)
       /\ Publish(AccrualEvents(b) \o <<RiskParametersUpdatedEvent(b, lines'[b])>>)
  \/ SuspendCreditLine(b) /\ Publish(StatusEvents("suspend", b))
  \/ SelfSuspendCreditLine(b) /\ Publish(StatusEvents("self_sus", b))
  \/ UnsuspendCreditLine(b) /\ Publish(StatusEvents("unsuspend", b))
  \/ SelfUnsuspendCreditLine(b) /\ Publish(StatusEvents("self_uns", b))
  \/ \E closer \in {"admin", "borrower"} :
       CloseCreditLine(b, closer) /\ Publish(<<CreditLineEvent("closed", b, lines'[b])>>)
  \/ DefaultCreditLine(b) /\ Publish(DefaultEvents(b))
  \/ \E target \in {"Active", "Restricted"} :
       ReinstateCreditLine(b, target) /\ Publish(StatusEvents("reinstate", b))
  \/ \E s \in Schedules : SetRepaymentSchedule(b, s) /\ UNCHANGED book

AccrueBatchEvents(batch) ==
  /\ AccrueBatch(batch)
  /\ Publish(AccrualEventsOf({b \in batch : lines[b].status = "Active" /\ lines[b].utilized_amount > 0}))

EventNext ==
  \/ \E b \in Borrowers : DebtEventStep(b) \/ StatusEventStep(b)
  \/ \E batch \in SUBSET Borrowers : AccrueBatchEvents(batch)
  \/ (Tick \/ ConfigStep) /\ UNCHANGED book

EventSpec == EventInit /\ [][EventNext]_eventVars
-----------------------------------------------------------------------------
(* What an indexer can rely on *)

\* An indexer that reconstructs the ledger from the events alone holds every borrower's
\* status, limit, rate and debt exactly, after any sequence of calls: interest capitalised
\* in another borrower's draw is reported, and the status that a change of terms switches
\* follows from the reported debt although the event does not carry it.
IndexerExact ==
  \A b \in Borrowers :
    /\ book[b].status = lines[b].status
    /\ book[b].limit = lines[b].credit_limit /\ book[b].rate = lines[b].interest_rate_bps
    /\ book[b].debt = lines[b].utilized_amount

\* The reported amounts are a complete account: as long as no draw of the borrower has been
\* reversed, what the events add and take, over all kinds of calls, sums up to the debt.
AmountsAddUp == \A b \in Borrowers : Unreversed(b) => book[b].sum = lines[b].utilized_amount
-----------------------------------------------------------------------------
(* A statement of the documents, refuted by the code *)

\* RISK_PRICING.md: the first non-delinquent accrual after delinquency emits
\* PenaltyRateExitedEvent: whenever interest is charged on a line that is not delinquent,
\* the events no longer show a penalty rate.
PenaltyExitReported ==
  [][\A b \in Borrowers :
       /\ StatusOf(b) = "Active" /\ ~IsDelinquent(b)
       /\ lines'[b].accrued_interest > lines[b].accrued_interest
       => ~book'[b].penalty]_eventVars

\* What a follower of the events knows is what the ledger stores: the lines it rebuilds from them,
\* and, where no draw was reversed, the amounts it adds up.
FollowersExact == IndexerExact /\ AmountsAddUp
=============================================================================
