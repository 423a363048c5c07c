----------------------------- MODULE CreditMath -----------------------------
(***************************************************************************)
(* The integer arithmetic of the credit contract: basis-point products,    *)
(* pro-rated interest, interest-first allocation of a payment and the       *)
(* counting of overdue instalments.  BPS and YEAR stand for the            *)
(* contract's 10_000 and SECONDS_PER_YEAR; the runs scale them down so     *)
(* that the rounding cases happen with small numbers.                      *)
(***************************************************************************)
EXTENDS Integers

CONSTANTS
  BPS,    \* basis points in one: 10_000
  YEAR    \* time units in one year: SECONDS_PER_YEAR = 31_557_600

ASSUME ScaleAssumption == BPS \in Nat \ {0} /\ YEAR \in Nat \ {0}

\* MAX_INTEREST_RATE_BPS: a rate of 100 %.
MaxRate == BPS

MinOf(a, b) == IF a <= b THEN a ELSE b
MaxOf(a, b) == IF a >= b THEN a ELSE b

\* saturating_sub(1) of an unsigned counter.
Decrement(n) == IF n = 0 THEN 0 ELSE n - 1

\* mul_div with Rounding::Floor, denominator BPS.
ApplyBps(a, bps) == (a * bps) \div BPS

\* checked_prorate_interest with Rounding::Floor.
ProrateInterest(principal, rate, secs) == (principal * rate * secs) \div (BPS * YEAR)

\* Mutant: everything paid is booked as principal.
AllocateRepaymentToPrincipal(totalDebt, accrued, requested) ==
  LET effective == MaxOf(MinOf(requested, MaxOf(totalDebt, 0)), 0)
  IN  [effective |-> effective, interest |-> 0, principal |-> effective]

\* allocate_repayment: how a repayment of `requested' is split, interest first.
AllocateRepayment(totalDebt, accrued, requested) ==
  LET debt      == MaxOf(totalDebt, 0)
      owed      == MaxOf(MinOf(accrued, debt), 0)
      effective == MaxOf(MinOf(requested, debt), 0)
      interest  == MaxOf(MinOf(effective, owed), 0)
  IN  [effective |-> effective, interest |-> interest, principal |-> effective - interest]

\* overdue_installment_count: of the `paid' instalments, those already past due.
OverdueInstallments(t, due, period, paid) ==
  IF paid = 0 \/ period = 0 \/ t <= due
  THEN 0
  ELSE MinOf(((t - due - 1) \div period) + 1, paid)
=============================================================================
