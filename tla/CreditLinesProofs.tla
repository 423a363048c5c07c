------------------------- MODULE CreditLinesProofs --------------------------
(***************************************************************************)
(* Theorems about CreditLines, for any finite set of borrowers and any     *)
(* inputs: type correctness, the two counters, the accumulator             *)
(* TotalUtilized, the suspension stamp, the interest clock, the bounds on  *)
(* accrued interest, the refinement of the documented status machine, and  *)
(* what no call may do to a line or to the caps.                           *)
(*                                                                         *)
(* The safety invariants follow from IInv, the accumulator from IInv and   *)
(* AbsentOweNothing. The action properties follow from LineSteps, which    *)
(* says once, for every call and every line, which of a few things the     *)
(* call did to the line.                                                   *)
(***************************************************************************)
EXTENDS CreditLines, SumTheorems

-----------------------------------------------------------------------------
(* Arithmetic *)

\* Pro-rated interest is an integer, and a natural number of a non-negative balance.
LEMMA ProrateType ==
  ASSUME NEW p \in Int, NEW r \in Nat, NEW t \in Int
  PROVE  /\ ProrateInterest(p, r, t) \in Int
         /\ p >= 0 /\ t >= 0 => ProrateInterest(p, r, t) >= 0
<1> DEFINE n == p * r * t
           d == BPS * YEAR
<1>1. d \in Nat /\ d > 0
  BY ScaleAssumption
<1>2. n \in Int
  OBVIOUS
<1>3. p >= 0 /\ t >= 0 => n >= 0
  <2> SUFFICES ASSUME p >= 0, t >= 0 PROVE n >= 0
    OBVIOUS
  <2>1. p * r >= 0
    OBVIOUS
  <2> QED
    BY <2>1
<1>4. n \div d \in Int /\ (n >= 0 => n \div d >= 0)
  <2> HIDE DEF n, d
  <2> QED
    BY <1>1, <1>2
<1> QED
  BY <1>3, <1>4 DEF ProrateInterest

\* allocate_repayment splits what is paid into an interest and a principal part, and
\* never pays more than is owed of either.
LEMMA AllocateRepaymentSplit ==
  ASSUME NEW debt \in Int, NEW accrued \in Int, NEW requested \in Nat
  PROVE  LET pay == AllocateRepayment(debt, accrued, requested)
         IN  /\ pay.effective \in Nat /\ pay.interest \in Nat /\ pay.principal \in Nat
             /\ pay.effective = pay.interest + pay.principal
             /\ pay.effective <= requested
             /\ debt >= 0 => pay.effective <= debt
             /\ 0 <= accrued /\ accrued <= debt =>
                  /\ pay.interest <= accrued
                  /\ accrued - pay.interest <= debt - pay.effective
  BY DEF AllocateRepayment, MinOf, MaxOf

\* The rate a line is charged lies between zero and the protocol's maximum.
LEMMA EffectiveRateType ==
  ASSUME TypeOK, NEW b \in Borrowers
  PROVE  EffectiveRate(b) \in 0..MaxRate
<1>1. lines[b].interest_rate_bps \in 0..MaxRate
  BY DEF TypeOK, LedgerTypeOK, Line
<1>2. PenaltySurcharge \in Nat
  BY ScaleAssumption DEF TypeOK, LedgerTypeOK, ContextTypeOK, Config, PenaltySurcharge, MaxRate
<1> QED
  BY <1>1, <1>2, ScaleAssumption DEF EffectiveRate, MinOf, MaxRate

\* The bounds on time are natural numbers.
LEMMA TimeTypes ==
  /\ MaxTs \in Nat /\ MaxTime \in Nat /\ ReverseWindow \in Nat
  /\ TypeOK => now \in Nat
<1>1. MaxTs \in Nat /\ MaxTime \in Nat /\ ReverseWindow \in Nat
  BY InputsAssumption
<1> QED
  BY <1>1 DEF TypeOK, ContextTypeOK, Times

\* The types of the fields of a stored line.
LEMMA LineTypes ==
  ASSUME NEW l \in Line
  PROVE  /\ l.status \in Statuses \cup {"None"} /\ l.credit_limit \in Nat
         /\ l.utilized_amount \in Int /\ l.accrued_interest \in Int
         /\ l.interest_rate_bps \in 0..MaxRate /\ l.last_accrual_ts \in Nat
         /\ l.last_rate_update_ts \in Nat /\ l.suspension_ts \in Nat
         /\ l = [status |-> l.status, credit_limit |-> l.credit_limit,
                 utilized_amount |-> l.utilized_amount, accrued_interest |-> l.accrued_interest,
                 interest_rate_bps |-> l.interest_rate_bps,
                 last_accrual_ts |-> l.last_accrual_ts,
                 last_rate_update_ts |-> l.last_rate_update_ts,
                 suspension_ts |-> l.suspension_ts]
  BY DEF Line

\* The grace part of an accrual period is part of it.
LEMMA GraceSecsType ==
  ASSUME TypeOK, NEW b \in Borrowers
  PROVE  /\ GraceSecs(b) \in Nat
         /\ lines[b].last_accrual_ts <= now => GraceSecs(b) <= now - lines[b].last_accrual_ts
<1>1. lines[b] \in Line /\ cfg.grace.secs \in Nat
  BY DEF TypeOK, LedgerTypeOK, ContextTypeOK, Config
<1>2. lines[b].last_accrual_ts \in Nat /\ lines[b].suspension_ts \in Nat
  BY <1>1, LineTypes
<1>3. After(lines[b].suspension_ts, cfg.grace.secs) \in Nat
  BY <1>1, <1>2, TimeTypes DEF After, MinOf
<1> QED
  BY <1>2, <1>3, TimeTypes DEF GraceSecs, MinOf, MaxOf

\* The interest due on a line is an integer, and not negative when the balance is not.
LEMMA InterestDueType ==
  ASSUME TypeOK, NEW b \in Borrowers
  PROVE  /\ InterestDue(b) \in Int
         /\ lines[b].utilized_amount >= 0 /\ lines[b].last_accrual_ts <= now => InterestDue(b) >= 0
<1> DEFINE u     == lines[b].utilized_amount
           grace == GraceSecs(b)
           rest  == now - lines[b].last_accrual_ts - GraceSecs(b)
           gr    == GraceRate
           er    == EffectiveRate(b)
<1>1. lines[b] \in Line
  BY DEF TypeOK, LedgerTypeOK
<1>2. u \in Int /\ now \in Int /\ lines[b].last_accrual_ts \in Nat
  BY <1>1, LineTypes, TimeTypes
<1>3. grace \in Nat /\ (lines[b].last_accrual_ts <= now => rest >= 0) /\ rest \in Int
  <2>1. /\ GraceSecs(b) \in Nat
        /\ lines[b].last_accrual_ts <= now => GraceSecs(b) <= now - lines[b].last_accrual_ts
    BY GraceSecsType
  <2> QED
    BY <1>2, <2>1
<1>4. gr \in Nat /\ er \in Nat
  BY EffectiveRateType, ScaleAssumption DEF GraceRate, TypeOK, ContextTypeOK, Config, MaxRate
<1>5. InterestDue(b) = ProrateInterest(u, gr, grace) + ProrateInterest(u, er, rest)
  BY DEF InterestDue
<1> HIDE DEF u, grace, rest, gr, er
<1>6. ProrateInterest(u, gr, grace) \in Int /\ (u >= 0 => ProrateInterest(u, gr, grace) >= 0)
  <2>1. grace \in Int /\ grace >= 0
    BY <1>3
  <2> QED
    BY <1>2, <1>4, <2>1, ProrateType
<1>7. /\ ProrateInterest(u, er, rest) \in Int
      /\ u >= 0 /\ rest >= 0 => ProrateInterest(u, er, rest) >= 0
  BY <1>2, <1>3, <1>4, ProrateType
<1> QED
  BY <1>3, <1>5, <1>6, <1>7 DEF u

\* apply_accrual returns a line that differs from the stored one in its debt, its accrued
\* interest and its clock only; the debt and the interest grow by the same amount, and
\* the clock moves to now or not at all.
LEMMA AccruedFacts ==
  ASSUME TypeOK, NEW b \in Borrowers
  PROVE  /\ Accrued(b) \in Line
         /\ Accrued(b).status = lines[b].status
         /\ Accrued(b).credit_limit = lines[b].credit_limit
         /\ Accrued(b).interest_rate_bps = lines[b].interest_rate_bps
         /\ Accrued(b).last_rate_update_ts = lines[b].last_rate_update_ts
         /\ Accrued(b).suspension_ts = lines[b].suspension_ts
         /\ Accrued(b).last_accrual_ts \in {lines[b].last_accrual_ts, now}
         /\ \E i \in Nat : /\ Accrued(b).utilized_amount = lines[b].utilized_amount + i
                           /\ Accrued(b).accrued_interest = lines[b].accrued_interest + i
<1> DEFINE l == lines[b]
<1>1. l \in Line /\ now \in Nat
  BY TimeTypes DEF TypeOK, LedgerTypeOK
<1>2. InterestDue(b) \in Int
  BY InterestDueType
<1>3. l.last_accrual_ts \in Nat /\ l.utilized_amount \in Int /\ l.accrued_interest \in Int
  BY <1>1, LineTypes
<1>4. CASE Accrued(b) = l
  <2>1. l.utilized_amount = l.utilized_amount + 0 /\ l.accrued_interest = l.accrued_interest + 0
    BY <1>3
  <2> QED
    BY <1>1, <1>4, <2>1
<1>5. CASE Accrued(b) = [l EXCEPT !.last_accrual_ts = now]
  <2>1. Accrued(b).utilized_amount = l.utilized_amount + 0
        /\ Accrued(b).accrued_interest = l.accrued_interest + 0
    BY <1>1, <1>3, <1>5 DEF Line
  <2>2. Accrued(b) \in Line
    BY <1>1, <1>5 DEF Line
  <2> QED
    BY <1>1, <1>5, <2>1, <2>2 DEF Line
<1>6. CASE /\ InterestDue(b) > 0
           /\ Accrued(b) = [l EXCEPT !.utilized_amount  = @ + InterestDue(b),
                                     !.accrued_interest = @ + InterestDue(b),
                                     !.last_accrual_ts  = now]
  <2>1. Accrued(b) = [status |-> l.status, credit_limit |-> l.credit_limit,
                      utilized_amount |-> l.utilized_amount + InterestDue(b),
                      accrued_interest |-> l.accrued_interest + InterestDue(b),
                      interest_rate_bps |-> l.interest_rate_bps, last_accrual_ts |-> now,
                      last_rate_update_ts |-> l.last_rate_update_ts,
                      suspension_ts |-> l.suspension_ts]
    BY <1>1, <1>6 DEF Line
  <2>2. InterestDue(b) \in Nat
    BY <1>2, <1>6
  <2> QED
    BY <1>1, <1>3, <2>1, <2>2, LineTypes DEF Line
<1> QED
  BY <1>4, <1>5, <1>6 DEF Accrued
-----------------------------------------------------------------------------
(* The inductive invariant *)

\* What SuspensionStampSound and AccrualClockNotAhead say of one line.
LineSound(l) ==
  /\ l.status \in {"None", "Active", "Restricted"} => l.suspension_ts = 0
  /\ l.status \in Suspensions => l.suspension_ts \in 1..now
  /\ l.last_accrual_ts <= now

\* What InterestWithinDebt says of one line.
InterestSound(l) == 0 <= l.accrued_interest /\ l.accrued_interest <= l.utilized_amount

LinesSound == \A b \in Borrowers :
  LineSound(lines[b]) /\ (Unreversed(b) => InterestSound(lines[b]))

IInv == TypeOK /\ LinesSound /\ CountersExact

\* What a step must be for the status machine to be implemented.
MachineStep == [Machine!Next]_(Machine!vars)

\* The number of lines in a status moves with the one line a step stores.
LEMMA CountStep ==
  ASSUME LedgerTypeOK, NEW b \in Borrowers, NEW l,
         lines' = [lines EXCEPT ![b] = l], NEW s
  PROVE  /\ Cardinality(WithStatus(s)) \in Nat
         /\ Cardinality(WithStatus(s)') =
              Cardinality(WithStatus(s)) + (IF l.status = s THEN 1 ELSE 0)
                                         - (IF lines[b].status = s THEN 1 ELSE 0)
         /\ lines[b].status = s => Cardinality(WithStatus(s)) > 0
<1> DEFINE S == WithStatus(s)
<1>1. S \subseteq Borrowers /\ IsFiniteSet(S)
  BY BorrowersAssumption, FS_Subset DEF WithStatus
<1>2. Cardinality(S) \in Nat
  BY <1>1, FS_CardinalityType
<1>3. b \in S <=> lines[b].status = s
  BY DEF WithStatus
<1>4. CASE l.status = s
  <2>1. WithStatus(s)' = S \cup {b}
    BY <1>4 DEF WithStatus, LedgerTypeOK
  <2>2. Cardinality(S \cup {b}) = IF b \in S THEN Cardinality(S) ELSE Cardinality(S) + 1
    BY <1>1, FS_AddElement
  <2>3. b \in S => Cardinality(S) > 0
    BY <1>1, <1>2, FS_EmptySet
  <2> HIDE DEF S
  <2> QED
    BY <1>2, <1>3, <1>4, <2>1, <2>2, <2>3 DEF S
<1>5. CASE l.status # s
  <2>1. WithStatus(s)' = S \ {b}
    BY <1>5 DEF WithStatus, LedgerTypeOK
  <2>2. Cardinality(S \ {b}) = IF b \in S THEN Cardinality(S) - 1 ELSE Cardinality(S)
    BY <1>1, FS_RemoveElement
  <2>3. b \in S => Cardinality(S) > 0
    BY <1>1, <1>2, FS_EmptySet
  <2> HIDE DEF S
  <2> QED
    BY <1>2, <1>3, <1>5, <2>1, <2>2, <2>3 DEF S
<1> QED
  BY <1>4, <1>5

\* A step that stores one sound line whose status is the old one or follows an edge, and
\* opens or ends its auction with it, keeps the invariant and implements the machine.
LEMMA PersistCreditLineKeepsIInv ==
  ASSUME IInv, ContextTypeOK', NEW b \in Borrowers, NEW l \in Line,
         PersistCreditLine(b, l), now' = now, LineSound(l),
         Unreversed(b)' => InterestSound(l),
         \A x \in Borrowers \ {b} : draw_reversed'[x] = draw_reversed[x],
         pending_auction_count' =
           IF l.status = "Defaulted" /\ lines[b].status # "Defaulted" THEN pending_auction_count + 1
           ELSE IF l.status # "Defaulted" /\ lines[b].status = "Defaulted"
                THEN Decrement(pending_auction_count)
                ELSE pending_auction_count,
         l.status = lines[b].status \/ <<lines[b].status, l.status>> \in Machine!Edges,
         cfg' = cfg
  PROVE  IInv' /\ MachineStep
<1>1. lines' = [lines EXCEPT ![b] = l] /\ lines' \in [Borrowers -> Line]
  BY DEF PersistCreditLine, IInv, TypeOK, LedgerTypeOK
<1>2. LinesSound'
  <2> SUFFICES ASSUME NEW x \in Borrowers
               PROVE  LineSound(lines[x])' /\ (Unreversed(x)' => InterestSound(lines[x])')
    BY DEF LinesSound
  <2>1. CASE x = b
    <3>1. lines'[x] = l
      BY <1>1, <2>1 DEF IInv, TypeOK, LedgerTypeOK
    <3> QED
      BY <2>1, <3>1 DEF LineSound, InterestSound
  <2>2. CASE x # b
    <3>1. lines'[x] = lines[x] /\ draw_reversed'[x] = draw_reversed[x]
      BY <1>1, <2>2 DEF IInv, TypeOK, LedgerTypeOK
    <3>2. LineSound(lines[x]) /\ (Unreversed(x) => InterestSound(lines[x]))
      BY DEF IInv, LinesSound
    <3> QED
      BY <3>1, <3>2 DEF LineSound, InterestSound, Unreversed
  <2> QED
    BY <2>1, <2>2
<1>3. LedgerTypeOK
  BY DEF IInv, TypeOK
<1>4. ActiveLineCountExact' /\ active_line_count' \in Nat
  <2>1. active_line_count = Cardinality(WithStatus("Active"))
    BY DEF IInv, CountersExact, ActiveLineCountExact
  <2>2. /\ Cardinality(WithStatus("Active")) \in Nat
        /\ Cardinality(WithStatus("Active")') =
             Cardinality(WithStatus("Active")) + (IF l.status = "Active" THEN 1 ELSE 0)
                                               - (IF lines[b].status = "Active" THEN 1 ELSE 0)
        /\ lines[b].status = "Active" => Cardinality(WithStatus("Active")) > 0
    BY <1>1, <1>3, CountStep
  <2> QED
    BY <2>1, <2>2 DEF PersistCreditLine, Decrement, ActiveLineCountExact
<1>5. PendingAuctionCountExact' /\ pending_auction_count' \in Nat
  <2>1. pending_auction_count = Cardinality(WithStatus("Defaulted"))
    BY DEF IInv, CountersExact, PendingAuctionCountExact
  <2>2. /\ Cardinality(WithStatus("Defaulted")) \in Nat
        /\ Cardinality(WithStatus("Defaulted")') =
             Cardinality(WithStatus("Defaulted")) + (IF l.status = "Defaulted" THEN 1 ELSE 0)
                                                  - (IF lines[b].status = "Defaulted" THEN 1 ELSE 0)
        /\ lines[b].status = "Defaulted" => Cardinality(WithStatus("Defaulted")) > 0
    BY <1>1, <1>3, CountStep
  <2> QED
    BY <2>1, <2>2 DEF Decrement, PendingAuctionCountExact
<1>6. IInv'
  BY <1>1, <1>2, <1>4, <1>5 DEF IInv, TypeOK, LedgerTypeOK, CountersExact
<1>7. MachineStep
  <2> DEFINE status == [x \in Borrowers |-> lines[x].status]
  <2>1. status' = [status EXCEPT ![b] = l.status]
    BY <1>1, <1>3 DEF LedgerTypeOK
  <2>2. CASE l.status = lines[b].status
    <3>1. status' = status
      BY <2>1, <2>2
    <3> QED
      BY <2>2, <3>1 DEF MachineStep, Machine!vars
  <2>3. CASE l.status # lines[b].status /\ <<lines[b].status, l.status>> \in Machine!Edges
    <3>1. pending_auction_count \in Nat
          /\ (lines[b].status = "Defaulted" => pending_auction_count > 0)
      BY <1>1, <1>3, CountStep DEF IInv, CountersExact, PendingAuctionCountExact
    <3>2. pending_auction_count' = pending_auction_count + Machine!Auctions(l.status)
                                     - Machine!Auctions(lines[b].status)
      BY <2>3, <3>1 DEF Decrement, Machine!Auctions
    <3>3. Machine!Move(b, l.status)
      BY <2>1, <2>3, <3>2 DEF Machine!Move
    <3>4. l.status \in {e[2] : e \in Machine!Edges}
      <4>1. <<lines[b].status, l.status>>[2] = l.status
        OBVIOUS
      <4> QED
        BY <2>3, <4>1
    <3> QED
      BY <3>3, <3>4 DEF MachineStep, Machine!Next
  <2> QED
    BY <2>2, <2>3
<1> QED
  BY <1>6, <1>7

\* A step that stores sound lines without changing a status keeps the invariant and is
\* a stuttering step of the machine.
LEMMA PersistDebtsKeepsIInv ==
  ASSUME IInv, ContextTypeOK', NEW new \in [Borrowers -> Line], PersistDebts(new),
         UNCHANGED <<now, pending_auction_count, draw_reversed, cfg>>,
         \A x \in Borrowers : /\ new[x].status = lines[x].status
                              /\ LineSound(new[x])
                              /\ Unreversed(x) => InterestSound(new[x])
  PROVE  IInv' /\ MachineStep
<1>1. lines' = new /\ active_line_count' = active_line_count
  BY DEF PersistDebts
<1>2. WithStatus("Active")' = WithStatus("Active")
      /\ WithStatus("Defaulted")' = WithStatus("Defaulted")
  BY <1>1 DEF WithStatus
<1>3. CountersExact'
  BY <1>1, <1>2 DEF IInv, CountersExact, ActiveLineCountExact, PendingAuctionCountExact
<1>4. LinesSound'
  BY <1>1 DEF LinesSound, LineSound, InterestSound, Unreversed
<1>5. MachineStep
  BY <1>1 DEF MachineStep, Machine!vars
<1> QED
  BY <1>1, <1>3, <1>4, <1>5 DEF IInv, TypeOK, LedgerTypeOK

\* A step that leaves the lines alone, and the fee terms too while an auction is pending,
\* keeps the invariant and implements the machine.
LEMMA LinesUnchangedKeepsIInv ==
  ASSUME IInv, ContextTypeOK', now' \in Nat, now' >= now,
         UNCHANGED <<lines, active_line_count, pending_auction_count, draw_reversed>>,
         NoActiveAuctions \/ UNCHANGED <<cfg.surcharge, cfg.late_fee, cfg.late_fee_config>>
  PROVE  IInv' /\ MachineStep
<1>1. now \in Nat /\ \A x \in Borrowers : lines[x] \in Line
  BY TimeTypes DEF IInv, TypeOK, LedgerTypeOK
<1>2. CountersExact'
  BY DEF IInv, CountersExact, ActiveLineCountExact, PendingAuctionCountExact, WithStatus
<1>3. LinesSound'
  <2> SUFFICES ASSUME NEW x \in Borrowers
               PROVE  LineSound(lines[x])' /\ (Unreversed(x)' => InterestSound(lines[x])')
    BY DEF LinesSound
  <2>1. LineSound(lines[x]) /\ (Unreversed(x) => InterestSound(lines[x]))
    BY DEF IInv, LinesSound
  <2>2. lines[x].last_accrual_ts \in Nat /\ lines[x].suspension_ts \in Nat
    BY <1>1, LineTypes
  <2> QED
    BY <1>1, <2>1, <2>2 DEF LineSound, InterestSound, Unreversed
<1>4. MachineStep
  BY DEF MachineStep, NoActiveAuctions, Machine!Next, Machine!ChangeFees, Machine!vars
<1> QED
  BY <1>2, <1>3, <1>4 DEF IInv, TypeOK, LedgerTypeOK

\* Accruing a sound line gives a sound line.
LEMMA AccruedSound ==
  ASSUME IInv, NEW b \in Borrowers
  PROVE  /\ LineSound(Accrued(b))
         /\ Unreversed(b) => InterestSound(Accrued(b))
<1>1. TypeOK /\ LineSound(lines[b]) /\ (Unreversed(b) => InterestSound(lines[b]))
  BY DEF IInv, LinesSound
<1>2. now \in Nat /\ lines[b] \in Line
  BY <1>1, TimeTypes DEF TypeOK, LedgerTypeOK
<1>3. lines[b].utilized_amount \in Int /\ lines[b].accrued_interest \in Int
  BY <1>2, LineTypes
<1>4. LineSound(Accrued(b))
  BY <1>1, <1>2, AccruedFacts DEF LineSound
<1>5. PICK i \in Nat : /\ Accrued(b).utilized_amount = lines[b].utilized_amount + i
                       /\ Accrued(b).accrued_interest = lines[b].accrued_interest + i
  BY <1>1, AccruedFacts
<1>6. InterestSound(lines[b]) => InterestSound(Accrued(b))
  BY <1>3, <1>5 DEF InterestSound
<1> QED
  BY <1>1, <1>4, <1>6
-----------------------------------------------------------------------------
(* Every action keeps the invariant *)

\* What every proof about an accruing call starts from.
LEMMA AccruedStart ==
  ASSUME IInv, NEW b \in Borrowers
  PROVE  /\ Accrued(b) \in Line /\ LineSound(Accrued(b))
         /\ Unreversed(b) => InterestSound(Accrued(b))
         /\ Accrued(b).status = lines[b].status
         /\ Accrued(b).utilized_amount \in Int /\ Accrued(b).accrued_interest \in Int
         /\ now \in Nat /\ now > 0
<1>1. TypeOK
  BY DEF IInv
<1>2. now \in Nat /\ now > 0
  BY <1>1, TimeTypes DEF TypeOK, ContextTypeOK, Times
<1>3. Accrued(b) \in Line /\ Accrued(b).status = lines[b].status
  BY <1>1, AccruedFacts
<1> QED
  BY <1>2, <1>3, AccruedSound, LineTypes

\* A draw, with the accrual of the other lines, keeps the invariant.
LEMMA DrawCreditKeepsIInv ==
  ASSUME IInv, NEW b \in Borrowers, NEW amount \in Amounts, DrawCredit(b, amount)
  PROVE  IInv' /\ MachineStep
<1> DEFINE drawn == [Accrued(b) EXCEPT !.utilized_amount = @ + amount]
           new   == [(IF cfg.max_exposure > 0 THEN AccrueAllExcept(b) ELSE lines)
                       EXCEPT ![b] = drawn]
<1>1. amount \in Nat /\ amount > 0
  BY InputsAssumption DEF DrawCredit
<1>2. /\ drawn \in Line /\ drawn.status = lines[b].status /\ LineSound(drawn)
      /\ Unreversed(b) => InterestSound(drawn)
  BY <1>1, AccruedStart DEF Line, LineSound, InterestSound
<1>3. \A x \in Borrowers : /\ new[x] \in Line /\ new[x].status = lines[x].status
                           /\ LineSound(new[x])
                           /\ Unreversed(x) => InterestSound(new[x])
  <2> TAKE x \in Borrowers
  <2>1. /\ lines[x] \in Line /\ LineSound(lines[x])
        /\ Unreversed(x) => InterestSound(lines[x])
    BY DEF IInv, TypeOK, LedgerTypeOK, LinesSound
  <2>2. /\ Accrued(x) \in Line /\ Accrued(x).status = lines[x].status /\ LineSound(Accrued(x))
        /\ Unreversed(x) => InterestSound(Accrued(x))
    BY AccruedStart
  <2>3. (new[x] = drawn /\ x = b) \/ new[x] = Accrued(x) \/ new[x] = lines[x]
    BY <2>1 DEF AccrueAllExcept, IInv, TypeOK, LedgerTypeOK
  <2> HIDE DEF new, drawn
  <2> QED
    BY <1>2, <2>1, <2>2, <2>3
<1>4. new \in [Borrowers -> Line]
  <2>1. new = [x \in Borrowers |-> new[x]]
    BY DEF AccrueAllExcept, IInv, TypeOK, LedgerTypeOK
  <2> HIDE DEF new
  <2> QED
    BY <1>3, <2>1
<1>5. PersistDebts(new) /\ UNCHANGED <<now, pending_auction_count, draw_reversed, cfg>>
  BY DEF DrawCredit, settings
<1>6. ContextTypeOK'
  <2>1. last_draw_ts' = [last_draw_ts EXCEPT ![b] = now]
        /\ draw_audit' = [draw_audit EXCEPT ![b][now] = amount]
    BY DEF DrawCredit
  <2>2. last_draw_ts' \in [Borrowers -> Nat]
    BY <2>1, TimeTypes DEF IInv, TypeOK, ContextTypeOK
  <2>3. draw_audit' \in [Borrowers -> [Times -> Nat]]
    BY <1>1, <2>1 DEF IInv, TypeOK, ContextTypeOK
  <2> QED
    BY <2>2, <2>3 DEF DrawCredit, IInv, TypeOK, ContextTypeOK, settings
<1> HIDE DEF new
<1> QED
  BY <1>3, <1>4, <1>5, <1>6, PersistDebtsKeepsIInv

\* Whole instalments of principal move a schedule's due date and nothing else.
LEMMA AdvanceScheduleType ==
  ASSUME TypeOK, NEW b \in Borrowers, NEW principal \in Nat, AdvanceSchedule(b, principal)
  PROVE  schedules' \in [Borrowers -> Schedule \cup {NoSchedule}]
<1> DEFINE s == schedules[b]
           n == principal \div s.amount
           d == After(s.due, n * s.period)
<1>1. schedules \in [Borrowers -> Schedule \cup {NoSchedule}]
  BY DEF TypeOK, ContextTypeOK
<1>2. CASE HasSchedule(b) /\ principal >= s.amount
  <2>1. s \in Schedule
    BY <1>1, <1>2 DEF HasSchedule
  <2>2. s.amount \in Nat \ {0} /\ s.period \in Nat /\ s.due \in Nat
    BY <2>1 DEF Schedule
  <2>3. n \in Nat
    BY <2>2
  <2>4. n * s.period \in Nat
    <3> HIDE DEF n
    <3> QED
      BY <2>2, <2>3
  <2>5. d \in Nat
    <3> HIDE DEF n
    <3> QED
      BY <2>2, <2>4, TimeTypes DEF After, MinOf
  <2>6. schedules' = [schedules EXCEPT ![b].due = d]
    BY <1>2 DEF AdvanceSchedule
  <2>7. [s EXCEPT !.due = d] \in Schedule
    <3> HIDE DEF d
    <3> QED
      BY <2>1, <2>5 DEF Schedule
  <2>8. schedules' = [schedules EXCEPT ![b] = [s EXCEPT !.due = d]]
    BY <2>6
  <2> HIDE DEF s, d
  <2> QED
    BY <1>1, <2>7, <2>8
<1>3. CASE ~(HasSchedule(b) /\ principal >= s.amount)
  BY <1>1, <1>3 DEF AdvanceSchedule
<1> QED
  BY <1>2, <1>3

\* A repayment keeps the invariant: the interest left stays within the debt left.
LEMMA RepayCreditKeepsIInv ==
  ASSUME IInv, NEW b \in Borrowers, NEW amount \in Amounts, RepayCredit(b, amount)
  PROVE  IInv' /\ MachineStep
<1> DEFINE l    == Accrued(b)
           owed == MaxOf(MinOf(l.accrued_interest, MaxOf(l.utilized_amount, 0)), 0)
           pay  == AllocateRepayment(l.utilized_amount, owed, amount)
           new  == [l EXCEPT !.accrued_interest = owed - pay.interest,
                             !.utilized_amount  = MaxOf(l.utilized_amount - pay.effective, 0)]
<1>1. amount \in Nat
  BY InputsAssumption
<1>2. /\ l \in Line /\ LineSound(l) /\ (Unreversed(b) => InterestSound(l))
      /\ l.status = lines[b].status
      /\ l.utilized_amount \in Int /\ l.accrued_interest \in Int
  BY AccruedStart
<1>3. owed \in Int /\ (InterestSound(l) => owed = l.accrued_interest)
  BY <1>2 DEF MinOf, MaxOf, InterestSound
<1>4. /\ pay.effective \in Nat /\ pay.interest \in Nat /\ pay.principal \in Nat
      /\ l.utilized_amount >= 0 => pay.effective <= l.utilized_amount
      /\ 0 <= owed /\ owed <= l.utilized_amount =>
           pay.interest <= owed /\ owed - pay.interest <= l.utilized_amount - pay.effective
  <2> HIDE DEF l, owed
  <2> QED
    BY <1>1, <1>2, <1>3, AllocateRepaymentSplit
<1>5. /\ new \in Line /\ new.status = lines[b].status /\ new.suspension_ts = l.suspension_ts
      /\ new.last_accrual_ts = l.last_accrual_ts
      /\ new.accrued_interest = owed - pay.interest
      /\ new.utilized_amount = MaxOf(l.utilized_amount - pay.effective, 0)
  <2> DEFINE i == owed - pay.interest
             u == MaxOf(l.utilized_amount - pay.effective, 0)
  <2> HIDE DEF l, owed, pay
  <2>1. i \in Int /\ u \in Int
    BY <1>2, <1>3, <1>4 DEF MaxOf
  <2> HIDE DEF i, u
  <2>2. new = [l EXCEPT !.accrued_interest = i, !.utilized_amount = u]
    BY DEF i, u
  <2> HIDE DEF new
  <2>3. /\ new \in Line /\ new.status = l.status /\ new.suspension_ts = l.suspension_ts
        /\ new.last_accrual_ts = l.last_accrual_ts
        /\ new.accrued_interest = i /\ new.utilized_amount = u
    BY <1>2, <2>1, <2>2 DEF Line
  <2> QED
    BY <1>2, <2>3 DEF i, u
<1>6. LineSound(new) /\ (Unreversed(b) => InterestSound(new))
  <2> HIDE DEF l, owed, pay, new
  <2> QED
    BY <1>2, <1>3, <1>4, <1>5 DEF LineSound, InterestSound, MaxOf
<1>7. /\ PersistCreditLine(b, new) /\ AdvanceSchedule(b, pay.principal)
      /\ UNCHANGED <<now, pending_auction_count, drawLog, settled, settings>>
  BY DEF RepayCredit
<1> HIDE DEF new, pay
<1>8. ContextTypeOK'
  <2>1. schedules' \in [Borrowers -> Schedule \cup {NoSchedule}]
    BY <1>4, <1>7, AdvanceScheduleType DEF IInv
  <2> QED
    BY <1>7, <2>1 DEF IInv, TypeOK, ContextTypeOK, drawLog, settings
<1>9. /\ draw_reversed' = draw_reversed /\ now' = now /\ cfg' = cfg
      /\ (Unreversed(b)' <=> Unreversed(b))
  BY <1>7 DEF drawLog, settings, Unreversed
<1> QED
  BY <1>5, <1>6, <1>7, <1>8, <1>9, PersistCreditLineKeepsIInv

\* accrue_batch keeps the invariant.
LEMMA AccrueBatchKeepsIInv ==
  ASSUME IInv, NEW batch \in SUBSET Borrowers, AccrueBatch(batch)
  PROVE  IInv' /\ MachineStep
<1> DEFINE due == {b \in batch : lines[b].status = "Active" /\ lines[b].utilized_amount > 0}
           new == [b \in Borrowers |-> IF b \in due THEN Accrued(b) ELSE lines[b]]
<1>1. \A x \in Borrowers : /\ new[x] \in Line /\ new[x].status = lines[x].status
                           /\ LineSound(new[x])
                           /\ Unreversed(x) => InterestSound(new[x])
  <2> TAKE x \in Borrowers
  <2>1. /\ lines[x] \in Line /\ LineSound(lines[x])
        /\ Unreversed(x) => InterestSound(lines[x])
    BY DEF IInv, TypeOK, LedgerTypeOK, LinesSound
  <2>2. /\ Accrued(x) \in Line /\ Accrued(x).status = lines[x].status /\ LineSound(Accrued(x))
        /\ Unreversed(x) => InterestSound(Accrued(x))
    BY AccruedStart
  <2>3. new[x] = Accrued(x) \/ new[x] = lines[x]
    OBVIOUS
  <2> HIDE DEF new
  <2> QED
    BY <2>1, <2>2, <2>3
<1>2. PersistDebts(new) /\ UNCHANGED <<now, pending_auction_count, draw_reversed, cfg>>
  BY DEF AccrueBatch, drawLog, settings
<1>3. ContextTypeOK'
  BY DEF AccrueBatch, IInv, TypeOK, ContextTypeOK, drawLog, settings
<1>4. new \in [Borrowers -> Line]
  BY <1>1
<1> HIDE DEF new
<1> QED
  BY <1>1, <1>2, <1>3, <1>4, PersistDebtsKeepsIInv

\* A write-off keeps the invariant.
LEMMA ForgiveDebtKeepsIInv ==
  ASSUME IInv, NEW b \in Borrowers, NEW amount \in Amounts, ForgiveDebt(b, amount)
  PROVE  IInv' /\ MachineStep
<1> DEFINE l        == Accrued(b)
           forgiven == MinOf(amount, l.utilized_amount)
           i        == l.accrued_interest - MinOf(forgiven, l.accrued_interest)
           u        == l.utilized_amount - forgiven
           new      == [l EXCEPT !.accrued_interest = i, !.utilized_amount = u]
<1>1. amount \in Nat
  BY InputsAssumption
<1>2. /\ l \in Line /\ LineSound(l) /\ (Unreversed(b) => InterestSound(l))
      /\ l.status = lines[b].status
      /\ l.utilized_amount \in Int /\ l.accrued_interest \in Int
  BY AccruedStart
<1>3. i \in Int /\ u \in Int /\ (InterestSound(l) => 0 <= i /\ i <= u)
  <2> HIDE DEF l
  <2> QED
    BY <1>1, <1>2 DEF MinOf, InterestSound
<1>4. /\ PersistCreditLine(b, new)
      /\ UNCHANGED <<now, pending_auction_count, schedules, drawLog, settled, settings>>
  BY DEF ForgiveDebt
<1> HIDE DEF l, i, u
<1>5. /\ new \in Line /\ new.status = l.status /\ new.suspension_ts = l.suspension_ts
      /\ new.last_accrual_ts = l.last_accrual_ts
      /\ new.accrued_interest = i /\ new.utilized_amount = u
  BY <1>2, <1>3 DEF Line
<1> HIDE DEF new
<1>6. LineSound(new) /\ (Unreversed(b) => InterestSound(new))
  BY <1>2, <1>3, <1>5 DEF LineSound, InterestSound
<1>7. ContextTypeOK'
  BY <1>4 DEF IInv, TypeOK, ContextTypeOK, drawLog, settings
<1>8. /\ draw_reversed' = draw_reversed /\ now' = now /\ cfg' = cfg
      /\ (Unreversed(b)' <=> Unreversed(b))
  BY <1>4 DEF drawLog, settings, Unreversed
<1> QED
  BY <1>2, <1>4, <1>5, <1>6, <1>7, <1>8, PersistCreditLineKeepsIInv

\* A reversal keeps the invariant; InterestWithinDebt no longer speaks of its borrower.
LEMMA ReverseDrawKeepsIInv ==
  ASSUME IInv, NEW b \in Borrowers, NEW amount \in ReverseAmounts, NEW ts \in Times,
         ReverseDraw(b, amount, ts)
  PROVE  IInv' /\ MachineStep
<1> DEFINE l   == Accrued(b)
           u   == l.utilized_amount - amount
           new == [l EXCEPT !.utilized_amount = u]
<1>1. amount \in Nat /\ amount > 0
  BY InputsAssumption DEF ReverseDraw
<1>2. /\ l \in Line /\ LineSound(l) /\ l.status = lines[b].status /\ l.utilized_amount \in Int
  BY AccruedStart
<1>3. /\ PersistCreditLine(b, new)
      /\ draw_reversed' = [draw_reversed EXCEPT ![b][ts] = @ + amount]
      /\ UNCHANGED <<now, pending_auction_count, schedules, last_draw_ts, draw_audit,
                     settled, settings>>
  BY DEF ReverseDraw
<1> HIDE DEF l
<1>4. /\ new \in Line /\ new.status = l.status /\ new.suspension_ts = l.suspension_ts
      /\ new.last_accrual_ts = l.last_accrual_ts
  BY <1>1, <1>2 DEF Line
<1> HIDE DEF new
<1>5. LineSound(new)
  BY <1>2, <1>4 DEF LineSound
<1>6. draw_reversed \in [Borrowers -> [Times -> Nat]]
  BY DEF IInv, TypeOK, ContextTypeOK
<1>7. /\ draw_reversed' \in [Borrowers -> [Times -> Nat]]
      /\ draw_reversed'[b][ts] > 0
      /\ \A x \in Borrowers \ {b} : draw_reversed'[x] = draw_reversed[x]
  BY <1>1, <1>3, <1>6
<1>8. ~Unreversed(b)'
  BY <1>7 DEF Unreversed
<1>9. ContextTypeOK'
  BY <1>3, <1>7 DEF IInv, TypeOK, ContextTypeOK, settings
<1>10. cfg' = cfg
  BY <1>3 DEF settings
<1> QED
  BY <1>2, <1>3, <1>4, <1>5, <1>7, <1>8, <1>9, <1>10, PersistCreditLineKeepsIInv

\* A settlement keeps the invariant, whether or not it closes the line.
LEMMA SettleDefaultLiquidationKeepsIInv ==
  ASSUME IInv, NEW b \in Borrowers, NEW recovered \in Amounts, NEW id \in SettlementIds,
         NEW factor \in CloseFactors, SettleDefaultLiquidation(b, recovered, id, factor)
  PROVE  IInv' /\ MachineStep
<1> DEFINE l      == Accrued(b)
           repaid == MinOf(recovered, l.utilized_amount)
           i      == l.accrued_interest - MinOf(repaid, l.accrued_interest)
           u      == l.utilized_amount - repaid
           st     == IF u = 0 THEN "Closed" ELSE l.status
           new    == [l EXCEPT !.accrued_interest = i, !.utilized_amount = u, !.status = st]
<1>1. recovered \in Nat
  BY InputsAssumption
<1>2. /\ l \in Line /\ LineSound(l) /\ (Unreversed(b) => InterestSound(l))
      /\ l.status = lines[b].status /\ l.status = "Defaulted"
      /\ l.utilized_amount \in Int /\ l.accrued_interest \in Int
  BY AccruedStart DEF SettleDefaultLiquidation
<1>3. i \in Int /\ u \in Int /\ (InterestSound(l) => 0 <= i /\ i <= u)
  <2> HIDE DEF l
  <2> QED
    BY <1>1, <1>2 DEF MinOf, InterestSound
<1>4. /\ PersistCreditLine(b, new)
      /\ IF new.status = "Closed"
         THEN EndAuction(b) /\ ClearSchedule(b)
         ELSE UNCHANGED <<pending_auction_count, schedules>>
      /\ settled' = settled \cup {<<b, id>>}
      /\ UNCHANGED <<now, drawLog, settings>>
  BY DEF SettleDefaultLiquidation
<1> HIDE DEF l, i, u
<1>5. st \in {"Closed", "Defaulted"}
  BY <1>2
<1> HIDE DEF st
<1>6. /\ new \in Line /\ new.status = st /\ new.last_accrual_ts = l.last_accrual_ts
      /\ new.accrued_interest = i /\ new.utilized_amount = u
  BY <1>2, <1>3, <1>5 DEF Line, Statuses
<1> HIDE DEF new
<1>7. LineSound(new) /\ (Unreversed(b) => InterestSound(new))
  BY <1>2, <1>3, <1>5, <1>6 DEF LineSound, InterestSound, Suspensions
<1>8. ContextTypeOK'
  BY <1>4 DEF IInv, TypeOK, ContextTypeOK, drawLog, settings, ClearSchedule
<1>9. /\ draw_reversed' = draw_reversed /\ now' = now /\ cfg' = cfg
      /\ (Unreversed(b)' <=> Unreversed(b))
  BY <1>4 DEF drawLog, settings, Unreversed
<1>10. pending_auction_count' =
         IF new.status # "Defaulted" /\ lines[b].status = "Defaulted"
         THEN Decrement(pending_auction_count) ELSE pending_auction_count
  BY <1>2, <1>4, <1>5, <1>6 DEF EndAuction
<1>11. new.status = lines[b].status \/ <<lines[b].status, new.status>> \in Machine!Edges
  BY <1>2, <1>5, <1>6 DEF Machine!Edges
<1> QED
  BY <1>2, <1>4, <1>6, <1>7, <1>8, <1>9, <1>10, <1>11, PersistCreditLineKeepsIInv

\* Opening or re-opening a line keeps the invariant.
LEMMA OpenCreditLineKeepsIInv ==
  ASSUME IInv, NEW b \in Borrowers, NEW limit \in Limits, NEW rate \in Rates,
         OpenCreditLine(b, limit, rate)
  PROVE  IInv' /\ MachineStep
<1> DEFINE old     == lines[b]
           carried == CarriesDebt(b)
           i       == IF carried THEN old.accrued_interest ELSE 0
           u       == IF carried THEN old.utilized_amount ELSE 0
           t       == IF carried THEN old.last_accrual_ts ELSE now
           new     == [status |-> "Active", credit_limit |-> limit, interest_rate_bps |-> rate,
                       utilized_amount |-> u, accrued_interest |-> i, last_accrual_ts |-> t,
                       last_rate_update_ts |-> 0, suspension_ts |-> 0]
<1>1. limit \in Nat /\ rate \in 0..MaxRate
  BY InputsAssumption
<1>2. /\ old \in Line /\ LineSound(old) /\ (Unreversed(b) => InterestSound(old))
      /\ now \in Nat
  BY AccruedStart DEF IInv, TypeOK, LedgerTypeOK, LinesSound
<1>3. /\ i \in Int /\ u \in Int /\ t \in Nat /\ t <= now
      /\ InterestSound(old) => 0 <= i /\ i <= u
  BY <1>2, LineTypes DEF LineSound, InterestSound
<1>4. /\ PersistCreditLine(b, new) /\ EndAuction(b) /\ ClearSchedule(b)
      /\ UNCHANGED <<now, drawLog, settled, settings>>
  BY DEF OpenCreditLine
<1> HIDE DEF i, u, t
<1>5. /\ new \in Line /\ LineSound(new) /\ new.status = "Active"
      /\ Unreversed(b) => InterestSound(new)
  BY <1>1, <1>2, <1>3 DEF Line, LineSound, InterestSound, Statuses, Suspensions
<1> HIDE DEF new
<1>6. ContextTypeOK'
  BY <1>4 DEF IInv, TypeOK, ContextTypeOK, drawLog, settings, ClearSchedule
<1>7. /\ draw_reversed' = draw_reversed /\ now' = now /\ cfg' = cfg
      /\ (Unreversed(b)' <=> Unreversed(b))
  BY <1>4 DEF drawLog, settings, Unreversed
<1>8. <<lines[b].status, new.status>> \in Machine!Edges
  <2>1. old.status \in Statuses \cup {"None"} /\ old.status # "Active"
    BY <1>2, LineTypes DEF OpenCreditLine
  <2> QED
    BY <1>5, <2>1 DEF Statuses, Suspensions, Machine!Edges
<1> QED
  BY <1>4, <1>5, <1>6, <1>7, <1>8, PersistCreditLineKeepsIInv DEF EndAuction

\* A change of limit and rate keeps the invariant.
LEMMA UpdateRiskParametersKeepsIInv ==
  ASSUME IInv, NEW b \in Borrowers, NEW limit \in Limits, NEW rate \in Rates,
         UpdateRiskParameters(b, limit, rate)
  PROVE  IInv' /\ MachineStep
<1> DEFINE l   == Accrued(b)
           r   == IF cfg.rate_limits.on /\ rate # l.interest_rate_bps THEN now
                  ELSE l.last_rate_update_ts
           st  == IF l.utilized_amount > limit
                  THEN IF l.status = "Active" THEN "Restricted" ELSE l.status
                  ELSE IF l.status = "Restricted" THEN "Active" ELSE l.status
           new == [l EXCEPT !.interest_rate_bps = rate, !.credit_limit = limit,
                            !.last_rate_update_ts = r, !.status = st]
<1>1. limit \in Nat /\ rate \in 0..MaxRate
  BY InputsAssumption
<1>2. /\ l \in Line /\ LineSound(l) /\ (Unreversed(b) => InterestSound(l))
      /\ l.status = lines[b].status /\ now \in Nat
  BY AccruedStart
<1>3. r \in Nat
  BY <1>2, LineTypes
<1>4. /\ PersistCreditLine(b, new)
      /\ UNCHANGED <<now, pending_auction_count, schedules, drawLog, settled, settings>>
  BY DEF UpdateRiskParameters
<1>5. /\ st \in Statuses \cup {"None"}
      /\ st = l.status \/ (l.status = "Active" /\ st = "Restricted")
                       \/ (l.status = "Restricted" /\ st = "Active")
  BY <1>2, LineTypes DEF Statuses
<1> HIDE DEF l, r, st
<1>6. /\ new \in Line /\ new.status = st /\ new.suspension_ts = l.suspension_ts
      /\ new.last_accrual_ts = l.last_accrual_ts
      /\ new.accrued_interest = l.accrued_interest /\ new.utilized_amount = l.utilized_amount
  BY <1>1, <1>2, <1>3, <1>5 DEF Line
<1> HIDE DEF new
<1>7. LineSound(new) /\ (Unreversed(b) => InterestSound(new))
  BY <1>2, <1>5, <1>6 DEF LineSound, InterestSound, Suspensions
<1>8. ContextTypeOK'
  BY <1>4 DEF IInv, TypeOK, ContextTypeOK, drawLog, settings
<1>9. /\ draw_reversed' = draw_reversed /\ now' = now /\ cfg' = cfg
      /\ (Unreversed(b)' <=> Unreversed(b))
  BY <1>4 DEF drawLog, settings, Unreversed
<1>10. new.status = lines[b].status \/ <<lines[b].status, new.status>> \in Machine!Edges
  BY <1>2, <1>5, <1>6 DEF Machine!Edges
<1> QED
  BY <1>2, <1>4, <1>5, <1>6, <1>7, <1>8, <1>9, <1>10, PersistCreditLineKeepsIInv

\* A step that moves b's line, accrued or not, along an edge and stamps it.
LEMMA StatusStepKeepsIInv ==
  ASSUME IInv, ContextTypeOK', NEW b \in Borrowers, NEW l, l = lines[b] \/ l = Accrued(b),
         NEW s \in Statuses, NEW t \in Nat, NEW new,
         new = [l EXCEPT !.status = s, !.suspension_ts = t], PersistCreditLine(b, new),
         s \in {"Active", "Restricted"} => t = 0,
         s \in Suspensions => t \in 1..now,
         UNCHANGED <<now, draw_reversed, cfg>>,
         <<lines[b].status, s>> \in Machine!Edges,
         pending_auction_count' =
           IF s = "Defaulted" /\ lines[b].status # "Defaulted" THEN pending_auction_count + 1
           ELSE IF s # "Defaulted" /\ lines[b].status = "Defaulted"
                THEN Decrement(pending_auction_count)
                ELSE pending_auction_count
  PROVE  IInv' /\ MachineStep
<1>1. l \in Line /\ LineSound(l) /\ (Unreversed(b) => InterestSound(l))
  BY AccruedStart DEF IInv, TypeOK, LedgerTypeOK, LinesSound
<1>2. /\ new \in Line /\ new.status = s /\ new.suspension_ts = t
      /\ new.last_accrual_ts = l.last_accrual_ts
      /\ new.accrued_interest = l.accrued_interest /\ new.utilized_amount = l.utilized_amount
  BY <1>1 DEF Line
<1>3. LineSound(new) /\ (Unreversed(b) => InterestSound(new))
  BY <1>1, <1>2 DEF LineSound, InterestSound, Suspensions, Statuses
<1>4. Unreversed(b)' <=> Unreversed(b)
  BY DEF Unreversed
<1> QED
  BY <1>2, <1>3, <1>4, PersistCreditLineKeepsIInv

\* A suspension keeps the invariant.
LEMMA SuspendKeepsIInv ==
  ASSUME IInv, NEW b \in Borrowers, NEW target \in Suspensions, Suspend(b, target)
  PROVE  IInv' /\ MachineStep
<1> DEFINE l   == Accrued(b)
           new == [l EXCEPT !.status = target, !.suspension_ts = now]
<1>1. /\ PersistCreditLine(b, new)
      /\ UNCHANGED <<now, pending_auction_count, schedules, drawLog, settled, settings>>
  BY DEF Suspend
<1>2. lines[b].status = "Active" /\ now \in Nat /\ now \in 1..now
  BY AccruedStart DEF Suspend
<1>3. ContextTypeOK'
  BY <1>1 DEF IInv, TypeOK, ContextTypeOK, drawLog, settings
<1>4. target \in Statuses /\ target \notin {"Active", "Restricted", "Defaulted"}
  BY DEF Suspensions, Statuses
<1>5. draw_reversed' = draw_reversed /\ cfg' = cfg
  BY <1>1 DEF drawLog, settings
<1> HIDE DEF l
<1>6. new = [l EXCEPT !.status = target, !.suspension_ts = now]
  OBVIOUS
<1>7. <<lines[b].status, target>> \in Machine!Edges
  BY <1>2 DEF Machine!Edges, Machine!Suspended, Suspensions
<1> HIDE DEF new
<1> QED
  BY <1>1, <1>2, <1>3, <1>4, <1>5, <1>6, <1>7, StatusStepKeepsIInv DEF l

\* Lifting a suspension keeps the invariant.
LEMMA LiftKeepsIInv ==
  ASSUME IInv, NEW b \in Borrowers, NEW sources \in SUBSET Suspensions, Lift(b, sources)
  PROVE  IInv' /\ MachineStep
<1> DEFINE l   == Accrued(b)
           new == [l EXCEPT !.status = "Active", !.suspension_ts = 0]
<1>1. /\ PersistCreditLine(b, new)
      /\ UNCHANGED <<now, pending_auction_count, schedules, drawLog, settled, settings>>
  BY DEF Lift
<1>2. lines[b].status \in Suspensions
  BY AccruedStart DEF Lift
<1>3. ContextTypeOK'
  BY <1>1 DEF IInv, TypeOK, ContextTypeOK, drawLog, settings
<1>4. "Active" \in Statuses /\ "Active" \notin Suspensions
  BY DEF Suspensions, Statuses
<1>5. draw_reversed' = draw_reversed /\ cfg' = cfg
  BY <1>1 DEF drawLog, settings
<1> HIDE DEF l
<1>6. new = [l EXCEPT !.status = "Active", !.suspension_ts = 0]
  OBVIOUS
<1>7. lines[b].status # "Defaulted" /\ <<lines[b].status, "Active">> \in Machine!Edges
  BY <1>2 DEF Machine!Edges, Suspensions
<1> HIDE DEF new
<1> QED
  BY <1>1, <1>3, <1>4, <1>5, <1>6, <1>7, StatusStepKeepsIInv DEF l

\* A reinstatement keeps the invariant.
LEMMA ReinstateCreditLineKeepsIInv ==
  ASSUME IInv, NEW b \in Borrowers, NEW target \in {"Active", "Restricted"},
         ReinstateCreditLine(b, target)
  PROVE  IInv' /\ MachineStep
<1> DEFINE l   == Accrued(b)
           new == [l EXCEPT !.status = target, !.suspension_ts = 0]
<1>1. /\ PersistCreditLine(b, new) /\ EndAuction(b)
      /\ UNCHANGED <<now, schedules, drawLog, settled, settings>>
  BY DEF ReinstateCreditLine
<1>2. lines[b].status = "Defaulted"
  BY AccruedStart DEF ReinstateCreditLine
<1>3. ContextTypeOK'
  BY <1>1 DEF IInv, TypeOK, ContextTypeOK, drawLog, settings
<1>4. target \in Statuses /\ target \notin Suspensions /\ target # "Defaulted"
  BY DEF Suspensions, Statuses
<1>5. /\ draw_reversed' = draw_reversed /\ cfg' = cfg
      /\ pending_auction_count' = Decrement(pending_auction_count)
  BY <1>1, <1>2 DEF drawLog, settings, EndAuction
<1> HIDE DEF l
<1>6. new = [l EXCEPT !.status = target, !.suspension_ts = 0]
  OBVIOUS
<1>7. <<lines[b].status, target>> \in Machine!Edges
  BY <1>2 DEF Machine!Edges
<1> HIDE DEF new
<1> QED
  BY <1>1, <1>2, <1>3, <1>4, <1>5, <1>6, <1>7, StatusStepKeepsIInv DEF l

\* Closing a line keeps the invariant.
LEMMA CloseCreditLineKeepsIInv ==
  ASSUME IInv, NEW b \in Borrowers, NEW closer, CloseCreditLine(b, closer)
  PROVE  IInv' /\ MachineStep
<1> DEFINE l   == lines[b]
           new == [l EXCEPT !.status = "Closed"]
<1>1. /\ PersistCreditLine(b, new) /\ EndAuction(b) /\ ClearSchedule(b)
      /\ UNCHANGED <<now, drawLog, settled, settings>>
  BY DEF CloseCreditLine
<1>2. ContextTypeOK'
  BY <1>1 DEF IInv, TypeOK, ContextTypeOK, drawLog, settings, ClearSchedule
<1>3. l \in Line
  BY DEF IInv, TypeOK, LedgerTypeOK
<1>4. "Closed" \in Statuses /\ "Closed" \notin Suspensions
  BY DEF Suspensions, Statuses
<1>5. draw_reversed' = draw_reversed /\ cfg' = cfg
  BY <1>1 DEF drawLog, settings
<1>6. pending_auction_count' = IF l.status = "Defaulted" THEN Decrement(pending_auction_count)
                               ELSE pending_auction_count
  BY <1>1 DEF EndAuction
<1> HIDE DEF l
<1>7. new = [l EXCEPT !.status = "Closed", !.suspension_ts = l.suspension_ts]
      /\ l.suspension_ts \in Nat
  BY <1>3 DEF Line
<1>8. <<lines[b].status, "Closed">> \in Machine!Edges
  <2>1. lines[b].status \in Statuses \cup {"None"} /\ lines[b].status \notin {"None", "Closed"}
    BY <1>3, LineTypes DEF CloseCreditLine, Exists, l
  <2> QED
    BY <2>1 DEF Statuses, Suspensions, Machine!Edges, Machine!Suspended
<1> HIDE DEF new
<1> QED
  BY <1>1, <1>2, <1>4, <1>5, <1>6, <1>7, <1>8, StatusStepKeepsIInv DEF l

\* A default keeps the invariant.
LEMMA DefaultCreditLineKeepsIInv ==
  ASSUME IInv, NEW b \in Borrowers, DefaultCreditLine(b)
  PROVE  IInv' /\ MachineStep
<1> DEFINE l   == Accrued(b)
           new == [l EXCEPT !.status = "Defaulted"]
<1>1. /\ PersistCreditLine(b, new)
      /\ pending_auction_count' = pending_auction_count + 1
      /\ UNCHANGED <<now, schedules, drawLog, settled, settings>>
  BY DEF DefaultCreditLine
<1>2. lines[b].status \in {"Active", "Restricted"} \cup Suspensions /\ l \in Line
  BY AccruedStart DEF DefaultCreditLine, DefaultAllowed
<1>3. ContextTypeOK'
  BY <1>1 DEF IInv, TypeOK, ContextTypeOK, drawLog, settings
<1>4. "Defaulted" \in Statuses /\ "Defaulted" \notin Suspensions
  BY DEF Suspensions, Statuses
<1>5. draw_reversed' = draw_reversed /\ cfg' = cfg
  BY <1>1 DEF drawLog, settings
<1> HIDE DEF l
<1>6. new = [l EXCEPT !.status = "Defaulted", !.suspension_ts = l.suspension_ts]
      /\ l.suspension_ts \in Nat
  BY <1>2 DEF Line
<1>7. lines[b].status # "Defaulted" /\ <<lines[b].status, "Defaulted">> \in Machine!Edges
  BY <1>2 DEF Suspensions, Machine!Edges, Machine!Suspended
<1> HIDE DEF new
<1> QED
  BY <1>1, <1>3, <1>4, <1>5, <1>6, <1>7, StatusStepKeepsIInv DEF l

\* Attaching a schedule keeps the invariant.
LEMMA SetRepaymentScheduleKeepsIInv ==
  ASSUME IInv, NEW b \in Borrowers, NEW schedule \in Schedules, SetRepaymentSchedule(b, schedule)
  PROVE  IInv' /\ MachineStep
<1>1. schedule \in Schedule
  <2>1. schedule \in [amount : Nat, period : Nat, due : Nat]
    BY InputsAssumption
  <2>2. schedule.amount > 0 /\ schedule.period > 0
    BY DEF SetRepaymentSchedule
  <2> QED
    BY <2>1, <2>2 DEF Schedule
<1>2. ContextTypeOK'
  BY <1>1 DEF SetRepaymentSchedule, IInv, TypeOK, ContextTypeOK, drawLog, settings
<1>3. UNCHANGED <<now, lines, active_line_count, pending_auction_count, draw_reversed, cfg>>
  BY DEF SetRepaymentSchedule, ledger, drawLog, settings
<1> QED
  BY <1>2, <1>3, TimeTypes, LinesUnchangedKeepsIInv DEF IInv

\* A well-typed setting that leaves the fee terms alone while an auction is pending.
LEMMA ConfigureKeepsIInv ==
  ASSUME IInv, NEW new \in Config, Configure(new),
         \/ NoActiveAuctions
         \/ /\ new.surcharge = cfg.surcharge /\ new.late_fee = cfg.late_fee
            /\ new.late_fee_config = cfg.late_fee_config
  PROVE  IInv' /\ MachineStep
<1>1. ContextTypeOK'
  BY DEF Configure, IInv, TypeOK, ContextTypeOK, drawLog
<1>2. /\ UNCHANGED <<now, lines, active_line_count, pending_auction_count, draw_reversed>>
      /\ cfg' = new
  BY DEF Configure, ledger, drawLog
<1> QED
  BY <1>1, <1>2, TimeTypes, LinesUnchangedKeepsIInv DEF IInv

\* A change of a borrower's caps keeps the invariant.
LEMMA ConfigureBorrowerKeepsIInv ==
  ASSUME IInv, NEW new \in [Borrowers -> [util : 1..BPS, exposure : Nat, liq_grace : Nat]],
         ConfigureBorrower(new)
  PROVE  IInv' /\ MachineStep
<1>1. ContextTypeOK'
  BY DEF ConfigureBorrower, IInv, TypeOK, ContextTypeOK, drawLog
<1>2. UNCHANGED <<now, lines, active_line_count, pending_auction_count, draw_reversed, cfg>>
  BY DEF ConfigureBorrower, ledger, drawLog
<1> QED
  BY <1>1, <1>2, TimeTypes, LinesUnchangedKeepsIInv DEF IInv

\* The passing of time keeps the invariant.
LEMMA TickKeepsIInv ==
  ASSUME IInv, Tick
  PROVE  IInv' /\ MachineStep
<1>1. now \in Nat /\ now < MaxTime /\ now' = now + 1
  BY TimeTypes DEF Tick, IInv
<1>2. draw_audit' \in [Borrowers -> [Times -> Nat]]
  BY DEF Tick, IInv, TypeOK, ContextTypeOK
<1>3. now' \in Times \ {0}
  BY <1>1, TimeTypes DEF Times
<1>4. ContextTypeOK'
  BY <1>2, <1>3 DEF Tick, IInv, TypeOK, ContextTypeOK, settings
<1>5. UNCHANGED <<lines, active_line_count, pending_auction_count, draw_reversed, cfg>>
  BY DEF Tick, ledger, settings
<1> QED
  BY <1>1, <1>4, <1>5, LinesUnchangedKeepsIInv

\* The invariant holds initially.
LEMMA InitIInv == Init => IInv
<1> SUFFICES ASSUME Init PROVE IInv
  OBVIOUS
<1>1. NoLine \in Line
  BY ScaleAssumption DEF NoLine, Line, MaxRate
<1>2. LedgerTypeOK
  BY <1>1 DEF Init, LedgerTypeOK
<1>3. ContextTypeOK
  <2>1. now \in Times \ {0}
    BY InputsAssumption DEF Init, Times
  <2>2. cfg \in Config /\ caps \in [Borrowers -> [util : 1..BPS, exposure : Nat, liq_grace : Nat]]
    BY ScaleAssumption DEF Init, Config, MaxRate
  <2> QED
    BY <2>1, <2>2 DEF Init, ContextTypeOK
<1>4. LinesSound
  BY DEF Init, LinesSound, LineSound, InterestSound, NoLine, Suspensions
<1>5. WithStatus("Active") = {} /\ WithStatus("Defaulted") = {}
  BY DEF Init, WithStatus, NoLine
<1>6. CountersExact
  BY <1>5, FS_EmptySet DEF Init, CountersExact, ActiveLineCountExact, PendingAuctionCountExact
<1> QED
  BY <1>2, <1>3, <1>4, <1>6 DEF IInv, TypeOK

\* Every configuration entrypoint keeps the invariant.
LEMMA ConfigStepKeepsIInv ==
  ASSUME IInv, ConfigStep
  PROVE  IInv' /\ MachineStep
<1>1. cfg \in Config
  BY DEF IInv, TypeOK, ContextTypeOK
<1>2. ASSUME NEW g \in GraceConfigs, SetGracePeriodConfig(g) PROVE IInv' /\ MachineStep
  <2> DEFINE new == [cfg EXCEPT !.grace = g]
  <2>1. /\ new \in Config /\ new.surcharge = cfg.surcharge /\ new.late_fee = cfg.late_fee
        /\ new.late_fee_config = cfg.late_fee_config
    BY <1>1, InputsAssumption DEF Config
  <2> QED
    BY <1>2, <2>1, ConfigureKeepsIInv DEF SetGracePeriodConfig
<1>3. ASSUME NEW s \in Surcharges, SetPenaltySurcharge(s) PROVE IInv' /\ MachineStep
  <2>1. [cfg EXCEPT !.surcharge = s] \in Config
    BY <1>1, InputsAssumption DEF Config
  <2> QED
    BY <1>3, <2>1, ConfigureKeepsIInv DEF SetPenaltySurcharge
<1>4. ASSUME NEW f \in LateFees, SetLateFeeFlat(f) PROVE IInv' /\ MachineStep
  <2>1. [cfg EXCEPT !.late_fee = f] \in Config
    BY <1>1, InputsAssumption DEF Config
  <2> QED
    BY <1>4, <2>1, ConfigureKeepsIInv DEF SetLateFeeFlat
<1>5. ASSUME NEW c \in LateFeeConfigs, SetLateFeeConfig(c) PROVE IInv' /\ MachineStep
  <2>1. [cfg EXCEPT !.late_fee_config = c] \in Config
    BY <1>1, InputsAssumption DEF Config
  <2> QED
    BY <1>5, <2>1, ConfigureKeepsIInv DEF SetLateFeeConfig
<1>6. ASSUME NEW c \in ExposureCaps, SetMaxTotalExposure(c) PROVE IInv' /\ MachineStep
  <2> DEFINE new == [cfg EXCEPT !.max_exposure = c]
  <2>1. /\ new \in Config /\ new.surcharge = cfg.surcharge /\ new.late_fee = cfg.late_fee
        /\ new.late_fee_config = cfg.late_fee_config
    BY <1>1, InputsAssumption DEF Config
  <2> QED
    BY <1>6, <2>1, ConfigureKeepsIInv DEF SetMaxTotalExposure
<1>7. ASSUME NEW f \in CloseFactors, SetCloseFactor(f) PROVE IInv' /\ MachineStep
  <2> DEFINE new == [cfg EXCEPT !.close_factor = f]
  <2>1. /\ new \in Config /\ new.surcharge = cfg.surcharge /\ new.late_fee = cfg.late_fee
        /\ new.late_fee_config = cfg.late_fee_config
    BY <1>1, InputsAssumption DEF Config
  <2> QED
    BY <1>7, <2>1, ConfigureKeepsIInv DEF SetCloseFactor
<1>8. ASSUME NEW r \in RateLimits, SetRateChangeLimits(r) PROVE IInv' /\ MachineStep
  <2> DEFINE new == [cfg EXCEPT !.rate_limits = r]
  <2>1. /\ new \in Config /\ new.surcharge = cfg.surcharge /\ new.late_fee = cfg.late_fee
        /\ new.late_fee_config = cfg.late_fee_config
    BY <1>1, InputsAssumption DEF Config
  <2> QED
    BY <1>8, <2>1, ConfigureKeepsIInv DEF SetRateChangeLimits
<1>9. ASSUME NEW i \in DrawIntervals, SetDrawMinInterval(i) PROVE IInv' /\ MachineStep
  <2> DEFINE new == [cfg EXCEPT !.draw_interval = i]
  <2>1. /\ new \in Config /\ new.surcharge = cfg.surcharge /\ new.late_fee = cfg.late_fee
        /\ new.late_fee_config = cfg.late_fee_config
    BY <1>1, InputsAssumption DEF Config
  <2> QED
    BY <1>9, <2>1, ConfigureKeepsIInv DEF SetDrawMinInterval
<1>11. ASSUME NEW m \in CallMaxima, SetMaxDrawAmount(m) PROVE IInv' /\ MachineStep
  <2> DEFINE new == [cfg EXCEPT !.max_draw = m]
  <2>1. /\ new \in Config /\ new.surcharge = cfg.surcharge /\ new.late_fee = cfg.late_fee
        /\ new.late_fee_config = cfg.late_fee_config
    BY <1>1, InputsAssumption DEF Config
  <2> QED
    BY <1>11, <2>1, ConfigureKeepsIInv DEF SetMaxDrawAmount
<1>12. ASSUME NEW m \in CallMaxima, SetMaxRepayAmount(m) PROVE IInv' /\ MachineStep
  <2> DEFINE new == [cfg EXCEPT !.max_repay = m]
  <2>1. /\ new \in Config /\ new.surcharge = cfg.surcharge /\ new.late_fee = cfg.late_fee
        /\ new.late_fee_config = cfg.late_fee_config
    BY <1>1, InputsAssumption DEF Config
  <2> QED
    BY <1>12, <2>1, ConfigureKeepsIInv DEF SetMaxRepayAmount
<1>10. ASSUME SetProtocolPaused PROVE IInv' /\ MachineStep
  <2>1. ContextTypeOK'
    BY <1>10 DEF SetProtocolPaused, IInv, TypeOK, ContextTypeOK, drawLog
  <2>2. UNCHANGED <<now, lines, active_line_count, pending_auction_count, draw_reversed, cfg>>
    BY <1>10 DEF SetProtocolPaused, ledger, drawLog
  <2> QED
    BY <2>1, <2>2, TimeTypes, LinesUnchangedKeepsIInv DEF IInv
<1> QED
  BY <1>2, <1>3, <1>4, <1>5, <1>6, <1>7, <1>8, <1>9, <1>10, <1>11, <1>12 DEF ConfigStep

\* Every entrypoint that sets a borrower's caps keeps the invariant.
LEMMA BorrowerCapsKeepIInv ==
  ASSUME IInv, NEW b \in Borrowers,
         \/ \E c \in UtilCaps : SetUtilizationCap(b, c)
         \/ \E c \in BorrowerCaps : SetBorrowerExposureCap(b, c)
         \/ \E g \in LiqGraces : SetLiquidationGrace(b, g)
  PROVE  IInv' /\ MachineStep
<1> DEFINE Caps == [Borrowers -> [util : 1..BPS, exposure : Nat, liq_grace : Nat]]
<1>1. caps \in Caps
  BY DEF IInv, TypeOK, ContextTypeOK
<1>2. ASSUME NEW c \in UtilCaps, SetUtilizationCap(b, c) PROVE IInv' /\ MachineStep
  <2>1. [caps EXCEPT ![b].util = c] \in Caps
    BY <1>1, InputsAssumption
  <2> QED
    BY <1>2, <2>1, ConfigureBorrowerKeepsIInv DEF SetUtilizationCap
<1>3. ASSUME NEW c \in BorrowerCaps, SetBorrowerExposureCap(b, c) PROVE IInv' /\ MachineStep
  <2>1. [caps EXCEPT ![b].exposure = c] \in Caps
    BY <1>1, InputsAssumption
  <2> QED
    BY <1>3, <2>1, ConfigureBorrowerKeepsIInv DEF SetBorrowerExposureCap
<1>4. ASSUME NEW g \in LiqGraces, SetLiquidationGrace(b, g) PROVE IInv' /\ MachineStep
  <2>1. [caps EXCEPT ![b].liq_grace = g] \in Caps
    BY <1>1, InputsAssumption
  <2> QED
    BY <1>4, <2>1, ConfigureBorrowerKeepsIInv DEF SetLiquidationGrace
<1> QED
  BY <1>2, <1>3, <1>4

\* The invariant is inductive.
LEMMA NextIInv == IInv /\ [Next]_vars => IInv' /\ MachineStep
<1> SUFFICES ASSUME IInv, [Next]_vars PROVE IInv' /\ MachineStep
  OBVIOUS
<1>1. CASE UNCHANGED vars
  <2>1. ContextTypeOK'
    BY <1>1 DEF vars, IInv, TypeOK, ContextTypeOK
  <2>2. UNCHANGED <<now, lines, active_line_count, pending_auction_count, draw_reversed, cfg>>
    BY <1>1 DEF vars
  <2> QED
    BY <2>1, <2>2, TimeTypes, LinesUnchangedKeepsIInv DEF IInv
<1>2. CASE Tick
  BY <1>2, TickKeepsIInv
<1>3. ASSUME NEW b \in Borrowers, DebtStep(b) PROVE IInv' /\ MachineStep
  BY <1>3, DrawCreditKeepsIInv, RepayCreditKeepsIInv, ForgiveDebtKeepsIInv,
     ReverseDrawKeepsIInv, SettleDefaultLiquidationKeepsIInv DEF DebtStep
<1>4. ASSUME NEW b \in Borrowers, LifecycleStep(b) PROVE IInv' /\ MachineStep
  <2>1. CASE SuspendCreditLine(b) \/ SelfSuspendCreditLine(b)
    BY <2>1, SuspendKeepsIInv DEF SuspendCreditLine, SelfSuspendCreditLine, Suspensions
  <2>2. CASE UnsuspendCreditLine(b) \/ SelfUnsuspendCreditLine(b)
    BY <2>2, LiftKeepsIInv DEF UnsuspendCreditLine, SelfUnsuspendCreditLine, Suspensions
  <2>3. CASE \E limit \in Limits, rate \in Rates :
               OpenCreditLine(b, limit, rate) \/ UpdateRiskParameters(b, limit, rate)
    BY <2>3, OpenCreditLineKeepsIInv, UpdateRiskParametersKeepsIInv
  <2>4. CASE \E closer \in {"admin", "borrower"} : CloseCreditLine(b, closer)
    BY <2>4, CloseCreditLineKeepsIInv
  <2>5. CASE DefaultCreditLine(b)
    BY <2>5, DefaultCreditLineKeepsIInv
  <2>6. CASE \E target \in {"Active", "Restricted"} : ReinstateCreditLine(b, target)
    BY <2>6, ReinstateCreditLineKeepsIInv
  <2>7. CASE \E s \in Schedules : SetRepaymentSchedule(b, s)
    BY <2>7, SetRepaymentScheduleKeepsIInv
  <2> QED
    BY <1>4, <2>1, <2>2, <2>3, <2>4, <2>5, <2>6, <2>7, BorrowerCapsKeepIInv DEF LifecycleStep
<1>5. ASSUME NEW batch \in SUBSET Borrowers, AccrueBatch(batch) PROVE IInv' /\ MachineStep
  BY <1>5, AccrueBatchKeepsIInv
<1>6. CASE ConfigStep
  BY <1>6, ConfigStepKeepsIInv
<1> QED
  BY <1>1, <1>2, <1>3, <1>4, <1>5, <1>6 DEF Next
-----------------------------------------------------------------------------
(* What a step may do to one line *)

\* A line stored by a call that is neither a draw nor an opening: it is accrued debt or
\* less, a Closed line stays Closed, and a line is defaulted only when it may be.
Handled(b, l) ==
  /\ Exists(b) /\ l.status # "None"
  /\ l.utilized_amount <= MaxOf(Accrued(b).utilized_amount, 0)
  /\ lines[b].status = "Closed" => l.status = "Closed"
  /\ lines[b].status # "Defaulted" /\ l.status = "Defaulted" => DefaultAllowed(b)

\* A step that stores one such line.
HandlesLine(b) == \E l : PersistCreditLine(b, l) /\ Handled(b, l)

DrawsFor(b) == \E a \in Amounts : DrawCredit(b, a)
OpensFor(b) == \E limit \in Limits, rate \in Rates : OpenCreditLine(b, limit, rate)

\* The calls that lower a debt.
LEMMA DebtCallsHandleLine ==
  ASSUME IInv, NEW b \in Borrowers, DebtStep(b), ~DrawsFor(b)
  PROVE  HandlesLine(b)
<1> DEFINE l == Accrued(b)
<1>1. l \in Line /\ l.status = lines[b].status /\ l.utilized_amount \in Int
      /\ l.accrued_interest \in Int
  BY AccruedStart
<1>2. ASSUME NEW a \in Amounts, RepayCredit(b, a) PROVE HandlesLine(b)
  <2> DEFINE owed == MaxOf(MinOf(l.accrued_interest, MaxOf(l.utilized_amount, 0)), 0)
             pay  == AllocateRepayment(l.utilized_amount, owed, a)
             i    == owed - pay.interest
             u    == MaxOf(l.utilized_amount - pay.effective, 0)
             new  == [l EXCEPT !.accrued_interest = i, !.utilized_amount = u]
  <2>1. PersistCreditLine(b, new) /\ Exists(b) /\ lines[b].status # "Closed"
    BY <1>1, <1>2 DEF RepayCredit, Accruable
  <2>2. a \in Nat /\ owed \in Int
    BY <1>1, InputsAssumption DEF MaxOf, MinOf
  <2>3. pay.effective \in Nat
    <3> HIDE DEF l, owed
    <3> QED BY <1>1, <2>2, AllocateRepaymentSplit
  <2>4. u <= MaxOf(l.utilized_amount, 0)
    <3> HIDE DEF l, pay
    <3> QED BY <1>1, <2>3 DEF MaxOf
  <2> HIDE DEF u, i
  <2>5. new.status = l.status /\ new.utilized_amount = u
    BY <1>1 DEF Line
  <2> HIDE DEF new
  <2>6. Handled(b, new)
    BY <1>1, <2>1, <2>4, <2>5 DEF Handled, Exists
  <2> QED BY <2>1, <2>6 DEF HandlesLine
<1>3. ASSUME NEW a \in Amounts, ForgiveDebt(b, a) PROVE HandlesLine(b)
  <2> DEFINE forgiven == MinOf(a, l.utilized_amount)
             i        == l.accrued_interest - MinOf(forgiven, l.accrued_interest)
             u        == l.utilized_amount - forgiven
             new      == [l EXCEPT !.accrued_interest = i, !.utilized_amount = u]
  <2>1. PersistCreditLine(b, new) /\ Exists(b) /\ lines[b].status # "Closed"
    BY <1>1, <1>3 DEF ForgiveDebt, Accruable
  <2>2. a \in Nat
    BY InputsAssumption
  <2>3. u <= MaxOf(l.utilized_amount, 0)
    <3> HIDE DEF l
    <3> QED BY <1>1, <2>2 DEF MinOf, MaxOf
  <2> HIDE DEF u, i
  <2>4. new.status = l.status /\ new.utilized_amount = u
    BY <1>1 DEF Line
  <2> HIDE DEF new
  <2>5. Handled(b, new)
    BY <1>1, <2>1, <2>3, <2>4 DEF Handled, Exists
  <2> QED BY <2>1, <2>5 DEF HandlesLine
<1>4. ASSUME NEW a \in ReverseAmounts, NEW ts \in Times, ReverseDraw(b, a, ts)
      PROVE  HandlesLine(b)
  <2> DEFINE u   == l.utilized_amount - a
             new == [l EXCEPT !.utilized_amount = u]
  <2>1. PersistCreditLine(b, new) /\ Exists(b)
    BY <1>4 DEF ReverseDraw, Accruable
  <2>2. a \in Nat
    BY InputsAssumption
  <2>3. u <= MaxOf(l.utilized_amount, 0)
    <3> HIDE DEF l
    <3> QED BY <1>1, <2>2 DEF MaxOf
  <2> HIDE DEF u
  <2>4. new.status = l.status /\ new.utilized_amount = u
    BY <1>1 DEF Line
  <2> HIDE DEF new
  <2>5. Handled(b, new)
    BY <1>1, <2>1, <2>3, <2>4 DEF Handled, Exists
  <2> QED BY <2>1, <2>5 DEF HandlesLine
<1>5. ASSUME NEW a \in Amounts, NEW id \in SettlementIds, NEW f \in CloseFactors,
             SettleDefaultLiquidation(b, a, id, f)
      PROVE  HandlesLine(b)
  <2> DEFINE repaid == MinOf(a, l.utilized_amount)
             i      == l.accrued_interest - MinOf(repaid, l.accrued_interest)
             u      == l.utilized_amount - repaid
             st     == IF u = 0 THEN "Closed" ELSE l.status
             new    == [l EXCEPT !.accrued_interest = i, !.utilized_amount = u, !.status = st]
  <2>1. PersistCreditLine(b, new) /\ Exists(b) /\ lines[b].status = "Defaulted"
    BY <1>1, <1>5 DEF SettleDefaultLiquidation, Accruable
  <2>2. a \in Nat
    BY InputsAssumption
  <2>3. u <= MaxOf(l.utilized_amount, 0)
    <3> HIDE DEF l
    <3> QED BY <1>1, <2>2 DEF MinOf, MaxOf
  <2>4. st \in {"Closed", "Defaulted"}
    BY <1>1, <2>1
  <2> HIDE DEF u, i, st
  <2>5. new.status = st /\ new.utilized_amount = u
    BY <1>1 DEF Line
  <2> HIDE DEF new
  <2>6. Handled(b, new)
    BY <1>1, <2>1, <2>3, <2>4, <2>5 DEF Handled
  <2> QED BY <2>1, <2>6 DEF HandlesLine
<1> QED
  BY <1>2, <1>3, <1>4, <1>5 DEF DebtStep, DrawsFor

\* A call that moves a line's status, accrued or not, and leaves the debt.
LEMMA StatusCallHandlesLine ==
  ASSUME IInv, NEW b \in Borrowers, NEW new, PersistCreditLine(b, new), Exists(b),
         new.status # "None", lines[b].status = "Closed" => new.status = "Closed",
         lines[b].status # "Defaulted" /\ new.status = "Defaulted" => DefaultAllowed(b),
         new.utilized_amount \in {lines[b].utilized_amount, Accrued(b).utilized_amount}
  PROVE  HandlesLine(b)
<1>1. /\ lines[b].utilized_amount \in Int /\ Accrued(b).utilized_amount \in Int
      /\ lines[b].utilized_amount <= Accrued(b).utilized_amount
  <2>1. TypeOK /\ lines[b] \in Line
    BY DEF IInv, TypeOK, LedgerTypeOK
  <2>2. lines[b].utilized_amount \in Int
    BY <2>1, LineTypes
  <2>3. PICK i \in Nat : Accrued(b).utilized_amount = lines[b].utilized_amount + i
    BY <2>1, AccruedFacts
  <2> QED BY <2>2, <2>3
<1>2. Handled(b, new)
  BY <1>1 DEF Handled, MaxOf
<1> QED
  BY <1>2 DEF HandlesLine

\* The calls about a line's status and terms.
LEMMA LifecycleCallsHandleLine ==
  ASSUME IInv, NEW b \in Borrowers, LifecycleStep(b), ~OpensFor(b)
  PROVE  HandlesLine(b) \/ UNCHANGED ledger
<1> DEFINE l == Accrued(b)
<1>1. l \in Line /\ lines[b] \in Line /\ l.status = lines[b].status
  BY AccruedStart DEF IInv, TypeOK, LedgerTypeOK
<1>2. ASSUME NEW limit \in Limits, NEW rate \in Rates, UpdateRiskParameters(b, limit, rate)
      PROVE  HandlesLine(b)
  <2> DEFINE r   == IF cfg.rate_limits.on /\ rate # l.interest_rate_bps THEN now
                    ELSE l.last_rate_update_ts
             st  == IF l.utilized_amount > limit
                    THEN IF l.status = "Active" THEN "Restricted" ELSE l.status
                    ELSE IF l.status = "Restricted" THEN "Active" ELSE l.status
             new == [l EXCEPT !.interest_rate_bps = rate, !.credit_limit = limit,
                              !.last_rate_update_ts = r, !.status = st]
  <2>1. PersistCreditLine(b, new) /\ Exists(b)
    BY <1>2 DEF UpdateRiskParameters, Accruable
  <2>2. \/ st = l.status
        \/ st \in {"Active", "Restricted"} /\ l.status \in {"Active", "Restricted"}
    OBVIOUS
  <2> HIDE DEF r, st
  <2>3. new.status = st /\ new.utilized_amount = l.utilized_amount
    BY <1>1 DEF Line
  <2> HIDE DEF new
  <2> QED BY <1>1, <2>1, <2>2, <2>3, StatusCallHandlesLine DEF Exists
<1>3. ASSUME NEW target \in Suspensions, Suspend(b, target)
      PROVE  HandlesLine(b)
  <2> DEFINE new == [l EXCEPT !.status = target, !.suspension_ts = now]
  <2>1. PersistCreditLine(b, new) /\ Exists(b) /\ l.status = "Active"
    BY <1>3 DEF Suspend, Accruable
  <2>2. new.status = target /\ new.utilized_amount = l.utilized_amount
    BY <1>1 DEF Line
  <2> HIDE DEF new
  <2> QED BY <1>1, <2>1, <2>2, StatusCallHandlesLine DEF Suspensions
<1>4. ASSUME NEW sources \in {Suspensions, {"SelfSuspended"}}, Lift(b, sources)
      PROVE  HandlesLine(b)
  <2> DEFINE new == [l EXCEPT !.status = "Active", !.suspension_ts = 0]
  <2>1. PersistCreditLine(b, new) /\ Exists(b) /\ l.status \in Suspensions
    BY <1>4 DEF Lift, Accruable, Suspensions
  <2>2. new.status = "Active" /\ new.utilized_amount = l.utilized_amount
    BY <1>1 DEF Line
  <2> HIDE DEF new
  <2> QED BY <1>1, <2>1, <2>2, StatusCallHandlesLine DEF Suspensions
<1>5. ASSUME NEW closer \in {"admin", "borrower"}, CloseCreditLine(b, closer)
      PROVE  HandlesLine(b)
  <2> DEFINE new == [lines[b] EXCEPT !.status = "Closed"]
  <2>1. PersistCreditLine(b, new) /\ Exists(b)
    BY <1>5 DEF CloseCreditLine
  <2>2. new.status = "Closed" /\ new.utilized_amount = lines[b].utilized_amount
    BY <1>1 DEF Line
  <2> HIDE DEF new
  <2> QED BY <1>1, <2>1, <2>2, StatusCallHandlesLine
<1>6. CASE DefaultCreditLine(b)
  <2> DEFINE new == [l EXCEPT !.status = "Defaulted"]
  <2>1. PersistCreditLine(b, new) /\ Exists(b) /\ DefaultAllowed(b)
        /\ l.status \in {"Active", "Restricted"} \cup Suspensions
    BY <1>6 DEF DefaultCreditLine, DefaultAllowed, Accruable
  <2>2. new.status = "Defaulted" /\ new.utilized_amount = l.utilized_amount
    BY <1>1 DEF Line
  <2> HIDE DEF new
  <2> QED BY <1>1, <2>1, <2>2, StatusCallHandlesLine DEF Suspensions
<1>7. ASSUME NEW target \in {"Active", "Restricted"}, ReinstateCreditLine(b, target)
      PROVE  HandlesLine(b)
  <2> DEFINE new == [l EXCEPT !.status = target, !.suspension_ts = 0]
  <2>1. PersistCreditLine(b, new) /\ Exists(b) /\ l.status = "Defaulted"
    BY <1>7 DEF ReinstateCreditLine, Accruable
  <2>2. new.status = target /\ new.utilized_amount = l.utilized_amount
    BY <1>1 DEF Line
  <2> HIDE DEF new
  <2> QED BY <1>1, <2>1, <2>2, StatusCallHandlesLine
<1>8. ASSUME NEW s \in Schedules, SetRepaymentSchedule(b, s)
      PROVE  UNCHANGED ledger
  BY <1>8 DEF SetRepaymentSchedule
<1>9. ASSUME \/ \E c \in UtilCaps : SetUtilizationCap(b, c)
             \/ \E c \in BorrowerCaps : SetBorrowerExposureCap(b, c)
             \/ \E g \in LiqGraces : SetLiquidationGrace(b, g)
      PROVE  UNCHANGED ledger
  BY <1>9 DEF SetUtilizationCap, SetBorrowerExposureCap, SetLiquidationGrace, ConfigureBorrower
<1> QED
  BY <1>2, <1>3, <1>4, <1>5, <1>6, <1>7, <1>8, <1>9
     DEF LifecycleStep, OpensFor, SuspendCreditLine, SelfSuspendCreditLine,
         UnsuspendCreditLine, SelfUnsuspendCreditLine, Suspensions

\* Every step leaves the ledger alone or is of one of four kinds.
LEMMA LedgerSteps ==
  ASSUME IInv, [Next]_vars
  PROVE  \/ UNCHANGED ledger
         \/ \E b \in Borrowers : HandlesLine(b) \/ OpensFor(b) \/ DrawsFor(b)
         \/ \E batch \in SUBSET Borrowers : AccrueBatch(batch)
<1>1. CASE UNCHANGED vars
  BY <1>1 DEF vars, ledger
<1>2. CASE Tick
  BY <1>2 DEF Tick
<1>3. ASSUME NEW b \in Borrowers, DebtStep(b)
      PROVE  HandlesLine(b) \/ DrawsFor(b)
  BY <1>3, DebtCallsHandleLine
<1>4. ASSUME NEW b \in Borrowers, LifecycleStep(b)
      PROVE  HandlesLine(b) \/ OpensFor(b) \/ UNCHANGED ledger
  BY <1>4, LifecycleCallsHandleLine
<1>5. CASE ConfigStep
  <2>1. (\E new : Configure(new)) \/ SetProtocolPaused
    BY <1>5 DEF ConfigStep, SetGracePeriodConfig, SetPenaltySurcharge, SetLateFeeFlat,
       SetLateFeeConfig, SetMaxTotalExposure, SetCloseFactor, SetRateChangeLimits,
       SetDrawMinInterval, SetMaxDrawAmount, SetMaxRepayAmount
  <2> QED BY <2>1 DEF Configure, SetProtocolPaused
<1> QED
  BY <1>1, <1>2, <1>3, <1>4, <1>5 DEF Next

\* What a step may do to the line of one borrower, whoever it is for.
LEMMA LineSteps ==
  ASSUME IInv, [Next]_vars, NEW b \in Borrowers
  PROVE  \/ lines'[b] = lines[b]
         \/ Handled(b, lines'[b])
         \/ DrawsFor(b)
         \/ OpensFor(b)
<1>1. lines \in [Borrowers -> Line]
  BY DEF IInv, TypeOK, LedgerTypeOK
<1>2. ASSUME NEW x \in Borrowers, NEW l, PersistCreditLine(x, l)
      PROVE  lines'[b] = IF x = b THEN l ELSE lines[b]
  BY <1>1, <1>2 DEF PersistCreditLine
<1>3. ASSUME NEW x \in Borrowers, HandlesLine(x)
      PROVE  lines'[b] = lines[b] \/ Handled(b, lines'[b])
  BY <1>2, <1>3 DEF HandlesLine
<1>4. ASSUME NEW x \in Borrowers, x # b, OpensFor(x)
      PROVE  lines'[b] = lines[b]
  BY <1>2, <1>4 DEF OpensFor, OpenCreditLine
<1>5. Exists(b) => Handled(b, Accrued(b))
  <2>1. Accrued(b).status = lines[b].status /\ Accrued(b).utilized_amount \in Int
    BY AccruedStart
  <2> QED BY <2>1 DEF Handled, MaxOf, Exists
<1>6. ASSUME NEW x \in Borrowers, x # b, DrawsFor(x)
      PROVE  lines'[b] = lines[b] \/ Handled(b, lines'[b])
  <2>1. PICK a \in Amounts : DrawCredit(x, a)
    BY <1>6 DEF DrawsFor
  <2>2. lines' = [(IF cfg.max_exposure > 0 THEN AccrueAllExcept(x) ELSE lines)
                    EXCEPT ![x] = [Accrued(x) EXCEPT !.utilized_amount = @ + a]]
    BY <2>1 DEF DrawCredit, PersistDebts
  <2>3. lines'[b] = lines[b] \/ (Exists(b) /\ lines'[b] = Accrued(b))
    BY <1>1, <1>6, <2>2 DEF AccrueAllExcept
  <2> QED BY <1>5, <2>3
<1>7. ASSUME NEW batch \in SUBSET Borrowers, AccrueBatch(batch)
      PROVE  lines'[b] = lines[b] \/ Handled(b, lines'[b])
  <2>1. lines'[b] = lines[b] \/ (lines[b].status = "Active" /\ lines'[b] = Accrued(b))
    BY <1>7 DEF AccrueBatch, PersistDebts
  <2> QED BY <1>5, <2>1 DEF Exists
<1>8. UNCHANGED ledger => lines'[b] = lines[b]
  BY DEF ledger
<1> QED
  BY <1>3, <1>4, <1>6, <1>7, <1>8, LedgerSteps

\* Accruing a line without debt only brings its clock to now.
LEMMA AccruedIdle ==
  ASSUME IInv, NEW b \in Borrowers, lines[b].utilized_amount = 0
  PROVE  Accrued(b).utilized_amount = 0 /\ Accrued(b).last_accrual_ts = now
<1>1. lines[b] \in Line /\ now \in Nat /\ lines[b].last_accrual_ts <= now
  BY AccruedStart DEF IInv, TypeOK, LedgerTypeOK, LinesSound, LineSound
<1>2. lines[b].last_accrual_ts \in Nat
  BY <1>1, LineTypes
<1>3. CASE now <= lines[b].last_accrual_ts
  BY <1>1, <1>2, <1>3 DEF Accrued
<1>4. CASE ~(now <= lines[b].last_accrual_ts)
  <2>1. Accrued(b) = [lines[b] EXCEPT !.last_accrual_ts = now]
    BY <1>4 DEF Accrued
  <2> QED BY <1>1, <2>1 DEF Line
<1> QED
  BY <1>3, <1>4

\* The line a draw stores.
LEMMA DrawnLine ==
  ASSUME IInv, NEW b \in Borrowers, NEW a \in Amounts, DrawCredit(b, a)
  PROVE  /\ lines'[b].utilized_amount = Accrued(b).utilized_amount + a
         /\ lines'[b].last_accrual_ts = Accrued(b).last_accrual_ts
         /\ lines'[b].status = lines[b].status /\ lines[b].status \in {"Active", "Restricted"}
         /\ WithinBorrowerCaps(b, lines'[b].utilized_amount)
<1> DEFINE l     == Accrued(b)
           drawn == [l EXCEPT !.utilized_amount = @ + a]
<1>1. l \in Line /\ l.status = lines[b].status /\ lines \in [Borrowers -> Line]
  BY AccruedStart DEF IInv, TypeOK, LedgerTypeOK
<1>2. lines' = [(IF cfg.max_exposure > 0 THEN AccrueAllExcept(b) ELSE lines) EXCEPT ![b] = drawn]
  BY DEF DrawCredit, PersistDebts
<1>3. lines'[b] = drawn
  <2> HIDE DEF drawn
  <2> QED BY <1>1, <1>2 DEF AccrueAllExcept
<1>4. WithinBorrowerCaps(b, drawn.utilized_amount) /\ l.status \in {"Active", "Restricted"}
  BY DEF DrawCredit
<1> HIDE DEF l
<1>5. /\ drawn.utilized_amount = l.utilized_amount + a
      /\ drawn.last_accrual_ts = l.last_accrual_ts
      /\ drawn.status = l.status
  BY <1>1 DEF Line
<1> HIDE DEF drawn
<1> QED
  BY <1>1, <1>3, <1>4, <1>5 DEF l

\* The line an opening stores.
LEMMA OpenedLine ==
  ASSUME IInv, NEW b \in Borrowers, OpensFor(b)
  PROVE  /\ lines'[b].status = "Active"
         /\ lines'[b].utilized_amount = IF CarriesDebt(b) THEN lines[b].utilized_amount ELSE 0
         /\ lines'[b].accrued_interest = IF CarriesDebt(b) THEN lines[b].accrued_interest ELSE 0
         /\ lines'[b].last_accrual_ts = IF CarriesDebt(b) THEN lines[b].last_accrual_ts ELSE now
<1>1. lines \in [Borrowers -> Line]
  BY DEF IInv, TypeOK, LedgerTypeOK
<1> QED
  BY <1>1 DEF OpensFor, OpenCreditLine, PersistCreditLine
-----------------------------------------------------------------------------
(* The accumulator *)

\* A borrower without a line owes nothing.
AbsentOweNothing == \A b \in Borrowers : lines[b].status = "None" => lines[b].utilized_amount = 0

\* The accumulator holds initially.
LEMMA InitTotals == Init => TotalUtilizedConserved /\ AbsentOweNothing
<1> SUFFICES ASSUME Init PROVE TotalUtilizedConserved /\ AbsentOweNothing
  OBVIOUS
<1>1. \A b \in Borrowers : lines[b].utilized_amount = 0
  BY DEF Init, NoLine
<1>2. DOMAIN Utilized(lines) = Borrowers /\ \A b \in Borrowers : Utilized(lines)[b] = 0
  BY <1>1 DEF Utilized
<1>3. SumFunction(Utilized(lines)) = 0
  BY <1>2, BorrowersAssumption, SumFunctionZero
<1> QED
  BY <1>1, <1>3 DEF Init, TotalUtilizedConserved, AbsentOweNothing

\* Storing one line moves the accumulator with the sum.
LEMMA PersistCreditLineConserves ==
  ASSUME TypeOK, TypeOK', TotalUtilizedConserved, NEW b \in Borrowers, NEW l,
         PersistCreditLine(b, l)
  PROVE  TotalUtilizedConserved'
<1> DEFINE f == Utilized(lines)
           g == Utilized(lines')
<1>1. lines \in [Borrowers -> Line] /\ lines' \in [Borrowers -> Line]
  BY DEF TypeOK, LedgerTypeOK
<1>2. f \in [Borrowers -> Int] /\ g \in [Borrowers -> Int]
  BY <1>1, LineTypes DEF Utilized
<1>3. /\ lines' = [lines EXCEPT ![b] = l]
      /\ total_utilized' = total_utilized + l.utilized_amount - lines[b].utilized_amount
  BY DEF PersistCreditLine
<1>4. g[b] = l.utilized_amount /\ f[b] = lines[b].utilized_amount
      /\ \A x \in Borrowers : x # b => g[x] = f[x]
  BY <1>1, <1>3 DEF Utilized
<1>5. total_utilized = SumFunction(f)
  BY DEF TotalUtilizedConserved
<1>6. total_utilized' = SumFunction(f) + g[b] - f[b]
  BY <1>3, <1>4, <1>5
<1> HIDE DEF f, g
<1>7. SumFunction(g) = SumFunction(f) + g[b] - f[b]
  BY <1>2, <1>4, BorrowersAssumption, SumFunctionUpdate
<1> QED
  BY <1>6, <1>7 DEF TotalUtilizedConserved, g, Utilized

\* Storing several lines moves the accumulator with the sum.
LEMMA PersistDebtsConserves ==
  ASSUME TypeOK, TypeOK', TotalUtilizedConserved, NEW new, PersistDebts(new)
  PROVE  TotalUtilizedConserved'
<1> DEFINE f == Utilized(lines)
           g == Utilized(lines')
           d == [b \in Borrowers |-> new[b].utilized_amount - lines[b].utilized_amount]
<1>1. lines \in [Borrowers -> Line] /\ lines' \in [Borrowers -> Line] /\ lines' = new
  BY DEF TypeOK, LedgerTypeOK, PersistDebts
<1>2. f \in [Borrowers -> Int] /\ g \in [Borrowers -> Int]
  BY <1>1, LineTypes DEF Utilized
<1>3. \A x \in Borrowers : /\ f[x] = lines[x].utilized_amount
                           /\ g[x] = new[x].utilized_amount
                           /\ f[x] \in Int /\ g[x] \in Int
  BY <1>1, <1>2 DEF Utilized
<1>4. d \in [Borrowers -> Int] /\ \A x \in Borrowers : g[x] = f[x] + d[x]
  <2> HIDE DEF f, g
  <2> QED BY <1>3
<1>5. total_utilized' = SumFunction(f) + SumFunction(d)
  BY DEF PersistDebts, TotalUtilizedConserved
<1> HIDE DEF f, g, d
<1>6. SumFunction(g) = SumFunction(f) + SumFunction(d)
  <2>1. DOMAIN g = Borrowers
    BY <1>2
  <2> QED BY <1>2, <1>4, <2>1, BorrowersAssumption, SumFunctionAdds
<1> QED
  BY <1>5, <1>6 DEF TotalUtilizedConserved, g, Utilized

\* Every step keeps the accumulator equal to the sum.
LEMMA NextTotals ==
  ASSUME IInv, IInv', TotalUtilizedConserved, AbsentOweNothing, [Next]_vars
  PROVE  TotalUtilizedConserved' /\ AbsentOweNothing'
<1>1. TypeOK /\ TypeOK'
  BY DEF IInv
<1>2. TotalUtilizedConserved'
  <2>1. CASE UNCHANGED ledger
    BY <2>1 DEF ledger, TotalUtilizedConserved, Utilized
  <2>2. ASSUME NEW b \in Borrowers, HandlesLine(b) \/ OpensFor(b)
        PROVE  TotalUtilizedConserved'
    <3>1. \E l : PersistCreditLine(b, l)
      BY <2>2 DEF HandlesLine, OpensFor, OpenCreditLine
    <3> QED BY <1>1, <3>1, PersistCreditLineConserves
  <2>3. ASSUME NEW b \in Borrowers, DrawsFor(b) PROVE TotalUtilizedConserved'
    <3>1. \E new : PersistDebts(new)
      BY <2>3 DEF DrawsFor, DrawCredit
    <3> QED BY <1>1, <3>1, PersistDebtsConserves
  <2>4. ASSUME NEW batch \in SUBSET Borrowers, AccrueBatch(batch) PROVE TotalUtilizedConserved'
    <3>1. \E new : PersistDebts(new)
      BY <2>4 DEF AccrueBatch
    <3> QED BY <1>1, <3>1, PersistDebtsConserves
  <2> QED BY <2>1, <2>2, <2>3, <2>4, LedgerSteps
<1>3. AbsentOweNothing'
  <2> SUFFICES ASSUME NEW b \in Borrowers, lines'[b].status = "None"
               PROVE  lines'[b].utilized_amount = 0
    BY DEF AbsentOweNothing
  <2>1. ~Handled(b, lines'[b])
    BY DEF Handled
  <2>2. ~DrawsFor(b)
    BY DrawnLine DEF DrawsFor
  <2>3. ~OpensFor(b)
    BY OpenedLine
  <2>4. lines'[b] = lines[b]
    BY <2>1, <2>2, <2>3, LineSteps
  <2> QED BY <2>4 DEF AbsentOweNothing
<1> QED
  BY <1>2, <1>3

\* Accruing twice at one time is accruing once.
LEMMA AccruedTwice ==
  ASSUME IInv, NEW b \in Borrowers, lines'[b] = Accrued(b), UNCHANGED <<now, schedules, cfg>>
  PROVE  Accrued(b)' = Accrued(b)
<1>1. lines[b] \in Line /\ now \in Nat
  BY AccruedStart DEF IInv, TypeOK, LedgerTypeOK
<1>2. CASE Accrued(b) = lines[b]
  <2>1. lines'[b] = lines[b]
    BY <1>2
  <2>2. InterestDue(b)' = InterestDue(b)
    BY <2>1 DEF InterestDue, GraceSecs, GraceRate, EffectiveRate, IsDelinquent,
                PenaltySurcharge, HasSchedule
  <2> QED BY <2>1, <2>2 DEF Accrued
<1>3. CASE Accrued(b).last_accrual_ts = now
  <2>1. now' <= lines'[b].last_accrual_ts
    BY <1>1, <1>3
  <2>2. Accrued(b)' = lines'[b]
    BY <2>1 DEF Accrued
  <2> QED BY <2>2
<1> QED
  <2>1. Accrued(b) = lines[b] \/ Accrued(b).last_accrual_ts = now
    BY <1>1 DEF Accrued, Line
  <2> QED BY <1>2, <1>3, <2>1

\* Under a global cap a draw stores every other line accrued, so what the others owe is
\* the rest of the accumulator.
LEMMA CappedDrawCountsAll ==
  ASSUME IInv, IInv', TotalUtilizedConserved', AbsentOweNothing',
         NEW b \in Borrowers, NEW a \in Amounts, DrawCredit(b, a), cfg.max_exposure > 0
  PROVE  lines'[b].utilized_amount + OwedByOthers(b)' <= cfg.max_exposure
<1> DEFINE f == Utilized(lines')
           g == [x \in Borrowers |-> IF x = b \/ lines'[x].status = "None" THEN 0
                                     ELSE Accrued(x)'.utilized_amount]
<1>1. lines \in [Borrowers -> Line] /\ lines' \in [Borrowers -> Line]
  BY DEF IInv, TypeOK, LedgerTypeOK
<1>2. f \in [Borrowers -> Int]
  BY <1>1, LineTypes DEF Utilized
<1>3. UNCHANGED <<now, schedules, cfg>> /\ total_utilized' <= cfg.max_exposure
  BY DEF DrawCredit, settings
<1>4. ASSUME NEW x \in Borrowers, x # b PROVE g[x] = f[x]
  <2>1. lines'[x] = IF Exists(x) THEN Accrued(x) ELSE lines[x]
    BY <1>1, <1>4 DEF DrawCredit, PersistDebts, AccrueAllExcept
  <2>2. f[x] = lines'[x].utilized_amount
    BY DEF Utilized
  <2>3. CASE Exists(x)
    <3>1. lines'[x] = Accrued(x) /\ lines'[x].status # "None"
      BY <2>1, <2>3, AccruedStart DEF Exists
    <3>2. Accrued(x)' = Accrued(x)
      BY <1>3, <3>1, AccruedTwice
    <3> QED BY <1>4, <2>2, <3>1, <3>2
  <2>4. CASE ~Exists(x)
    <3>1. lines'[x].status = "None"
      BY <2>1, <2>4 DEF Exists
    <3>2. lines'[x].utilized_amount = 0
      BY <3>1 DEF AbsentOweNothing
    <3> QED BY <2>2, <3>1, <3>2
  <2> QED BY <2>3, <2>4
<1>5. g[b] = 0
  OBVIOUS
<1>6. g \in [Borrowers -> Int]
  <2>1. \A x \in Borrowers : g[x] \in Int
    <3> TAKE x \in Borrowers
    <3>1. CASE x = b
      BY <3>1
    <3>2. CASE x # b
      <4> HIDE DEF f, g
      <4> QED BY <1>2, <1>4, <3>2
    <3> QED BY <3>1, <3>2
  <2> QED BY <2>1
<1>7. OwedByOthers(b)' = SumFunction(g)
  BY DEF OwedByOthers, Exists
<1>8. f[b] = lines'[b].utilized_amount /\ SumFunction(f) = total_utilized'
  BY DEF Utilized, TotalUtilizedConserved
<1> HIDE DEF f, g
<1>9. SumFunction(g) = SumFunction(f) + g[b] - f[b]
  BY <1>2, <1>4, <1>6, BorrowersAssumption, SumFunctionUpdate
<1>10. SumFunction(f) \in Int /\ f[b] \in Int
  BY <1>2, BorrowersAssumption, SumFunctionInt
<1>11. f[b] + SumFunction(g) = SumFunction(f)
  BY <1>5, <1>9, <1>10
<1> QED
  BY <1>3, <1>7, <1>8, <1>11
-----------------------------------------------------------------------------
(* Theorems *)

\* Every reachable state satisfies the inductive invariant.
THEOREM Invariance == Spec => []IInv
  BY InitIInv, NextIInv, PTL DEF Spec

\* Every storage entry keeps its type, for any inputs and any number of borrowers.
THEOREM TypeCorrect == Spec => []TypeOK
<1>1. IInv => TypeOK
  BY DEF IInv
<1> QED
  BY <1>1, Invariance, PTL

\* ActiveLineCount counts the Active lines, PendingAuctionCount the Defaulted ones.
THEOREM Counters == Spec => []CountersExact
<1>1. IInv => CountersExact
  BY DEF IInv
<1> QED
  BY <1>1, Invariance, PTL

\* Suspension stamps are set exactly while they are used, and no interest clock is ahead of
\* the ledger.
THEOREM Stamps == Spec => []StampsSound
<1>1. IInv => StampsSound
  BY DEF IInv, LinesSound, LineSound, StampsSound, SuspensionStampSound, AccrualClockNotAhead
<1> QED
  BY <1>1, Invariance, PTL

\* Without reversals, accrued interest is part of the debt.
THEOREM InterestBounded == Spec => []InterestWithinDebt
<1>1. IInv => InterestWithinDebt
  BY DEF IInv, LinesSound, InterestSound, InterestWithinDebt
<1> QED
  BY <1>1, Invariance, PTL

\* The full inductive invariant: the accumulator holds with what the counters and the
\* lines satisfy.
THEOREM TotalsInvariance == Spec => [](IInv /\ TotalUtilizedConserved /\ AbsentOweNothing)
<1>1. Init => IInv /\ TotalUtilizedConserved /\ AbsentOweNothing
  BY InitIInv, InitTotals
<1>2. /\ IInv /\ TotalUtilizedConserved /\ AbsentOweNothing
      /\ [Next]_vars
      => (IInv /\ TotalUtilizedConserved /\ AbsentOweNothing)'
  BY NextIInv, NextTotals
<1> QED
  BY <1>1, <1>2, PTL DEF Spec

\* The accumulator TotalUtilized is the sum of the stored debts in every reachable state,
\* so the assertion at the end of adjust_total_utilized never fails.
THEOREM TotalConserved == Spec => []TotalUtilizedConserved
  BY TotalsInvariance, PTL

\* Debt that comes after a time without debt is charged from that moment on.
THEOREM FreshDebtClocked == Spec => FreshDebtStartsClock
<1>1. ASSUME IInv, [Next]_vars, NEW b \in Borrowers,
             lines[b].utilized_amount = 0, lines'[b].utilized_amount > 0
      PROVE  lines'[b].last_accrual_ts = now
  <2>1. Accrued(b).utilized_amount = 0 /\ Accrued(b).last_accrual_ts = now
    BY <1>1, AccruedIdle
  <2>2. ~Handled(b, lines'[b])
    <3>1. lines'[b].utilized_amount \in Int
      BY <1>1, NextIInv, LineTypes DEF IInv, TypeOK, LedgerTypeOK
    <3> QED BY <1>1, <2>1, <3>1 DEF Handled, MaxOf
  <2>3. ~OpensFor(b)
    BY <1>1, OpenedLine
  <2>4. DrawsFor(b)
    BY <1>1, <2>2, <2>3, LineSteps
  <2> QED BY <1>1, <2>1, <2>4, DrawnLine DEF DrawsFor
<1>2. IInv /\ [Next]_vars =>
        [\A b \in Borrowers :
           lines[b].utilized_amount = 0 /\ lines'[b].utilized_amount > 0 =>
             lines'[b].last_accrual_ts = now]_vars
  BY <1>1
<1> QED
  BY <1>2, Invariance, PTL DEF Spec, FreshDebtStartsClock

\* A Closed line comes back only by being opened again, and then without its old debt.
THEOREM ReopensEmpty == Spec => ClosedLineReopensEmpty
<1>1. ASSUME IInv, [Next]_vars, NEW b \in Borrowers,
             StatusOf(b) = "Closed", StatusOf(b)' # "Closed"
      PROVE  /\ StatusOf(b)' = "Active"
             /\ lines'[b].utilized_amount = 0 /\ lines'[b].accrued_interest = 0
             /\ lines'[b].last_accrual_ts = now
  <2>1. ~Handled(b, lines'[b]) /\ lines'[b] # lines[b]
    BY <1>1 DEF Handled, StatusOf
  <2>2. ~DrawsFor(b)
    BY <1>1, DrawnLine DEF DrawsFor, StatusOf
  <2>3. OpensFor(b) /\ ~CarriesDebt(b)
    BY <1>1, <2>1, <2>2, LineSteps DEF CarriesDebt, StatusOf
  <2> QED BY <1>1, <2>3, OpenedLine DEF StatusOf
<1>2. IInv /\ [Next]_vars =>
        [\A b \in Borrowers :
           StatusOf(b) = "Closed" /\ StatusOf(b)' # "Closed" =>
             /\ StatusOf(b)' = "Active"
             /\ lines'[b].utilized_amount = 0 /\ lines'[b].accrued_interest = 0
             /\ lines'[b].last_accrual_ts = now]_vars
  BY <1>1
<1> QED
  BY <1>2, Invariance, PTL DEF Spec, ClosedLineReopensEmpty

\* A suspended line is defaulted only after the liquidation grace counted from the
\* suspension.
THEOREM GraceWaitedOut == Spec => DefaultWaitsOutGrace
<1>1. ASSUME IInv, [Next]_vars, NEW b \in Borrowers,
             StatusOf(b) \in Suspensions, StatusOf(b)' = "Defaulted"
      PROVE  now >= After(lines[b].suspension_ts, caps[b].liq_grace)
  <2>1. StatusOf(b) # "Defaulted" /\ lines'[b] # lines[b]
    BY <1>1 DEF Suspensions, StatusOf
  <2>2. ~DrawsFor(b) /\ ~OpensFor(b)
    BY <1>1, DrawnLine, OpenedLine DEF DrawsFor, StatusOf, Suspensions
  <2>3. DefaultAllowed(b)
    BY <1>1, <2>1, <2>2, LineSteps DEF Handled, StatusOf
  <2>4. /\ Accrued(b).suspension_ts = lines[b].suspension_ts
        /\ lines[b].suspension_ts \in 1..now /\ now \in Nat
        /\ caps[b].liq_grace \in Nat /\ MaxTs \in Nat
    BY <1>1, AccruedFacts, TimeTypes
       DEF IInv, TypeOK, ContextTypeOK, LinesSound, LineSound, StatusOf
  <2>5. CASE caps[b].liq_grace > 0
    <3>1. GraceBase(b, Accrued(b)) = lines[b].suspension_ts
      BY <2>4 DEF GraceBase
    <3> QED BY <2>3, <2>5, <3>1 DEF DefaultAllowed
  <2>6. CASE caps[b].liq_grace = 0
    BY <2>4, <2>6 DEF After, MinOf
  <2> QED BY <2>4, <2>5, <2>6
<1>2. IInv /\ [Next]_vars =>
        [\A b \in Borrowers :
           StatusOf(b) \in Suspensions /\ StatusOf(b)' = "Defaulted" =>
             now >= After(lines[b].suspension_ts, caps[b].liq_grace)]_vars
  BY <1>1
<1> QED
  BY <1>2, Invariance, PTL DEF Spec, DefaultWaitsOutGrace

\* Every draw respects the borrower's caps and the global cap, with all interest owed
\* by anyone counted.
THEOREM DrawsCapped == Spec => DrawWithinCaps
<1> DEFINE Inv == IInv /\ TotalUtilizedConserved /\ AbsentOweNothing
           Capped(b) ==
             LET debt == lines'[b].utilized_amount
             IN  lines[b].utilized_amount >= 0 /\ debt > Accrued(b).utilized_amount =>
                   /\ debt <= MinOf(lines[b].credit_limit,
                                    ApplyBps(lines[b].credit_limit, caps[b].util))
                   /\ caps[b].exposure > 0 => debt <= caps[b].exposure
                   /\ cfg.max_exposure > 0 => debt + OwedByOthers(b)' <= cfg.max_exposure
<1>1. ASSUME Inv, [Next]_vars, NEW b \in Borrowers
      PROVE  Capped(b)
  <2> DEFINE debt == lines'[b].utilized_amount
  <2> SUFFICES ASSUME lines[b].utilized_amount >= 0, debt > Accrued(b).utilized_amount
               PROVE  /\ debt <= MinOf(lines[b].credit_limit,
                                       ApplyBps(lines[b].credit_limit, caps[b].util))
                      /\ caps[b].exposure > 0 => debt <= caps[b].exposure
                      /\ cfg.max_exposure > 0 => debt + OwedByOthers(b)' <= cfg.max_exposure
    OBVIOUS
  <2>1. IInv' /\ TotalUtilizedConserved' /\ AbsentOweNothing'
    BY <1>1, NextIInv, NextTotals
  <2>2. /\ lines[b].utilized_amount \in Int /\ Accrued(b).utilized_amount \in Int
        /\ debt \in Int /\ Accrued(b).utilized_amount >= lines[b].utilized_amount
    <3>1. TypeOK /\ lines[b] \in Line /\ lines'[b] \in Line
      BY <1>1, <2>1 DEF IInv, TypeOK, LedgerTypeOK
    <3>2. lines[b].utilized_amount \in Int /\ debt \in Int
      BY <3>1, LineTypes
    <3>3. PICK i \in Nat : Accrued(b).utilized_amount = lines[b].utilized_amount + i
      BY <3>1, AccruedFacts
    <3> QED BY <3>2, <3>3
  <2>3. ~Handled(b, lines'[b]) /\ lines'[b] # lines[b]
    BY <2>2 DEF Handled, MaxOf
  <2>4. ~OpensFor(b)
    <3>1. OpensFor(b) => debt \in {lines[b].utilized_amount, 0}
      BY <1>1, OpenedLine
    <3> HIDE DEF debt
    <3> QED BY <2>2, <3>1
  <2>5. PICK a \in Amounts : DrawCredit(b, a)
    BY <1>1, <2>3, <2>4, LineSteps DEF DrawsFor
  <2>6. WithinBorrowerCaps(b, debt)
    BY <1>1, <2>5, DrawnLine
  <2>7. cfg.max_exposure > 0 => debt + OwedByOthers(b)' <= cfg.max_exposure
    BY <1>1, <2>1, <2>5, CappedDrawCountsAll
  <2> QED BY <2>6, <2>7 DEF WithinBorrowerCaps, MinOf
<1>2. Inv /\ [Next]_vars => [\A b \in Borrowers : Capped(b)]_vars
  <2> HIDE DEF Inv, Capped
  <2> QED BY <1>1
<1> QED
  BY <1>2, TotalsInvariance, PTL DEF Spec, DrawWithinCaps

\* The credit contract implements the documented status machine.
THEOREM ImplementsStatusMachine == Spec => StatusMachineImplemented
<1>1. Init => Machine!Init
  BY DEF Init, Machine!Init, NoLine
<1>2. IInv /\ [Next]_vars => [Machine!Next]_(Machine!vars)
  BY NextIInv DEF MachineStep
<1> QED
  BY <1>1, <1>2, Invariance, PTL DEF Spec, StatusMachineImplemented, Machine!Spec
=============================================================================
