----------------------------- MODULE CosmCredit -----------------------------
(***************************************************************************)
(* The CosmWasm contract creditra-credit: credit lines, their draws and    *)
(* the audit trail of each draw, multi-token collateral with risk weights, *)
(* the protocol fee of a repayment, and the queries over them.  Ids of the *)
(* code start at 0; here line i and draw j are positions of sequences.     *)
(* Messages the owner sends are actions without a sender; the ones that    *)
(* check another sender take it as the parameter `by'.                     *)
(***************************************************************************)
EXTENDS Host, SequencesExt

CONSTANTS
  Clients,            \* accounts: borrowers and strangers
  Denoms,
  LineTerms,          \* [collateral_denom, collateral_amount, credit_denom, credit_amount]
  DrawAmounts,
  DepositAmounts,
  FeeRates,           \* protocol fees, in parts of BpsUnit
  RiskWeights,        \* risk weights, in parts of BpsUnit
  BpsUnit,            \* 10_000
  MaxFeeBps,          \* MAX_PROTOCOL_FEE_BPS
  MaxTokens,          \* MAX_COLLATERAL_TOKENS
  HealthCap,          \* u32::MAX
  YearSecs,           \* SECONDS_PER_YEAR
  PageLimits,         \* page sizes a reader of the audit trail asks for
  MaxCreditLines, MaxDraws, MaxEntries   \* bounds of the model

ASSUME CosmAssumption ==
  /\ BpsUnit \in Nat \ {0} /\ MaxFeeBps \in 0..BpsUnit
  /\ MaxTokens \in Nat /\ HealthCap \in Nat /\ YearSecs \in Nat \ {0}
  /\ FeeRates \subseteq Nat /\ RiskWeights \subseteq Nat /\ PageLimits \subseteq Nat
  /\ DrawAmounts \subseteq Nat /\ DepositAmounts \subseteq Nat
  /\ \A t \in LineTerms : t.credit_amount \in Nat

VARIABLES
  clines,             \* CREDIT_LINES, CREDIT_LINE_COUNT
  draws,              \* DRAWS, DRAW_COUNT: per line, a sequence of draws
  audit,              \* DRAW_AUDIT, DRAW_AUDIT_COUNT: per draw, a sequence of entries
  fees,               \* PROTOCOL_FEE_BPS, TREASURY_BALANCE, BOUNTY_BALANCE
  allowlist,          \* COLLATERAL_TOKEN_ALLOWLIST
  weights,            \* COLLATERAL_RISK_WEIGHTS of the denoms that have one
  balances,           \* COLLATERAL_BALANCES
  tokens,             \* BORROWER_COLLATERAL_TOKENS
  pages,              \* what an external reader fetched of the trail of line 1
  skimmed             \* fees charged and not withdrawn, per denom (history)

ledgerVars == <<clines, draws, audit, fees, skimmed>>
collateralVars == <<allowlist, weights, balances, tokens>>
cosmVars == <<ledgerVars, collateralVars, pages>>

\* The three records of the contract's storage; ids are positions.
CreditLine == [borrower : Clients, terms : LineTerms, active : BOOLEAN]
Draw == [amount : Nat \ {0}, denom : Denoms, drawn_by : Clients, repaid : BOOLEAN]
DrawAuditEntry == [action : {"DrawCreated", "Repaid", "MemoAdded"}, by : Clients \cup {"owner"},
                   timestamp : Nat]

CosmInit ==
  /\ clines = << >> /\ draws = << >> /\ audit = << >>
  /\ fees = [bps |-> 0, treasury |-> [d \in Denoms |-> 0], bounty |-> [d \in Denoms |-> 0]]
  /\ skimmed = [d \in Denoms |-> 0]
  /\ allowlist = << >> /\ weights = << >>
  /\ balances = [c \in Clients |-> [d \in Denoms |-> 0]]
  /\ tokens = [c \in Clients |-> << >>]
  /\ pages = << >>
-----------------------------------------------------------------------------
SumSeq(s, Op(_)) == SumFunction([k \in DOMAIN s |-> Op(s[k])])

OutstandingUtilization(i) == SumSeq(draws[i], LAMBDA w : IF w.repaid THEN 0 ELSE w.amount)

\* A second line of a borrower is allowed.  (BORROWER_TO_ID, which then points at the newer one, is
\* left out: the contract writes it here and reads it nowhere.)
CreateCreditLine(b, terms) ==
  /\ Len(clines) < MaxCreditLines
  /\ clines' = Append(clines, [borrower |-> b, terms |-> terms, active |-> TRUE])
  /\ draws' = Append(draws, << >>)
  /\ audit' = Append(audit, << >>)
  /\ UNCHANGED <<now, fees, skimmed, collateralVars, pages>>

Entry(action, by) == [action |-> action, by |-> by, timestamp |-> now]

\* Neither the denom nor `active' is compared with the line.
CreateDraw(by, i, amount, denom) ==
  /\ Len(draws[i]) < MaxDraws
  /\ by = clines[i].borrower
  /\ amount > 0
  /\ OutstandingUtilization(i) + amount <= clines[i].terms.credit_amount
  /\ draws' = [draws EXCEPT ![i] = Append(@,
                 [amount |-> amount, denom |-> denom, drawn_by |-> by, repaid |-> FALSE])]
  /\ audit' = [audit EXCEPT ![i] = Append(@, <<Entry("DrawCreated", by)>>)]
  /\ UNCHANGED <<now, clines, fees, skimmed, collateralVars, pages>>

AppendAuditEntry(i, j, action, by) ==
  audit' = [audit EXCEPT ![i][j] = Append(@, Entry(action, by))]

SplitProtocolFee(total, share) ==
  LET treasury == CASE share = 0 -> 0
                    [] share >= BpsUnit -> total
                    [] OTHER -> Share(total, share, BpsUnit)
  IN  [treasury |-> treasury, bounty |-> total - treasury]

\* No code stores a market's share or the default one, so this is always the built-in.
GetTreasuryFeeShare(denom) == BpsUnit

AccrueProtocolFee(denom, total) ==
  LET split == SplitProtocolFee(total, GetTreasuryFeeShare(denom))
  IN  fees' = [fees EXCEPT !.treasury[denom] = @ + split.treasury,
                           !.bounty[denom] = @ + split.bounty]

\* Mutant: the audit entry of a repayment is forgotten.
RepayDrawSilently(by, i, j) ==
  /\ Len(audit[i][j]) < MaxEntries
  /\ by = clines[i].borrower /\ by = draws[i][j].drawn_by
  /\ draws' = [draws EXCEPT ![i][j].repaid = TRUE]
  /\ UNCHANGED <<now, clines, audit, fees, skimmed, collateralVars, pages>>

\* `repaid' is not a guard: the borrower can repay a draw again, which charges the fee again.
RepayDraw(by, i, j) ==
  LET draw == draws[i][j]
      fee  == Share(draw.amount, fees.bps, BpsUnit)
  IN  /\ Len(audit[i][j]) < MaxEntries
      /\ by = clines[i].borrower
      /\ by = draw.drawn_by
      /\ AccrueProtocolFee(draw.denom, fee)
      /\ skimmed' = [skimmed EXCEPT ![draw.denom] = @ + fee]
      /\ draws' = [draws EXCEPT ![i][j].repaid = TRUE]
      /\ AppendAuditEntry(i, j, "Repaid", by)
      /\ UNCHANGED <<now, clines, collateralVars, pages>>

AddAuditMemo(i, j) ==
  /\ Len(audit[i][j]) < MaxEntries
  /\ AppendAuditEntry(i, j, "MemoAdded", "owner")
  /\ UNCHANGED <<now, clines, draws, fees, skimmed, collateralVars, pages>>

\* The two fee operations of the crate's library that no message reaches; withdraw_bounty is
\* like withdraw_treasury, of a balance that stays empty as long as no share is stored.
SetProtocolFeeBps(bps) ==
  /\ bps <= MaxFeeBps
  /\ fees' = [fees EXCEPT !.bps = bps]
  /\ UNCHANGED <<now, clines, draws, audit, skimmed, collateralVars, pages>>

WithdrawTreasury(denom, amount) ==
  /\ amount > 0
  /\ amount <= fees.treasury[denom]
  /\ fees' = [fees EXCEPT !.treasury[denom] = @ - amount]
  /\ skimmed' = [skimmed EXCEPT ![denom] = @ - amount]
  /\ UNCHANGED <<now, clines, draws, audit, collateralVars, pages>>
-----------------------------------------------------------------------------
IsCollateralTokenAllowed(denom) == Contains(allowlist, denom)

CollateralRiskWeight(denom) == IF denom \in DOMAIN weights THEN weights[denom] ELSE BpsUnit

DepositCollateral(c, denom, amount) ==
  /\ amount > 0
  /\ IsCollateralTokenAllowed(denom)
  /\ balances' = [balances EXCEPT ![c][denom] = @ + amount]
  /\ tokens' = [tokens EXCEPT ![c] = IF Contains(@, denom) THEN @ ELSE Append(@, denom)]
  /\ UNCHANGED <<now, ledgerVars, allowlist, weights, pages>>

\* The token need not be on the allowlist any more, and no debt is looked at.
WithdrawCollateral(c, denom, amount) ==
  /\ amount > 0
  /\ amount <= balances[c][denom]
  /\ balances' = [balances EXCEPT ![c][denom] = @ - amount]
  /\ tokens' = [tokens EXCEPT ![c] = IF amount = balances[c][denom] THEN Remove(@, denom) ELSE @]
  /\ UNCHANGED <<now, ledgerVars, allowlist, weights, pages>>

SetWeight(denom, weight) == [d \in DOMAIN weights \cup {denom} |-> IF d = denom THEN weight ELSE weights[d]]

AddCollateralToken(denom, weight) ==
  /\ weight <= BpsUnit
  /\ ~IsCollateralTokenAllowed(denom)
  /\ Len(allowlist) < MaxTokens
  /\ allowlist' = Append(allowlist, denom)
  /\ weights' = IF weight = BpsUnit THEN weights ELSE SetWeight(denom, weight)
  /\ UNCHANGED <<now, ledgerVars, balances, tokens, pages>>

\* Mutant: the weight survives the removal.
RemoveCollateralTokenOnly(denom) ==
  /\ IsCollateralTokenAllowed(denom)
  /\ allowlist' = Remove(allowlist, denom)
  /\ UNCHANGED <<now, ledgerVars, weights, balances, tokens, pages>>

\* Deposits in the token stay, from now on with the default weight.
RemoveCollateralToken(denom) ==
  /\ IsCollateralTokenAllowed(denom)
  /\ allowlist' = Remove(allowlist, denom)
  /\ weights' = [d \in DOMAIN weights \ {denom} |-> weights[d]]
  /\ UNCHANGED <<now, ledgerVars, balances, tokens, pages>>

SetCollateralRiskWeight(denom, weight) ==
  /\ weight <= BpsUnit
  /\ IsCollateralTokenAllowed(denom)
  /\ weights' = SetWeight(denom, weight)
  /\ UNCHANGED <<now, ledgerVars, allowlist, balances, tokens, pages>>
-----------------------------------------------------------------------------
\* query_borrower_collateral: what the token list finds.
BorrowerCollateral(c) == SelectSeq(tokens[c], LAMBDA d : balances[c][d] > 0)

WeightedCollateralTotal(c) ==
  SumSeq(BorrowerCollateral(c),
         LAMBDA d : Share(balances[c][d], CollateralRiskWeight(d), BpsUnit))

\* The answer to GetCollateralBalance for all denoms of a borrower.
CollateralBalance(c) ==
  [entries |-> [k \in DOMAIN BorrowerCollateral(c) |->
     LET d == BorrowerCollateral(c)[k]
     IN  [denom |-> d, amount |-> balances[c][d], risk_weight |-> CollateralRiskWeight(d)]],
   weighted_total |-> WeightedCollateralTotal(c)]

HealthOf(i, broke) ==
  LET used      == OutstandingUtilization(i)
      effective == clines[i].terms.collateral_amount + WeightedCollateralTotal(clines[i].borrower)
  IN  CASE used = 0 -> HealthCap
        [] used # 0 /\ (effective = 0 \/ broke) -> 0
        [] OTHER -> LET ratio == (effective * BpsUnit) \div used
                    IN  IF ratio > HealthCap THEN HealthCap ELSE ratio

BorrowerHealthFactor(i) == HealthOf(i, clines[i].terms.credit_amount = 0)

\* The snapshot does not look at the credit amount.
CreditLineSnapshot(i) ==
  [utilized |-> OutstandingUtilization(i), health |-> HealthOf(i, FALSE), draws |-> draws[i],
   collateral |-> CollateralBalance(clines[i].borrower)]

Held(c, d) == IF Contains(BorrowerCollateral(c), d) THEN balances[c][d] ELSE 0

\* The entry of denom `d' in the reserves, for a filter that lets `d' through.
ReserveOf(d, filter) ==
  LET lineSum(Op(_)) == SumSeq(clines, LAMBDA l : IF l.active THEN Op(l) ELSE 0)
      drawSum(Op(_)) == SumSeq(FlattenSeq(draws), LAMBDA w : IF w.denom = d THEN Op(w) ELSE 0)
  IN  [collateral |-> lineSum(LAMBDA l : Held(l.borrower, d)
         + IF l.terms.collateral_denom = d THEN l.terms.collateral_amount ELSE 0),
       limit |-> lineSum(LAMBDA l : IF l.terms.credit_denom = d THEN l.terms.credit_amount ELSE 0),
       drawn |-> drawSum(LAMBDA w : IF w.repaid THEN 0 ELSE w.amount),
       repaid |-> drawSum(LAMBDA w : IF w.repaid THEN w.amount ELSE 0)]

\* query_proof_of_reserve.  A borrower's deposits are added once per line of the borrower, and
\* with a filter also for the lines the filter does not match.
ProofOfReserve(filter) ==
  LET passes(d)  == filter \in {"none", d}
      matches(l) == passes(l.terms.collateral_denom) \/ passes(l.terms.credit_denom)
      lineSum(Op(_)) == SumSeq(clines, LAMBDA l : IF l.active /\ matches(l) THEN Op(l) ELSE 0)
      drawSum(Op(_)) == SumSeq(FlattenSeq(draws), LAMBDA w : IF passes(w.denom) THEN Op(w) ELSE 0)
  IN  [lines |-> SumSeq(clines, LAMBDA l : IF matches(l) THEN 1 ELSE 0),
       active |-> lineSum(LAMBDA l : 1),
       collateral |-> lineSum(LAMBDA l : l.terms.collateral_amount)
         + SumSeq(clines, LAMBDA l : IF ~l.active THEN 0 ELSE
             MapThenSumSet(LAMBDA d : IF passes(d) THEN Held(l.borrower, d) ELSE 0, Denoms)),
       limit |-> lineSum(LAMBDA l : l.terms.credit_amount),
       drawn |-> drawSum(LAMBDA w : IF w.repaid THEN 0 ELSE w.amount),
       repaid |-> drawSum(LAMBDA w : IF w.repaid THEN w.amount ELSE 0),
       reserves |-> [d \in {x \in Denoms : passes(x)} |-> ReserveOf(d, filter)]]

\* accrued_interest and mul_div of the crate's library, products in full width.
AccruedInterest(principal, rate, elapsed) == (principal * rate * elapsed) \div (BpsUnit * YearSecs)

MulDiv(amount, num, den, rounding) ==
  (amount * num) \div den + IF rounding = "Ceil" /\ (amount * num) % den # 0 THEN 1 ELSE 0

BuildResponse(i, j) == [draw_id |-> j, repaid |-> draws[i][j].repaid, events |-> audit[i][j]]

\* query_draw_audit_trail without a draw id: the draws after `after', at most `limit'.
DrawAuditTrail(i, after, limit) ==
  LET start == after + 1
      end   == IF start + limit - 1 < Len(draws[i]) THEN start + limit - 1 ELSE Len(draws[i])
  IN  [k \in 1..(end - start + 1) |-> BuildResponse(i, start + k - 1)]

\* An external reader pages through line 1, asking for what follows the last draw it has.
ReadPage(limit) ==
  LET after == IF pages = << >> THEN 0 ELSE Last(pages).draw_id
  IN  /\ clines # << >>
      /\ DrawAuditTrail(1, after, limit) # << >>
      /\ pages' = pages \o DrawAuditTrail(1, after, limit)
      /\ UNCHANGED <<now, ledgerVars, collateralVars>>
-----------------------------------------------------------------------------
LedgerNext ==
  \/ \E b \in Clients, t \in LineTerms : CreateCreditLine(b, t)
  \/ \E b \in Clients, i \in DOMAIN clines :
       \/ \E a \in DrawAmounts, d \in Denoms : CreateDraw(b, i, a, d)
       \/ \E j \in DOMAIN draws[i] : RepayDraw(b, i, j)
  \/ \E i \in DOMAIN clines : \E j \in DOMAIN draws[i] : AddAuditMemo(i, j)

FeeNext ==
  \/ \E bps \in FeeRates : SetProtocolFeeBps(bps)
  \/ \E d \in Denoms, a \in DrawAmounts : WithdrawTreasury(d, a)

CollateralNext ==
  \/ \E c \in Clients, d \in Denoms, a \in DepositAmounts :
       DepositCollateral(c, d, a) \/ WithdrawCollateral(c, d, a)
  \/ \E d \in Denoms, w \in RiskWeights :
       AddCollateralToken(d, w) \/ SetCollateralRiskWeight(d, w)
  \/ \E d \in Denoms : RemoveCollateralToken(d)

ReaderNext == \E l \in PageLimits : ReadPage(l)
-----------------------------------------------------------------------------
\* The type invariant of the contract's storage: balances never go below zero, and what is
\* stored for a denom, a client or a line is of its kind.
CosmTypeOK ==
  /\ clines \in Seq(CreditLine)
  /\ \A i \in DOMAIN clines : /\ draws[i] \in Seq(Draw)
                               /\ \A j \in DOMAIN audit[i] : audit[i][j] \in Seq(DrawAuditEntry)
  /\ fees \in [bps : 0..MaxFeeBps, treasury : [Denoms -> Nat], bounty : [Denoms -> Nat]]
  /\ \A d \in DOMAIN weights : weights[d] \in 0..BpsUnit
  /\ balances \in [Clients -> [Denoms -> Nat]]

\* A draw never takes a line over its credit amount, however draws and repayments (of the
\* same draw, too) follow each other: the limit is enforced against the sum of stored draws.
CosmWithinCredit ==
  \A i \in DOMAIN clines : OutstandingUtilization(i) <= clines[i].terms.credit_amount

\* The audit trail tells the truth: a draw counts as repaid exactly if a Repaid entry of its
\* borrower is on record, entries are in the order of time, and the creation comes first.
AuditTrailAgrees ==
  \A i \in DOMAIN clines :
    /\ Len(audit[i]) = Len(draws[i])
    /\ \A j \in DOMAIN draws[i] :
         LET trail == audit[i][j]
         IN  /\ trail[1].action = "DrawCreated" /\ trail[1].by = clines[i].borrower
             /\ draws[i][j].repaid <=> \E e \in Range(trail) : e.action = "Repaid"
             /\ \A k \in 2..Len(trail) : trail[k].timestamp >= trail[k - 1].timestamp

\* Every fee charged is on one of the two balances until it is withdrawn, also when a draw is
\* repaid twice or the rate changes between charges.
FeesConserved == \A d \in Denoms : fees.treasury[d] + fees.bounty[d] = skimmed[d]

\* A borrower's token list names exactly the denoms with a balance, once each, so
\* the weighted total misses no deposit and counts none twice.
TokenListExact ==
  \A c \in Clients :
    /\ Range(tokens[c]) = {d \in Denoms : balances[c][d] > 0}
    /\ IsInjective(tokens[c])
    /\ CollateralBalance(c).weighted_total
         = MapThenSumSet(LAMBDA d : Share(balances[c][d], CollateralRiskWeight(d), BpsUnit), Denoms)

\* A token off the allowlist has no stored risk weight, so listing it again at the default
\* weight does not bring an old one back.
NoOrphanWeight == \A d \in DOMAIN weights : IsCollateralTokenAllowed(d)

\* The two views of a line's health agree in every reachable state although only one of them
\* treats a zero credit amount specially: such a line has no outstanding draw.
HealthViewsAgree ==
  \A i \in DOMAIN clines : CreditLineSnapshot(i).health = BorrowerHealthFactor(i)

OneLineEach == \A i, j \in DOMAIN clines : clines[i].borrower = clines[j].borrower => i = j

\* The proof of reserve is consistent with itself and with the ledger: its totals are the sums
\* of its denoms' entries, what is outstanding is what the lines' own limits are checked
\* against, and as long as no borrower has two lines no deposit is counted twice.
ReservesAgree ==
  LET report == ProofOfReserve("none")
      held(c) == MapThenSumSet(LAMBDA d : balances[c][d], Denoms)
  IN  /\ report.collateral = MapThenSumSet(LAMBDA d : report.reserves[d].collateral, Denoms)
      /\ report.limit = MapThenSumSet(LAMBDA d : report.reserves[d].limit, Denoms)
      /\ report.drawn = MapThenSumSet(LAMBDA d : ProofOfReserve(d).drawn, Denoms)
      /\ report.drawn = MapThenSumSet(LAMBDA i : OutstandingUtilization(i), DOMAIN clines)
      /\ OneLineEach =>
           report.collateral
             = SumSeq(clines, LAMBDA l : l.terms.collateral_amount + held(l.borrower))

\* Interest on what a line owes, charged in two periods, is never more than for both at once,
\* and less by no more than rounding the second period up would bring; an exact quotient is
\* not rounded.
InterestSplits ==
  \A i \in DOMAIN clines, rate \in FeeRates, s, t \in 0..YearSecs :
    LET p == OutstandingUtilization(i)
        second(rounding) == MulDiv(p * rate, t, BpsUnit * YearSecs, rounding)
        whole == AccruedInterest(p, rate, s + t)
    IN  /\ AccruedInterest(p, rate, s) + second("Floor") <= whole
        /\ whole <= AccruedInterest(p, rate, s) + second("Ceil")
        /\ second("Ceil") * BpsUnit * YearSecs < p * rate * t + BpsUnit * YearSecs

\* A reader that pages through a line while draws are made and repaid gets every draw once, in
\* order, and never sees one as repaid that is not: it can only overestimate what is owed.
PagesFaithful ==
  \A k \in DOMAIN pages :
    /\ pages[k].draw_id = k /\ k \in DOMAIN draws[1]
    /\ pages[k].repaid => draws[1][k].repaid
    /\ IsPrefix(pages[k].events, audit[1][k])

\* The health of a line rises only with a repayment of it, with a deposit, or with the weight
\* of a token its borrower holds; creating draws or paying other lines back never helps.
HealthRisesForAReason ==
  [][\A i \in DOMAIN clines :
       LET c == clines[i].borrower
       IN  BorrowerHealthFactor(i)' > BorrowerHealthFactor(i)
           => \/ \E j \in DOMAIN draws[i] : draws[i][j].repaid # draws'[i][j].repaid
              \/ \E d \in Denoms : balances'[c][d] > balances[c][d]
              \/ \E d \in Denoms : balances[c][d] > 0
                                   /\ CollateralRiskWeight(d)' > CollateralRiskWeight(d)
    ]_cosmVars

\* The draws of a line: within its credit, in its audit trail, with their fees booked once and
\* their interest split without loss, and readable page by page while they change.
CosmLedgerSound ==
  CosmTypeOK /\ CosmWithinCredit /\ AuditTrailAgrees /\ FeesConserved /\ InterestSplits /\ PagesFaithful

\* The collateral of a line: lists and weights agree with the deposits, the views with each other,
\* and health rises only for a reason.
CosmCollateralSound ==
  [](TokenListExact /\ NoOrphanWeight /\ HealthViewsAgree /\ ReservesAgree) /\ HealthRisesForAReason
=============================================================================
