# TLA+ verification of the Creditra contracts

This project models the Creditra repository: the Soroban contract that keeps credit
lines for borrowers (`contracts/credit`), the auction contract that liquidates
defaulted lines (`gateway-contract/contracts/auction_contract`), and the contracts
beside them (collateral, risk, escrow, milestones, crowdpay, and the CosmWasm contract
`creditra-credit`). The models are checked with TLC on small instances, and nearly
all of their safety properties are proved with TLAPS for every value of the constants.

A contract invocation is atomic on Soroban: it runs to the end, or it reverts
and leaves no trace. Each entrypoint is therefore **one action**, enabled exactly
when the invocation would not revert. What remains hard, and what the models are
about, is the *order of invocations* by different parties over time: interest
that every entrypoint has to capitalise first, aggregates kept by hand beside the
lines, grace windows, timelocks and cooldowns, rounding, several kinds of money in one
token balance, two contracts that settle one debt, and readers (indexers, dashboards,
paging clients) that see the state through events and views while it changes.

## 1. Inventory

| Part | State | Operations | Interaction | Module |
|---|---|---|---|---|
| Credit ledger (`lib.rs`, `lifecycle.rs`, `storage.rs`) | `CreditLineData` per borrower, `TotalUtilized`, `ActiveLineCount`, `PendingAuctionCount`, schedules, draw audit, settlement markers, caps | open, draw, repay, suspend, close, default, reinstate, settle, forgive, reverse, schedules, configuration | every mutating call accrues first; draws under a global cap accrue *all* lines | CreditLines |
| Interest (`accrual.rs`, `penalties.rs`, `math_utils.rs`) | `last_accrual_ts`, `accrued_interest`; grace and surcharge configuration | `apply_accrual`, `accrue_batch`, `accrue_all_except` | called from the ledger | CreditLines, CreditMath |
| Risk parameters (`risk.rs`) | limit, rate, `last_rate_update_ts`, formula, floor, ceiling, change limits | `update_risk_parameters` and its settings | accrues, may move a line between Active and Restricted | CreditLines, RatePolicy |
| Collateral (`collateral.rs`) | `CollateralBalance`, `TotalCollateral`, ratio, risk weights | deposit, withdraw, partial release | draws and withdrawals check the ratio; tokens lie in the contract's own balance | CreditVault |
| Fees (`fees.rs`, `lib.rs`) | `TreasuryBalance`, `BountyBalance`, `PendingTreasuryWithdrawal`, fee terms | skim on repayment, propose and execute withdrawal, withdraw bounty | same token balance as the collateral; fee terms frozen while auctions run | CreditVault |
| Queries and views (`query.rs`, `views.rs`, `contracts/query`, `contracts/lifecycle`) | none | health factor, collateral state, snapshot, capabilities, pages | read by keepers and clients | Views, Controls, LineIndex |
| Events (`events.rs`) | none | published by the entrypoints | followed by indexers | EventLog, VaultEvents, Notices |
| Auction contract | `AuctionState` per id, accepted-bid and settlement markers, factory, grace window; escrowed bids | register factory, init, bid (English, Dutch), close, settle, claim | the credit contract is the factory and calls it through a hook | Auction, Liquidation |
| Controls (`auth.rs`, `freeze.rs`, `lib.rs`) | admin, proposed admin, pause and reason, three freezes, blocklist, cooldown stamps | rotation, pause, freeze, block, cooldowns | guards of other calls | Controls |
| Oracles (`oracles.rs`, `oracle_validation.rs`) | registry with weights and reports, quorum submissions, last price | register, report, submit, validate | a settlement needs an accepted price | PriceFeeds |
| Scoring and attestations (`scoring.rs`, `attestation.rs`) | commitments, batches | commit, clear, verify | risk updates, clients | RatePolicy |
| Line index (`storage.rs`, `views.rs`) | identifiers of lines | numbered on opening | paged queries | LineIndex |
| `contracts/collateral`, `contracts/risk` | balances in two formats; admin, pause, cooldown | deposit, withdraw; record actions | independent | Companions |
| `contracts/creditra-credit` | lines, draws, audit trails, collateral, fees, oracle committee, policies | every execute message, queries | independent | CosmCredit, CosmSettings |
| `contracts/soroban/contracts/*` | campaign, contributions, milestones | contribute, release, refund, fail | milestones administer the escrow | Escrow, CrowdPay |

What makes each part correct:

* **ledger** - the aggregates equal what they summarise; a line's status follows
  the documented edges; fee terms do not move under a running auction; no draw
  exceeds a cap; a grace window is waited out; a force-closed line comes back
  without its debt;
* **interest** - no stamp is left over and no clock is ahead; the interest share is
  part of the debt; fresh debt is not charged for time before it;
* **collateral and fees** - the token balance covers, exactly, what is booked;
  the treasury is paid out once, late and in the proposed amount; borrowers pay
  what is booked;
* **views and events** - a keeper's threshold is the draw's; a follower of the events
  knows every line, every balance and who may draw; a paging client misses nothing;
* **auction and settlement** - nobody loses a bid: it is in the bidder's hands, leading
  an auction, or handed to the credit contract, and never two of these; what is handed
  over is booked once;
* **controls, prices, policy** - the admin changes only along a proposal that waited;
  a price acted upon is backed by oracles still listed; a repricing stays in its band;
* **beside** - contributions are refundable until success is final; the audit trail
  agrees with the draws; health rises only for a reason.

The hazards behind these properties, each at its line, are `hazards` in `PROJECT.json`.

## 2. Modules

```
CreditMath --> CreditLines --> EventLog ------------------------> MCEventLog
                |     |  '--> CreditClaims --> MCCreditLines --> MCTerms
 StatusMachine <'     '--> CreditVault --> Views --> VaultEvents --> MCCreditVault
 (refined by)

Auction --> Liquidation --> MCLiquidation
Host --> Controls --> PriceFeeds --> Notices --.
   |          '--> RatePolicy -----------------+--> Governance --> MCGovernance
   '--> LineIndex, Companions -----------------'
Host --> Escrow, CrowdPay, CosmCredit, CosmSettings --> Beside --> MCBeside

SumTheorems --> CreditLinesProofs --> CreditVaultProofs --> EventLogProofs
      |-------> AuctionProofs, GovernanceProofs, BesideProofs        ^
      '-------> SeqFolds (instantiated by GovernanceProofs and ------'
```

* **CreditMath** - the integer arithmetic: basis-point products, pro-rated
  interest, interest-first allocation, overdue instalments. `BPS` (10 000) and
  `YEAR` (31 557 600 s) are constants; the runs scale them down so that every
  rounding case happens with small numbers, the proofs hold for any value.
* **CreditLines** - the ledger. `lines[b]` is `CreditLineData` (a borrower without
  a record reads as `NoLine`); `cfg` and `caps` collect the configuration
  entries. `Accrued(b)` is `apply_accrual`; `PersistCreditLine` is
  `persist_credit_line` with its deltas to the aggregates; one action per
  entrypoint. `settle_default_liquidation` takes the recovered amount and close
  factor as inputs, as the entrypoint does.
* **StatusMachine** - the abstract specification: the statuses of all lines, the
  number of pending auctions and the fee terms. A status moves along an edge, the
  count moves with it, fee terms change only while no auction is pending.
* **EventLog** - `CreditLines` with the events of each handler, in the order of the
  code, and an indexer that rebuilds status, terms and debt of every line from them.
* **CreditClaims** - statements of the repository's documents and comments that
  the code does not keep (section 4).
* **CreditVault** - `CreditLines` with the money: a token balance per account,
  collateral, the fee accumulators, the treasury proposal. An entrypoint that
  moves tokens is the ledger's action conjoined with its transfers and checks;
  every other ledger action leaves the money alone. The token contract is
  external: a transfer of more than a balance reverts.
* **Views** - health factor, collateral state, snapshot and capabilities as operators
  over the state of `CreditVault`. **VaultEvents** - the events of the money, and an
  accountant that follows them.
* **Auction** - the auction contract, with the bid token as balances of bidders,
  escrow and factory. The instance holds a bid token or none (`bid_token`, fixed: no entrypoint
  stores it). Without one `place_bid` accepts a bid unpaid, a settlement is answered and transfers
  nothing, and a claim reverts; `Paid` says what moves. `ReusedIds` says which identifiers the factory uses more
  than once; the passing run has none, the claim about the lifecycle has some.
* **Liquidation** - `Auction` composed with the credit side of a settlement: default,
  hook with its version handshake, settlement through the hook or by hand, the close
  factor; and the price curves of `curves.rs`. A line is reduced to debt, status and
  settlement markers; the rest of it is in `CreditLines`.
* **Controls** - rotation, pause, freezes, blocklist, cooldowns and the capability
  views, over lines reduced to status and whether they carry debt. The history `acted` of the
  actions under a cooldown is kept apart from the stamps the contract compares with.
  **PriceFeeds** -
  registry and weighted median, quorum submissions, the single oracle with its breaker,
  and which of them answers a settlement. **Notices** - the events of both and a watcher.
* **RatePolicy** - formula, floor and ceiling, change limits, committed scores and
  attestation batches. Hashes are terms: no two different inputs collide.
* **LineIndex** - the numbering of lines and both paged queries, walked by a client
  page by page while lines are opened. **Companions** - the collateral and risk contracts.
* **Host** - clock and tokens of the ledger host, external to the repository.
* **Escrow**, **CrowdPay**, **CosmCredit**, **CosmSettings** - the contracts that do not
  meet the credit contract. In `Escrow` anyone executes a withdrawal, to any recipient and of
  either sign, as the code lets them; the history variable `withdrawn` is what such calls have
  taken from the escrow beside the releases of milestones.
* **Governance**, **Beside** - the components of one run side by side: a step is a step of
  one of them, the others stand still. The runs check these, and the proofs are about them.
* **MC\*** - values of the constants, and the bounds of each run.
* **SumTheorems**, **SeqFolds** - laws of finite sums and of folds over sequences and sets.
  **\*Proofs** - the theorems (section 5).

Abstractions, all of them of data: addresses and identifiers are model values;
TTL extensions and error codes are left out (but the extension that reverts,
`RatePolicy`, is not); `i128`/`u128`/`u32` overflow is modelled where a reachable value
can overflow (the cast of a negative debt in `AccrualReverts`, the 32-bit rate formula,
deviations and balances with scaled limits) and amounts are otherwise unbounded;
timestamps saturate at `MaxTs` where the code saturates. Draw-audit entries too old to be
reversed are forgotten by `Tick`, since nothing reads them. A call that succeeds without
effect (a bid already accepted, an accrual of nothing) is a stuttering step.

Environment of the ledger and vault: no freeze, blocklist entry or admin cooldown is in
force, and the liquidity token is configured. These only add reasons to revert; they
are modelled in `Controls`, where the amounts are left out in turn.

## 3. Runs

`tlc -config X.cfg M`; expected outcome and properties are in `PROJECT.json`. Where a run
has *parts*, a behaviour chooses one in its initial state and the variables of the others
stand still: parts share no state, so nothing is lost, and each has bounds of its own.

| Run | Instance | Shows |
|---|---|---|
| `MCLedger` | 2 borrowers, 2 timestamps, every lifecycle call, draws, reversals, settlements, late-fee terms, a global exposure cap; indexer | `TotalUtilized` and both counters exact, draws within the cap with everyone's interest, refinement of `StatusMachine`, indexer exact |
| `MCTerms` | 1 borrower; parts *interest* (4 timestamps, both grace policies, reversals, forced closes) and *terms* (schedule, surcharge, caps, liquidation grace, rate limits) | stamps and clocks sound, interest within the debt, fresh debt starts its clock, a closed line re-opens empty, caps hold with interest included, the grace of a suspended borrower is waited out |
| `MCVault` | 1 borrower, separate reserve, interest, late fees, a fee split that rounds, ratio and weight changes, treasury timelock; accountant | custody exact, collateral conserved, proposals covered and timelocked, borrowers pay what is booked, views sound, accountant exact |
| `MCLiquidation` | parts *auctions* (2 auctions, 2 bidders, English and every Dutch curve) and *liquidation* (2 lines in default, the hook with two versions, settlements by hand, close factors), each with and without a bid token | bids conserved, one way out, leader only outbid, Dutch curves sound, every leading bid that was paid is eventually released, the winning bid booked once and equal to what came in with a bid token |
| `MCGovernance` | parts *rotation, draws, cooldowns, registry, prices, pricing, attestations, index, companions*; 3 oracles (symmetric), clock from 1 to 4 | handover along the proposal, spacing of admin and risk actions, views that agree with the entrypoints, prices backed, repricing within its limits, walks complete, balances carried over, watcher current |
| `MCBeside` | parts *trail, fees, collateral, oracles, prices, policies, escrow, crowdpay*; 2 clients, 2 denoms, 2 contributors | draws within credit and on the trail, pages faithful under concurrent draws, health rises for a reason, the escrow with its withdrawals covers the milestones it owes, success final, unfunded campaigns refunded |

The properties of the parts are conjunctions of named parts themselves (`PricesSound` is
`RegistryExact`, `MedianIsMiddle`, `QuorumPriceBacked` and `AcceptedPriceAnswered`); the
comment at each part says what it is about.

Why the bounds are enough: the aggregates are moved by one line's delta at a time,
so two borrowers show every interference, a third only repeats it; a line without a stamp
(`last_accrual_ts = 0`) starts its clock at its first accrual, so two timestamps give one
unit of interest, enough for the calls of `MCLedger` and `MCVault` to meet a debt with
interest due, and `MCTerms` has the three or four timestamps it takes to pass a grace
window, a due date and a period whose interest rounds to zero at the scaled `BPS` and
`YEAR`. Amounts are chosen against the limits so that a draw fits exactly, fits only
before interest, and does not fit, and so that a repayment can exceed the debt. In
`MCVault` the fee share is such that both halves of a fee have a remainder. Three oracles
with weights 0 to 2 have every shape of median; pages of one and two over four lines have
every boundary. The theorems of section 5 remove the bounds for all but six of the properties.

State constraints and the bounds of the MC modules keep settings apart that multiply
states without meeting: in `MCLedger` draws are reversed and schedules set with a single
line and no cap, and a global cap, a close factor or a late fee is in force beside no other
of these; in `MCTerms` rate-change limits beside no cap; in `MCVault` either the collateral
settings or the fee settings differ from the deployment's, and largest amounts per call are
set beside neither; in `MCGovernance` at most two reasons to refuse a draw hold at once; in
`MCBeside` at most two holdings of collateral exist, at most 2 leaves the escrow outside milestones
(`MaxWithdrawn`), its approved amount stays within 2 of zero (`MaxApproved`) and its total within 7
(`MaxRaised`), since money paid out can be deposited again; in `MCLiquidation` without a bid token
there is one auction, or one line in default, and the full close factor. They bound what is
explored, not what is checked in a state.

Deadlock is checked in `MCLedger`, `MCTerms`, `MCVault` and `MCLiquidation`. In
`MCGovernance` and `MCBeside` the bounds end behaviours (the clock stops, a campaign is
over), so it is not.

**Fairness** is assumed in two runs. In `MCLiquidation`: time passes (the ledger closes), a
call that *anyone* may make after the deadline is made by someone (a bidder whose money
is locked has the interest), and a winner claims. Nothing is assumed of the factory
and nothing of bidders: `WinnerPaidOut` says precisely that an idle factory cannot
lock a bid (a bid that was paid: without a bid token nothing is locked and claims revert), which is
why `close_auction` is permissionless after the deadline. In
`MCBeside` (`CrowdFairness`): time passes, someone moves an unfunded campaign to Failed,
and a backer claims a refund that is due. Nothing is assumed of the creator.

Every property of a passing run has a mutant in `PROJECT.json`: a plausible bug in
a mapped definition under which TLC finds the property violated.

## 4. Where code and documents disagree

Each of these runs is expected to violate the one property it checks, a statement
quoted from the repository.

| Run | Statement | What the code does |
|---|---|---|
| `ClaimRateChange` | `risk.rs:35-38`: never "charged the new rate on debt accrued under the old rate" | interest that floors to zero leaves the period open; it is later charged at the new rate |
| `ClaimRepay` | `PROTOCOL_SPEC.md:635`: "Repayment never blocked except for Closed" | a draw repaid and then reversed makes the debt negative; accrual then overflows and repayment reverts |
| `ClaimPenalty` | `RISK_PRICING.md:442-444`: the first accrual after delinquency emits `PenaltyRateExitedEvent` | the previous rate is taken to be the base rate, so the event is never published |
| `ClaimWithdraw` | `collateral.rs:27-30`: a withdrawal "can never push an active credit line under-collateralized" | difference of two floors instead of floor of the difference |
| `ClaimLifecycle` | `auction.md:38-44`: a strict lifecycle, "terminal after claim" | `init_auction` overwrites an existing identifier |
| `ClaimRateFloor` | `lib.rs:886`: "Pass `None` to clear" | the setter extends the lifetime of the entry it has just removed, which reverts |

Further observations made while reading for the models, not turned into runs. Four of them
are on what a passing property says, and the properties state what the code does:

* Auction `lib.rs:638` says a settlement "Transfers the highest bid amount (if any) to the
  credit contract". Without `bid_token`, which no entrypoint stores, bids are taken unpaid
  and the settlement answers with the bid and transfers nothing (`lib.rs:701-718`); the
  credit contract books the recovery all the same. `SettlementSound` compares bookings with
  answers in both cases, and with tokens received only where there is a bid token.
* `milestones/src/lib.rs:163` and `escrow_test.rs:313` have withdrawals approved by the
  administrator. Escrow `lib.rs:236-267` neither authorises the caller nor checks the sign:
  executing a negative amount raises the approved amount, so money can leave without a
  milestone's approval, to any recipient. `EscrowSound` counts what leaves this way in
  `withdrawn`; coverage of the milestones is promised but for that sum.
* `views.rs:22-24` says the capability view "evaluates the same pre-flight checks" and
  `types.rs:631-632` that `true` "means the operation should succeed"; `can_self_suspend`
  ignores the pause that the entrypoint checks. `ControlsSound` names this exception.
* `query.rs:103-104` says of the health factor "No risk weights or haircuts", and
  `docs/credit.md:814` "face value (100% nominal weight)"; the code takes the draw's weighted
  value (`query.rs:199-203`). `ViewsSound` states the factor as computed, and that it is never
  above the documented one and equal to it at a weight of 100% (`WeightOnlyLowersHealth`).

Ledger and interest:

* `accrual.rs:35-37` says `last_accrual_ts` is not advanced at zero utilization;
  lines 173-176 advance it. The model follows the code.
* `types.rs:484` promises "zero interest during grace period" under a full waiver; a
  waived accrual is zero, so the clock stays, and lifting the suspension inside the window
  charges the waived time.
* `errors.md:128` says to wait for the grace window and retry; for a line never suspended,
  without schedule or rate change, the window is counted from the clock the attempt itself
  has just moved.
* One line with negative debt blocks every draw under a global exposure cap
  (`accrue_all_except`); a repayment request on it within the same timestamp resets
  the debt to zero.
* Repayment never lifts Restricted, although `lifecycle.rs:48-49` speaks of an
  automatic cure; only a risk update does.
* `close_credit_line` and `open_credit_line` do not accrue before they write the
  status (`state-machine.md:255`); a re-opening bypasses the rate-change limits
  (`risk.rs:48-50`), formula, floor, ceiling and committed score, and carries the debt
  of a line that was not Closed.
* A repayment worth several instalments advances the schedule several periods
  (`state-machine.md:344` says exactly one).
* `settle_default_liquidation` ignores the pause flag (`lib.rs:2536`); a close factor below
  one never settles a debt fully.
* Debt of force-closed lines stays in `TotalUtilized` and, under a global cap, goes
  on accruing and counting against it.
* Two draws of one borrower in one timestamp share an audit entry: the second
  overwrites the first.
* `close_credit_lines_batch` and `withdraw_treasury` ask for the same authorisation twice, so
  neither can succeed (`tests/batch_close.rs:41` expects the former to).
* The largest draw and repayment per call can be changed but never removed.

Collateral, fees and views:

* `deposit_collateral` before the borrower has a line, and every deposit of an allowlisted
  token (`collateral.rs:549-584`), fail the conservation assertion, which sums legacy balances
  only; `tests/multi_collateral.rs:82-83` expects the latter to succeed.
* `withdraw_collateral` compares with the stored debt, without interest due.
* `init` makes the contract its own liquidity source. In that configuration draws are
  paid from the same balance as collateral and fees, so `CustodyExact` is stated for
  a separate reserve.
* `treasury.md:84-86` says late fees are not split; `lib.rs:806` splits them.
* The receipt of `partial_release_collateral` carries a health factor that differs from
  `query::get_health_factor` whenever the minimum ratio is not 100 %, although its comment
  says the two can never disagree. `query.rs` says the factor is 10 000 exactly when the
  collateral equals the requirement; only the comparison below 10 000 is exact. The raw ratio
  of `get_collateral_state` says nothing once a risk weight is below 100 %.
* `views.rs:115-116` suggests comparing treasury and bounty with the token balance, which also
  holds the collateral. `release_collateral` (`collateral.rs:500-540`) has no caller.
* `get_credit_lines_paginated` repeats the last line when it fills its page exactly, though
  `views.rs:139` says the last page has no cursor. `WalkComplete` asks only that nothing is missed.
* `can_default` of the lifecycle view ignores the liquidation grace, and none of its fields looks at
  the admin cooldowns: `ControlsSound` compares the views with the entrypoints as far as status,
  debt, pause, freezes and blocklist decide.
* `withdraw_bounty` and `unfreeze_borrower` publish no event, so the bounty accumulator and an
  early unfreeze cannot be followed. `unfreeze_draws` publishes on a redundant call though its doc
  says it does not; the topic of a borrower freeze is not the documented one.

Controls, prices and policy:

* `set_liquidity_token` is not gated by the pause although documented so; the freeze cooldown is
  never set.
* A single oracle whose last price is older than the maximum age stays stale for ever; a quorum
  threshold of 0 is accepted and then blocks settlements; a registry cannot be unset.
* A floor above the rate plus the largest change blocks every risk update.
* `verify_attestation_proof` accepts inner nodes of the tree as leaves.

Auction:

* The auction contract has no `get_version`, so the credit contract's settlement
  hook fails its handshake (`CROSS_CONTRACT_HANDSHAKE.md:29`) whenever that contract is
  configured, and the hook cannot be unset. `Liquidation` lets the configured contract answer, or not.
* The credit contract, as the factory, has no entrypoint that creates or closes an auction or names
  a successor. A bid above what the close factor allows can never be settled.
* `place_bid` accepts bids before `start_time` unless a grace window is set; the first
  English bid must exceed `min_bid` by the increment (`auction.md:186`);
  `set_liquidation_grace_window` also applies to auctions already open.
* `auction.md` says `claim_auction` sends the proceeds to the factory; the code returns the bid to
  the winner.
* `curves.rs:19-21` claims semantics identical to the contract's; exponential decay differs by
  rounding. `validate_auction_curve_params` has no caller.

Beside:

* Escrow: approving a milestone before
  there are deposits releases nothing for good; floors and later deposits leave money in the escrow;
  `execute_withdrawal` charges the fee in force at execution.
* Crowdpay: `release_milestone` ignores the status, and shares are computed from a total that
  refunds do not reduce.
* `creditra-credit`: a draw can be repaid repeatedly, each time with its fee; the denom of a draw and
  `active` are not compared; no code stores a fee share, and fee setter and withdrawals are unreachable
  from a message; `BORROWER_TO_ID` is overwritten by a borrower's second line and read by nothing
  (left out of the model); delisting a token resets its weight to 100 %; `compute_deviation_bps` cuts to 32
  bits, and refuses a product beyond 128 bits, which its comment says cannot occur; deposits are counted once per line in the proof of reserve.
* The risk contract's `init` can be called again, though documented as once; a balance of the
  collateral contract may become negative.

## 5. Proofs

`tlapm M.tla` for each of the eight modules with theorems. The assumptions are the named
`ASSUME`s of the modules, which TLC evaluates on every run: constants have their types,
rates and shares lie within their unit, `BPS` and `YEAR` are positive, accounts of different
roles are different. Sets of borrowers, bidders, oracles and backers are any finite sets; time,
amounts and configurations are unrestricted.

| Theorem | States for every instance |
|---|---|
| `CreditLinesProofs` `TypeCorrect`, `Counters`, `Stamps`, `InterestBounded`, `TotalConserved` | the invariants of the ledger |
| `FreshDebtClocked`, `ReopensEmpty`, `GraceWaitedOut`, `DrawsCapped` | its action properties |
| `ImplementsStatusMachine` | refinement of the abstract status machine |
| `CreditVaultProofs` `ImplementsLedger`, `VaultTypeCorrect`, `Custody`, `CollateralConserved`, `PendingCovered`, `Timelocked`, `PaidAsOwed` | the money |
| `EventLogProofs` `ViewsReliable`, `AccountantExact`, `IndexerFollows`, `ImplementsVault`, `EventsImplementLedger` | what readers conclude |
| `AuctionProofs` `TypeCorrect`, `SettledStaysClosed`, `OnlyOutbid`, `NoBidLost`, `ImplementsAuction`, `SettlementExact` | the auction, alone and composed |
| `GovernanceProofs` `ControlsTold`, `AdministrationInOrder`, `NoticesSuffice`, `PricesFollowPolicy`, `NoLineMissed`, `CompanionsCorrect` | the parts of `Governance` |
| `BesideProofs` `ClaimsCovered`, `EscrowKept`, `LedgerOfRecord` | the parts of `Beside` |

**Sums and folds.** Aggregates are compared with `SumFunction`, followers of events are a
`FoldLeft`, and both are recursive. `SumTheorems` and `SeqFolds` prove what such a fold is without
an induction principle, by least counterexample. First that the recursive function exists: the sets
(or prefixes) without a table of partial results would have a minimal one, and the table of
a smaller one extends by one entry. Then each law (change of one summand, sum of a difference,
bounds, zero; one event more, concatenation) in the same way. `SeqFolds` has the folded operator as a
constant parameter, so that each proof instantiates it.

**CreditLinesProofs.** `IInv == TypeOK /\ LinesSound /\ CountersExact`. The counters
are not inductive alone: that `Decrement` does not saturate needs the counter to be
the cardinality of a set that contains the line about to leave it (`CountStep`), and
that a line leaves Active or Defaulted is seen from its stored status. The interest
bounds need the clock not ahead of the ledger (otherwise the interest due could be
negative), which needs suspension stamps not in the future. `AccruedFacts` says once
what `apply_accrual` may change; each action's lemma rests on it and on
`PersistCreditLineKeepsIInv` or `PersistDebtsKeepsIInv`. From the same induction step
follows the refinement. `TotalUtilizedConserved` is inductive together with
`AbsentOweNothing`. The action properties rest on `LineSteps`: whatever the call, a line stays,
is handled (its status moves, its debt does not exceed the accrued one), is drawn from, or is
opened. `DrawsCapped` is the deepest: the draw compares the accumulator with the global
cap, the accumulator is the sum of the stored debts, and after `accrue_all_except` the
stored debts are the accrued ones (`AccruedTwice`: accruing again adds nothing).

**CreditVaultProofs.** `ImplementsLedger` (`VaultSpec => Spec`) carries every ledger
theorem over to the contract with its money. `VaultIInv` is type correctness,
`CustodyExact`, `PendingWithdrawalCovered` and that a waiting proposal names a
treasury. The arithmetic heart is `SplitProtocolFeeExact`: the two rounded shares and
the left-over unit add up to the fee. `Timelocked` and `PaidAsOwed` are action
properties proved from the same invariant.

**EventLogProofs.** The views: the keeper divides by the requirement and compares with
`BPS`, the draw compares with the requirement itself; `ScaledQuotient` shows that the rounded
quotient is below `BPS` exactly when the collateral is below the requirement, and
`QuotientMonotone` that a weight of at most 100% never raises it. The accountant: the
book is *equal* to a function of collateral, treasury and proposal (`BookKept`), so each call's
events are followed by computing one fold. The indexer: `IndexInv` says the book is
well-formed and every entry `Shows` its line. After a call's accrual events the entry shows the
accrued line and the difference between reported sum and debt has not changed
(`AccrualFollowed`); for the accruals of many lines this is a fold over a set, by least
counterexample (`AccrualsFollowed`); then one lemma per call. That the amounts add up needs the
bounds on interest from `IInv`: a repayment is cut off at zero and a settlement at the debt,
and only a debt that is not negative makes the reported amount the one that was taken.

**AuctionProofs.** `IInv` adds to type correctness and `OneWayOut` that an unused
identifier has no leader and an open Dutch auction no bid. `PartExact` shows that the
overflow-safe division of `compute_dutch_price` is the rounded-down product,
`MinNextBidGrows` that an increment is never nothing. `NoBidLost` and `SettlementExact` assume
`ReusedIds = {}`, as the passing run does: with a reused identifier the code loses a bid
(`ClaimLifecycle`, section 4). Both hold with and without a bid token: without one nothing is ever
in escrow, and what the settlement books is not backed by what is received (section 4).
`ImplementsAuction` carries the auction's theorems to the composition.

**GovernanceProofs.** One invariant per part. `ControlsTold` compares the capability views with the
gates of the entrypoints, in both directions; the pause that `can_self_suspend` ignores is its one
exception (section 4). `CooldownInv` says that the stamp the contract
compares with is the time of the action, and never 0 or in the future; without the second half the
distance of two actions does not follow. `NoticesInv` ties each field of the watcher to the
contract's. `IndexInv` describes a walk under way: the identifiers read so far are an initial
segment, an identifier read twice only where one page ends and the next begins (`Gapless`), and
the cursor is at the last of them or just after it. `PolicyInv` keeps rate stamps out of the future and formulas valid. The Merkle tree of an
attestation is a fold over the proof, and hashes are an arbitrary injective function.

**BesideProofs.** `EscrowInv` needs a potential: with `s` the shares not yet approved, in units of
`FeeUnit`, the vault's tokens and `withdrawn` together times `FeeUnit`, plus what the target still lacks times `FeeUnit - s`,
are at least `s` times the raised total (`VaultWorth`). A deposit, an approval with its floor and
a withdrawal keep it, whatever its sign and recipient, and where the target is met it says that the
escrow covers the milestones but for `withdrawn`. That `withdrawn` stays zero under the milestones
contract is what the code does not keep (section 4).
`CrowdInv` relates the till to the pledges until something is released. `LedgerOfRecord` keeps, per
draw, the shape of its trail (`TrailOK`), and of the paging reader that a page is what the line held,
prefix by prefix (`PagesInv`); `Continues` says that no call takes anything of that back.

**What the proofs corrected.** Two properties were false outside the bounds of the runs and were
put right: the liquidation grace saturates at the largest timestamp, as the code's sum does
(`DefaultWaitsOutGrace`), and a rate ceiling below the floor cuts the floor off (`RateInBand`).
Where two cases of a `CASE` could hold at once (a balance in both formats of the collateral contract,
the last page of a query) TLC took the first, as the code does, and TLA+ leaves the choice open: the
cases are now exclusive. Assumptions on constants that
the runs met silently are now stated (`ControlsAssumption`, `PolicyAssumption`, `CrowdAssumption`,
`EscrowAssumption`, `CosmAssumption`). Whether a call is possible, which a prover cannot decide with
`ENABLED`, is its guard as an operator (`CloseOwnGate`, `SelfSuspendGate`).

**Only model-checked.** `WinnerPaidOut` and `UnfundedIsRefunded` are liveness under fairness.
`DutchCurvesSound` needs an induction over the steps of exponential decay, and `PricesSound` the
median of a sorted sequence. `CosmCollateralSound` and `CosmSettingsSound` are provable and planned.

## 6. Plan

Done: every component of section 1 is modelled and has a run; of the properties of the passing runs
all but the six just named are theorems.

Next, in this order:

1. `CosmCollateralSound`: health rises only for a reason, for any deposits, weights and prices;
2. `CosmSettingsSound`, and of `PricesSound` the parts without a median: `RegistryExact`,
   `QuorumPriceBacked`, `AcceptedPriceAnswered`;
3. `DutchCurvesSound` by least counterexample over the steps, like the folds.

## 7. Not modelled

* **Outside the build**: `contracts/lifecycle/src/admin.rs`, `contracts/risk/src/views.rs`,
  `contracts/borrow/src/admin.rs`, `credit/src/query_admin.rs`, `cross_chain.rs`,
  `creditra-credit/src/limits.rs`: no module declaration reaches them.
* **Without a caller**: the id-scoped accessors of the auction's `storage.rs` (223-500), the event
  libraries of `contracts/accrual`, `contracts/freeze` and `contracts/query`, the freeze cooldown,
  `release_collateral`.
* **Calls that cannot succeed**: `withdraw_treasury`, `close_credit_lines_batch`, deposits and
  withdrawals of allowlisted tokens in the credit contract (section 4).
* **No state that is read back**: instrumentation, error catalogs and their encodings
  (`migrate.rs` of `creditra-credit`), events of settings and of the auction and risk contracts,
  summaries and proofs of reserve of the credit contract that return stored values as they are.
* **The host's**: authorisation (an action by a party is an action that party may take), storage
  lifetime, upgrades, re-entrancy (the host forbids it and a call is atomic, so the guards have
  no effect).

About a third of the lines in the contracts' sources is code that runs; the rest is documentation
comments and tests kept in the same files. A range of the `map` in `PROJECT.json` begins with the
documentation comment of the item it names, since that comment is read with it, and leaves out
tests; what the map leaves out of the code is what the list above names.
