---------------------------- MODULE Liquidation -----------------------------
(***************************************************************************)
(* The credit contract and the auction contract together: how the proceeds *)
(* of an auction become a recovery on a defaulted line, through the        *)
(* configured auction contract or by hand, and the curve library beside    *)
(* the auctions.  A line is its debt and whether it is in default; the     *)
(* rest of it is in CreditLines.                                           *)
(***************************************************************************)
EXTENDS Auction

CONSTANTS
  Debtors,       \* borrowers
  InitialDebt,   \* debt of every line at the start
  CreditContract,\* its address, one of Factories
  CloseFactors,  \* close factors in bps, of a call or as the protocol's maximum
  Recoveries,    \* amounts the admin states
  Versions,      \* major versions an auction contract may answer
  NoAnswer,      \* get_version fails, as it does at the auction contract of this repository
  NoHook,        \* no auction contract is configured
  TopU128,       \* u128::MAX
  MajorVersion   \* get_current_version().major

ASSUME LiquidationAssumption ==
  /\ CreditContract \in Factories
  /\ InitialDebt \in Nat /\ Recoveries \subseteq Int /\ CloseFactors \subseteq Nat
  /\ NoAnswer \notin Versions /\ NoHook \notin Versions

VARIABLES
  debt, in_default, \* the lines
  hook,             \* AuctionContract: the version its answers come from, or NoHook
  max_close_factor,
  marks,            \* liquidation_settlement_key(borrower, settlement_id) markers
  received,         \* bid tokens the credit contract has received (history)
  recovered         \* recovery booked for each settlement, through the hook or by hand (history)

creditVars == <<debt, in_default, hook, max_close_factor, marks, received, recovered>>

LiquidationInit ==
  /\ debt = [b \in Debtors |-> InitialDebt] /\ in_default = {}
  /\ hook = NoHook /\ max_close_factor = BPS
  /\ marks = {} /\ received = 0
  /\ recovered = [how \in {"hook", "hand"} |-> [id \in AuctionIds |-> 0]]
-----------------------------------------------------------------------------
(* The lines *)

\* default_credit_line, whatever the line owes.
DefaultLine(b) ==
  /\ b \notin in_default
  /\ in_default' = in_default \cup {b}
  /\ UNCHANGED <<vars, debt, hook, max_close_factor, marks, received, recovered>>

\* repay_credit, also while auctions are under way.
RepayLine(b, amount) ==
  /\ amount \in 1..debt[b]
  /\ debt' = [debt EXCEPT ![b] = debt[b] - amount]
  /\ UNCHANGED <<vars, in_default, hook, max_close_factor, marks, received, recovered>>

\* set_auction_contract; there is no way to take it back.
SetAuctionContract(version) ==
  /\ hook' = version
  /\ UNCHANGED <<vars, debt, in_default, max_close_factor, marks, received, recovered>>

SetCloseFactor(cf) ==
  /\ cf \in 1..BPS
  /\ max_close_factor' = cf
  /\ UNCHANGED <<vars, debt, in_default, hook, marks, received, recovered>>

VerifyVersion(version) == version = MajorVersion

\* lifecycle::settle_default_liquidation: the recovery reduces the debt; with no debt left the
\* line is closed and leaves the default.
BookRecovery(b, id, amount, cf) ==
  /\ amount > 0
  /\ cf \in 1..BPS /\ cf <= max_close_factor
  /\ <<b, id>> \notin marks
  /\ b \in in_default
  /\ amount <= (debt[b] * cf) \div BPS
  /\ debt' = [debt EXCEPT ![b] = debt[b] - amount]
  /\ in_default' = IF debt[b] = amount THEN in_default \ {b} ELSE in_default
  /\ marks' = marks \cup {<<b, id>>}
  /\ UNCHANGED <<hook, max_close_factor>>

\* Mutant: the amount the auction paid is not compared with the amount booked.
SettleThroughHookUnmatched(b, id, amount, cf) ==
  /\ hook # NoHook /\ VerifyVersion(hook)
  /\ factory = CreditContract
  /\ SettleDefaultLiquidation(id)
  /\ BookRecovery(b, id, amount, cf)
  /\ received' = received + Paid(auctions[id].highest_bid)
  /\ recovered' = [recovered EXCEPT !["hook"][id] = @ + amount]

\* settle_default_liquidation with an auction contract: it must speak our version, settle with
\* us as its factory, and answer the amount that is booked; else everything reverts.  What it
\* answers is the winning bid, paid or not.
SettleThroughHook(b, id, amount, cf) ==
  /\ hook # NoHook /\ VerifyVersion(hook)
  /\ factory = CreditContract
  /\ SettleDefaultLiquidation(id)
  /\ amount = auctions[id].highest_bid
  /\ BookRecovery(b, id, amount, cf)
  /\ received' = received + Paid(auctions[id].highest_bid)
  /\ recovered' = [recovered EXCEPT !["hook"][id] = @ + amount]

\* settle_default_liquidation without one: the admin states what came in some other way.
SettleByHand(b, id, amount, cf) ==
  /\ hook = NoHook
  /\ BookRecovery(b, id, amount, cf)
  /\ recovered' = [recovered EXCEPT !["hand"][id] = @ + amount]
  /\ UNCHANGED <<vars, received>>
-----------------------------------------------------------------------------
(* Who calls the auction contract *)

\* The credit contract makes no call of its own to the auction contract but settlements, so it
\* creates and closes no auction and names no successor once it is the factory.
FactoryStep(id) ==
  /\ factory # CreditContract
  /\ \/ \E c \in Configs : InitAuction(id, c)
     \/ CloseAuction(id, "factory")
     \/ SettleDefaultLiquidation(id)
     \/ \E f \in Factories : SetFactoryContract(f)
  /\ UNCHANGED creditVars

PublicStep(id) ==
  /\ \/ \E p \in Bidders, amount \in Bids : BidEnglish(id, p, amount) \/ BidDutch(id, p, amount)
     \/ CloseAuction(id, "anyone")
     \/ ClaimAuction(id)
  /\ UNCHANGED creditVars

LiquidationNext ==
  \/ \E id \in AuctionIds : FactoryStep(id) \/ PublicStep(id)
  \/ Tick /\ UNCHANGED creditVars
  \/ \E b \in Debtors : DefaultLine(b) \/ \E amount \in Recoveries : RepayLine(b, amount)
  \/ \E v \in Versions \cup {NoAnswer} : SetAuctionContract(v)
  \/ \E cf \in CloseFactors : SetCloseFactor(cf)
  \/ \E b \in Debtors, id \in AuctionIds, amount \in Recoveries, cf \in CloseFactors :
       SettleThroughHook(b, id, amount, cf) \/ SettleByHand(b, id, amount, cf)

LiquidationSpec == Init /\ LiquidationInit /\ [][LiquidationNext]_<<vars, creditVars>>
-----------------------------------------------------------------------------
(* The curve library: curves.rs *)

\* CurveError: an interval or scale of zero, or an overflow.
Error == -1

\* The price is multiplied by the factor and divided by the scale once per second.
Decayed(start, curve) ==
  LET price[t \in Nat] ==
        IF t = 0 THEN start
        ELSE LET before == price[t - 1]
             IN  IF before = Error \/ before * curve.factor > TopU128 THEN Error
                 ELSE (before * curve.factor) \div curve.scale
  IN  price

Lowered(start, decay) == IF decay > TopU128 THEN Error ELSE MaxOf(start - decay, 0)

\* calculate_price: saturates at zero, knows no floor price.
CalculatePrice(start, elapsed, curve) ==
  CASE curve.kind = "Linear"  -> Lowered(start, curve.rate * elapsed)
    [] curve.kind = "Stepped" ->
         IF curve.interval = 0 THEN Error
         ELSE Lowered(start, curve.step_size * (elapsed \div curve.interval))
    [] OTHER -> IF curve.scale = 0 THEN Error ELSE Decayed(start, curve)[elapsed]

\* The curve a client would preview a Dutch auction with, if whole numbers give one.
PreviewCurve(c) ==
  LET drop     == c.start_price - c.floor_price
      duration == c.end_time - c.start_time
  IN  CASE c.decay \in {"None", "Linear"} /\ drop % duration = 0 ->
             [kind |-> "Linear", rate |-> drop \div duration]
        [] c.decay = "Stepped" /\ drop % c.step_count = 0 /\ duration % c.step_count = 0 ->
             [kind |-> "Stepped", step_size |-> drop \div c.step_count, interval |-> duration \div c.step_count]
        [] c.decay = "Exponential" /\ c.floor_price = 0 ->
             [kind |-> "Exponential", factor |-> KeepBps, scale |-> BPS]
        [] OTHER -> [kind |-> "None"]
-----------------------------------------------------------------------------
\* With a bid token, every token the credit contract receives from auctions is booked as a
\* recovery, once, for the settlement it was paid for, and nothing more is booked through the
\* hook, however the hook, the factory and the close factor change in between and whichever
\* calls were made by hand.  Without one the winning bid is booked, once, and nothing comes in.
ProceedsBookedOnce ==
  /\ \A id \in AuctionIds : recovered["hook"][id] \in {0, auctions[id].highest_bid}
  /\ received = Paid(SumFunction(recovered["hook"]))
  /\ received <= proceeds

\* An auction whose proceeds were booked through the hook pays no one else: the winner's claim
\* and a second settlement, for whichever line, stay refused.
BookedIsFinal ==
  \A id \in AuctionIds : recovered["hook"][id] > 0 => id \in settled /\ auctions[id].status = "Closed"

Running == {id \in AuctionIds : /\ auctions[id].status = "Open" /\ auctions[id].config.mode = "Dutch"
                               /\ now \in auctions[id].config.start_time..auctions[id].config.end_time}
Preview(c, t) == CalculatePrice(c.start_price, t - c.start_time, PreviewCurve(c))

\* While an auction with a linear or stepped price is on, the curve library previews the price
\* place_bid asks, if the slope is a whole number.
PreviewAgrees ==
  \A id \in Running :
    LET c == auctions[id].config
    IN  PreviewCurve(c).kind \in {"Linear", "Stepped"} => Preview(c, now) = DutchPrice(c, now)

\* Its exponential price falls as the auction's does, though not always to the same unit.
PreviewFalls ==
  \A id \in Running :
    LET c == auctions[id].config
    IN  PreviewCurve(c).kind = "Exponential" /\ now > c.start_time
        => Preview(c, now) \in 0..Preview(c, now - 1)

\* A settlement through the hook books the winning bid, which is what the auction paid if it has
\* a bid token, once and for good.
SettlementSound == ProceedsBookedOnce /\ BookedIsFinal

\* The Dutch price only falls while an auction is open, and the library previews it.
DutchCurvesSound == DutchPriceFalls /\ [](PreviewAgrees /\ PreviewFalls)
=============================================================================
