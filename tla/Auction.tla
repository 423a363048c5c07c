------------------------------- MODULE Auction ------------------------------
(***************************************************************************)
(* The liquidation auction contract (gateway-contract/contracts/           *)
(* auction_contract/src): English and Dutch auctions created by the        *)
(* factory, bids escrowed in the bid token, the refund of an outbid        *)
(* leader, closing, and the two ways a winning bid leaves the escrow:      *)
(* settlement to the factory (the credit contract) or a claim by the       *)
(* winner.  One invocation is one action.                                  *)
(*                                                                         *)
(* The bid token is an external contract; it is modelled by the balances   *)
(* of the bidders and of the escrow, and a transfer of more than a balance *)
(* reverts.  No entrypoint stores its address: a deployment has it from    *)
(* outside, as the tests do, or has none.  Without one a bid is accepted   *)
(* unpaid, a settlement transfers nothing and a claim reverts.             *)
(***************************************************************************)
EXTENDS Integers, FiniteSets, Functions

CONSTANTS
  AuctionIds,     \* auction identifiers
  Bidders,        \* addresses that may bid
  NoBidder,       \* highest_bidder = None
  Factories,      \* addresses that may be registered as the factory
  NoFactory,      \* no factory registered
  Bids,           \* bid amounts
  Configs,        \* parameters the factory may create an auction with
  GraceWindows,   \* liquidation grace windows the factory may set
  ReusedIds,      \* identifiers the factory creates an auction under more than once
  Funds,          \* bid-token balance every bidder starts with
  BPS,            \* basis points in one: 10_000
  KeepBps,        \* share of the price drop kept per step of exponential decay: 9_900
  MaxDecaySteps,  \* steps of exponential decay: 100
  MaxTs,          \* u64::MAX, where timestamps saturate
  MaxTime         \* bound of the model: the last ledger timestamp

Config ==
  [mode : {"English", "Dutch"}, start_time : Nat, end_time : Nat, min_bid : Nat,
   min_increment_bps : Nat, start_price : Nat, floor_price : Nat,
   decay : {"None", "Linear", "Stepped", "Exponential"}, step_count : Nat]

ASSUME AuctionAssumption ==
  /\ IsFiniteSet(AuctionIds) /\ IsFiniteSet(Bidders) /\ NoBidder \notin Bidders
  /\ NoFactory \notin Factories
  /\ Bids \subseteq Nat /\ GraceWindows \subseteq Nat /\ Configs \subseteq Config
  /\ ReusedIds \subseteq AuctionIds
  /\ BPS \in Nat \ {0} /\ KeepBps \in 0..BPS /\ MaxDecaySteps \in Nat
  /\ Funds \in Nat /\ MaxTs \in Nat /\ MaxTime \in 0..MaxTs

VARIABLES
  now,          \* ledger timestamp
  factory,      \* FactoryContract
  auctions,     \* AuctionState of each identifier
  accepted,     \* BidAccepted(id, bidder, amount) markers
  settled,      \* LiquidationSettled(id) markers
  grace_window, \* LiquidationGraceWindow
  bid_token,    \* whether the instance entry "bid_token" is there
  wallet,       \* bid-token balance of each bidder
  escrow,       \* bid-token balance of the auction contract
  proceeds      \* bid tokens paid to the factory

vars ==
  <<now, factory, auctions, accepted, settled, grace_window, bid_token, wallet, escrow, proceeds>>
tokens == <<bid_token, wallet, escrow, proceeds>>

MaxOf(a, b) == IF a >= b THEN a ELSE b
MinOf(a, b) == IF a <= b THEN a ELSE b

NoConfig ==
  [mode |-> "English", start_time |-> 0, end_time |-> 0, min_bid |-> 0,
   min_increment_bps |-> 0, start_price |-> 0, floor_price |-> 0, decay |-> "None",
   step_count |-> 0]

\* An identifier without a stored state reads as NoAuction.
NoAuction ==
  [config |-> NoConfig, status |-> "None", highest_bidder |-> NoBidder, highest_bid |-> 0]
-----------------------------------------------------------------------------
(* Prices *)

\* Mutant: the relative increment is rounded down and may be nothing.
MinNextBidFloor(bid, bps) == bid + (bid * bps) \div BPS

\* min_next_bid: the increment rounds up and is at least one unit.
MinNextBid(bid, bps) ==
  bid + MaxOf((bid * bps) \div BPS + (IF (bid * bps) % BPS = 0 THEN 0 ELSE 1), 1)

\* What a bid in an English auction must reach.
Threshold(a) ==
  IF a.highest_bid > 0
  THEN MaxOf(MinNextBid(a.highest_bid, a.config.min_increment_bps), a.config.min_bid)
  ELSE MinNextBid(a.config.min_bid, a.config.min_increment_bps)

\* What is left of a whole, in basis points, after t steps of exponential decay.
Kept[t \in Nat] == IF t = 0 THEN BPS ELSE (Kept[t - 1] * KeepBps) \div BPS

\* The part n / d of a whole, computed by quotient and remainder so that no product
\* overflows; n is at most d.
Part(whole, n, d) == (whole \div d) * n + ((whole % d) * n) \div d

\* Mutant: the stepped price falls with the time left.
DutchDropReversed(c, elapsed) ==
  LET drop     == c.start_price - c.floor_price
      duration == c.end_time - c.start_time
  IN  CASE c.decay \in {"None", "Linear"} -> Part(drop, elapsed, duration)
        [] c.decay = "Stepped" ->
             Part(drop, ((duration - elapsed) * c.step_count) \div duration, c.step_count)
        [] OTHER -> Part(drop, BPS - Kept[MinOf(elapsed, MaxDecaySteps)], BPS)

\* How far the Dutch price has fallen after `elapsed' seconds of the auction.
DutchDrop(c, elapsed) ==
  LET drop     == c.start_price - c.floor_price
      duration == c.end_time - c.start_time
  IN  CASE c.decay \in {"None", "Linear"} -> Part(drop, elapsed, duration)
        [] c.decay = "Stepped" ->
             Part(drop, (elapsed * c.step_count) \div duration, c.step_count)
        [] OTHER -> Part(drop, BPS - Kept[MinOf(elapsed, MaxDecaySteps)], BPS)

\* compute_dutch_price at ledger time t.
DutchPrice(c, t) ==
  LET elapsed == MaxOf(t - c.start_time, 0)
  IN  IF elapsed >= c.end_time - c.start_time
      THEN c.floor_price
      ELSE MaxOf(c.start_price - DutchDrop(c, elapsed), c.floor_price)
-----------------------------------------------------------------------------
(* Entrypoints *)

\* The bid tokens moved for a bid: all of it, or nothing without a bid token.
Paid(amount) == IF bid_token THEN amount ELSE 0

\* The parameters init_auction accepts; a price or step count of zero is an absent one.
ValidConfig(c) ==
  /\ c.start_time < c.end_time
  /\ c.min_increment_bps <= BPS
  /\ IF c.mode = "Dutch"
     THEN /\ c.start_price >= c.floor_price
          /\ c.start_price >= c.min_bid
          /\ c.decay = "Stepped" => c.step_count > 0
     ELSE c.start_price = 0 /\ c.floor_price = 0 /\ c.step_count = 0

\* The factory registers itself, and from then on names its own successor.
SetFactoryContract(f) ==
  /\ factory' = f
  /\ UNCHANGED <<now, auctions, accepted, settled, grace_window, tokens>>

\* init_auction does not look whether the identifier is taken: an auction created under
\* a used one replaces it, and the identifier's markers stay.
InitAuction(id, c) ==
  /\ factory # NoFactory
  /\ ValidConfig(c)
  /\ auctions[id].status # "None" => id \in ReusedIds
  /\ auctions' = [auctions EXCEPT ![id] = [NoAuction EXCEPT !.config = c, !.status = "Open"]]
  /\ UNCHANGED <<now, factory, accepted, settled, grace_window, tokens>>

\* Mutant: the bid is taken without its payment.
CanBidUnfunded(id, p, amount) ==
  LET a == auctions[id]
  IN  /\ <<id, p, amount>> \notin accepted
      /\ amount > 0
      /\ a.status = "Open"
      /\ now < a.config.end_time
      /\ grace_window > 0 => now >= MinOf(a.config.start_time + grace_window, MaxTs)

\* The checks of place_bid common to both modes.  A bid already accepted once, from the
\* same bidder for the same amount, is answered without any effect.
CanBid(id, p, amount) ==
  LET a == auctions[id]
  IN  /\ <<id, p, amount>> \notin accepted
      /\ amount > 0
      /\ a.status = "Open"
      /\ now < a.config.end_time
      /\ grace_window > 0 => now >= MinOf(a.config.start_time + grace_window, MaxTs)
      /\ wallet[p] >= Paid(amount)

\* The bidder pays and the leader gets the outbid amount back; they may be the same.
PaidAndRefunded(p, amount, leader, bid) ==
  [q \in Bidders |-> wallet[q] - (IF q = p THEN Paid(amount) ELSE 0)
                               + (IF q = leader THEN Paid(bid) ELSE 0)]

\* place_bid, English mode.
BidEnglish(id, p, amount) ==
  LET a == auctions[id]
  IN  /\ CanBid(id, p, amount)
      /\ a.config.mode = "English"
      /\ amount >= Threshold(a)
      /\ escrow + Paid(amount) >= Paid(a.highest_bid)
      /\ wallet' = PaidAndRefunded(p, amount, a.highest_bidder, a.highest_bid)
      /\ escrow' = escrow + Paid(amount) - Paid(a.highest_bid)
      /\ auctions' = [auctions EXCEPT ![id].highest_bidder = p, ![id].highest_bid = amount]
      /\ accepted' = accepted \cup {<<id, p, amount>>}
      /\ UNCHANGED <<now, factory, settled, grace_window, bid_token, proceeds>>

\* place_bid, Dutch mode: the first bid at the current price wins and closes the auction.
BidDutch(id, p, amount) ==
  LET a == auctions[id]
  IN  /\ CanBid(id, p, amount)
      /\ a.config.mode = "Dutch"
      /\ amount >= MaxOf(DutchPrice(a.config, now), a.config.min_bid)
      /\ wallet' = [wallet EXCEPT ![p] = @ - Paid(amount)]
      /\ escrow' = escrow + Paid(amount)
      /\ auctions' = [auctions EXCEPT ![id].highest_bidder = p, ![id].highest_bid = amount,
                                      ![id].status = "Closed"]
      /\ accepted' = accepted \cup {<<id, p, amount>>}
      /\ UNCHANGED <<now, factory, settled, grace_window, bid_token, proceeds>>

\* Mutant: only the factory may close an auction, at any time.
CloseAuctionByFactory(id, caller) ==
  /\ factory # NoFactory
  /\ auctions[id].status = "Open"
  /\ caller = "factory"
  /\ auctions' = [auctions EXCEPT ![id].status = "Closed"]
  /\ UNCHANGED <<now, factory, accepted, settled, grace_window, tokens>>

\* close_auction: the factory at any time, anyone once the deadline has passed.
CloseAuction(id, caller) ==
  /\ factory # NoFactory
  /\ auctions[id].status = "Open"
  /\ caller = "factory" \/ now >= auctions[id].config.end_time
  /\ auctions' = [auctions EXCEPT ![id].status = "Closed"]
  /\ UNCHANGED <<now, factory, accepted, settled, grace_window, tokens>>

\* Mutant: a settlement leaves no marker.
SettleUnmarked(id) ==
  LET bid == Paid(auctions[id].highest_bid)
  IN  /\ factory # NoFactory
      /\ auctions[id].status = "Closed"
      /\ id \notin settled
      /\ escrow >= bid
      /\ escrow' = escrow - bid
      /\ proceeds' = proceeds + bid
      /\ UNCHANGED <<now, factory, auctions, accepted, settled, grace_window, bid_token, wallet>>

\* settle_default_liquidation: once per identifier, the winning bid goes to the factory.
\* Without a bid token it is answered all the same, and nothing goes.
SettleDefaultLiquidation(id) ==
  LET bid == Paid(auctions[id].highest_bid)
  IN  /\ factory # NoFactory
      /\ auctions[id].status = "Closed"
      /\ id \notin settled
      /\ escrow >= bid
      /\ settled' = settled \cup {id}
      /\ escrow' = escrow - bid
      /\ proceeds' = proceeds + bid
      /\ UNCHANGED <<now, factory, auctions, accepted, grace_window, bid_token, wallet>>

\* Mutant: a claim does not look for the settlement marker.
ClaimAuctionSettled(id) ==
  LET a == auctions[id]
  IN  /\ a.status = "Closed"
      /\ a.highest_bidder # NoBidder
      /\ bid_token
      /\ escrow >= a.highest_bid
      /\ auctions' = [auctions EXCEPT ![id].status = "Claimed"]
      /\ escrow' = escrow - a.highest_bid
      /\ wallet' = [wallet EXCEPT ![a.highest_bidder] = @ + a.highest_bid]
      /\ UNCHANGED <<now, factory, accepted, settled, grace_window, bid_token, proceeds>>

\* claim_auction: the winner of an auction not settled gets the bid back; it reverts
\* (InvalidState) without a bid token.
ClaimAuction(id) ==
  LET a == auctions[id]
  IN  /\ a.status = "Closed"
      /\ id \notin settled
      /\ a.highest_bidder # NoBidder
      /\ bid_token
      /\ escrow >= a.highest_bid
      /\ auctions' = [auctions EXCEPT ![id].status = "Claimed"]
      /\ escrow' = escrow - a.highest_bid
      /\ wallet' = [wallet EXCEPT ![a.highest_bidder] = @ + a.highest_bid]
      /\ UNCHANGED <<now, factory, accepted, settled, grace_window, bid_token, proceeds>>

SetLiquidationGraceWindow(secs) ==
  /\ factory # NoFactory
  /\ grace_window' = secs
  /\ UNCHANGED <<now, factory, auctions, accepted, settled, tokens>>

\* Ledger time passes.
Tick ==
  /\ now < MaxTime
  /\ now' = now + 1
  /\ UNCHANGED <<factory, auctions, accepted, settled, grace_window, tokens>>
-----------------------------------------------------------------------------
Init ==
  /\ now = 0
  /\ factory = NoFactory
  /\ auctions = [id \in AuctionIds |-> NoAuction]
  /\ accepted = {}
  /\ settled = {}
  /\ grace_window = 0
  /\ bid_token \in BOOLEAN
  /\ wallet = [p \in Bidders |-> Funds]
  /\ escrow = 0
  /\ proceeds = 0

AuctionStep(id) ==
  \/ \E c \in Configs : InitAuction(id, c)
  \/ \E p \in Bidders, amount \in Bids : BidEnglish(id, p, amount)
  \/ \E p \in Bidders, amount \in Bids : BidDutch(id, p, amount)
  \/ \E caller \in {"factory", "anyone"} : CloseAuction(id, caller)
  \/ SettleDefaultLiquidation(id)
  \/ ClaimAuction(id)

Next ==
  \/ Tick
  \/ \E id \in AuctionIds : AuctionStep(id)
  \/ \E f \in Factories : SetFactoryContract(f)
  \/ \E secs \in GraceWindows : SetLiquidationGraceWindow(secs)

\* Time passes, and whoever has an interest in it makes the permissionless call: an
\* auction past its deadline is closed by someone, a winner claims.  Nothing is assumed of
\* the factory, nor of bidders.
Fairness ==
  /\ WF_vars(Tick)
  /\ \A id \in AuctionIds : WF_vars(CloseAuction(id, "anyone")) /\ WF_vars(ClaimAuction(id))

Spec == Init /\ [][Next]_vars
FairSpec == Spec /\ Fairness
-----------------------------------------------------------------------------
State ==
  [config : Config, status : {"None", "Open", "Closed", "Claimed"},
   highest_bidder : Bidders \cup {NoBidder}, highest_bid : Nat]

\* Every variable keeps the type its storage entry has; no balance is overdrawn.
TypeOK ==
  /\ now \in 0..MaxTime
  /\ factory \in Factories \cup {NoFactory}
  /\ auctions \in [AuctionIds -> State]
  /\ accepted \subseteq AuctionIds \X Bidders \X Bids
  /\ settled \subseteq AuctionIds
  /\ grace_window \in Nat /\ bid_token \in BOOLEAN
  /\ wallet \in [Bidders -> Nat] /\ escrow \in Nat /\ proceeds \in Nat

\* What was paid for the bids of auctions that satisfy `in', added up.
BidTotal(in) ==
  SumFunction([id \in AuctionIds |-> IF in[id] THEN Paid(auctions[id].highest_bid) ELSE 0])

\* place_bid, settle_default_liquidation and claim_auction move tokens so that a bidder's
\* money is always in the bidder's own hands or the standing bid of an auction: an outbid
\* leader is refunded in full and at once, and no bid is paid back twice or paid back
\* after it was handed to the credit contract.  Without a bid token no money moves at all.
BiddersWhole ==
  \A p \in Bidders :
    wallet[p] + BidTotal([id \in AuctionIds |-> auctions[id].highest_bidder = p
                                                 /\ auctions[id].status # "Claimed"]) = Funds

\* The auction contract holds exactly the standing bids not yet settled or claimed, so a
\* settlement or claim of one auction never spends the bid of another.
EscrowExact ==
  escrow = BidTotal([id \in AuctionIds |-> auctions[id].status # "Claimed" /\ id \notin settled])

\* No bid is lost or paid twice: bidders and escrow between them hold what was bid.
BidsConserved == BiddersWhole /\ EscrowExact

\* A settled auction is Closed and stays so: it is neither claimed nor open to bids, unless
\* the factory uses its identifier again.
OneWayOut == \A id \in settled \ ReusedIds : auctions[id].status = "Closed"

\* A step that changes the leader of an auction raises its bid.
Outbid(id) ==
  auctions'[id].highest_bidder # auctions[id].highest_bidder =>
    auctions'[id].highest_bid > auctions[id].highest_bid

\* In an auction that goes on, the leader changes only to a strictly higher bid: the
\* increment place_bid demands never rounds to nothing.
LeaderOutbidOnly == [][\A id \in AuctionIds \ ReusedIds : Outbid(id)]_vars

\* compute_dutch_price: as time passes the price an open Dutch auction asks never rises,
\* and it stays between the floor and the start price, for each decay curve.
DutchPriceFalls ==
  [][\A id \in AuctionIds \ ReusedIds :
       LET c == auctions[id].config
       IN  auctions[id].status = "Open" /\ c.mode = "Dutch" =>
             /\ DutchPrice(c, now') <= DutchPrice(c, now)
             /\ DutchPrice(c, now) \in c.floor_price..c.start_price]_vars

\* close_auction is open to anyone past the deadline so that a winning bid is never locked
\* up by an idle factory: every bid that leads an auction, where bids are paid for, is
\* eventually outbid, claimed or settled.
WinnerPaidOut ==
  \A id \in AuctionIds, p \in Bidders :
    bid_token /\ auctions[id].highest_bidder = p /\ auctions[id].status = "Open"
      ~> auctions[id].highest_bidder # p \/ auctions[id].status = "Claimed" \/ id \in settled
-----------------------------------------------------------------------------
(* Statements of the documents, refuted by the code *)

\* auction.md: "AuctionStatus follows a strict three-state lifecycle", Open to Closed to
\* Claimed, "terminal after claim": no auction goes back in it.
StrictLifecycle ==
  [][\A id \in AuctionIds :
       LET before == auctions[id].status
           after  == auctions'[id].status
       IN  /\ before = "Closed" => after \in {"Closed", "Claimed"}
           /\ before = "Claimed" => after = "Claimed"]_vars
=============================================================================
