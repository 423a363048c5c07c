---------------------------- MODULE AuctionProofs ---------------------------
(***************************************************************************)
(* Theorems about Auction and its composition with the credit side in      *)
(* Liquidation, for any bidders, bids, auctions, lines and parameters:     *)
(* type correctness with no balance overdrawn, a settled auction stays     *)
(* closed, only a strictly higher bid takes the lead, and, when the        *)
(* factory uses no identifier twice, no bid is lost and each settlement    *)
(* books its auction's winning bid once, which is what the auction paid    *)
(* if it has a bid token.                                                  *)
(***************************************************************************)
EXTENDS Liquidation, SumTheorems

-----------------------------------------------------------------------------
(* Prices *)

\* The quotient of n by d is the only number whose multiple leaves a proper remainder.
LEMMA QuotientUnique ==
  ASSUME NEW n \in Int, NEW d \in Nat \ {0}, NEW q \in Int, NEW r \in 0..(d - 1), n = d * q + r
  PROVE  n \div d = q
<1> DEFINE p == n \div d
           m == n % d
<1>1. p \in Int /\ m \in 0..(d - 1) /\ n = d * p + m
  OBVIOUS
<1> HIDE DEF p, m
<1>2. d * p + m = d * q + r
  BY <1>1
<1>3. CASE p >= q + 1
  <2>1. d * p >= d * (q + 1)
    BY <1>1, <1>3
  <2>2. d * (q + 1) = d * q + d
    OBVIOUS
  <2>3. d * p \in Int /\ d * q \in Int
    BY <1>1
  <2> QED
    BY <1>1, <1>2, <2>1, <2>2, <2>3
<1>4. CASE q >= p + 1
  <2>1. d * q >= d * (p + 1)
    BY <1>1, <1>4
  <2>2. d * (p + 1) = d * p + d
    BY <1>1
  <2>3. d * p \in Int /\ d * q \in Int
    BY <1>1
  <2> QED
    BY <1>1, <1>2, <2>1, <2>2, <2>3
<1>5. p = q
  BY <1>1, <1>3, <1>4
<1> QED
  BY <1>5 DEF p

\* compute_dutch_price's division by quotient and remainder is the rounded-down product.
LEMMA PartExact ==
  ASSUME NEW whole \in Nat, NEW n \in Nat, NEW d \in Nat \ {0}
  PROVE  Part(whole, n, d) = (whole * n) \div d
<1> DEFINE q == whole \div d
           r == whole % d
           k == (r * n) \div d
           m == (r * n) % d
<1>1. q \in Int /\ r \in 0..(d - 1) /\ whole = d * q + r
  OBVIOUS
<1> HIDE DEF q, r
<1>2. k \in Int /\ m \in 0..(d - 1) /\ r * n = d * k + m
  <2> DEFINE c == r * n
  <2>1. c \in Int
    BY <1>1
  <2> HIDE DEF c
  <2>2. c \div d \in Int /\ c % d \in 0..(d - 1) /\ c = d * (c \div d) + (c % d)
    BY <2>1
  <2> QED
    BY <2>2 DEF c
<1> HIDE DEF k, m
<1>3. whole * n = d * (q * n + k) + m
  <2>1. (d * q + r) * n = d * (q * n) + r * n
    BY <1>1
  <2>2. d * (q * n + k) = d * (q * n) + d * k
    BY <1>1, <1>2
  <2>3. d * (q * n) \in Int /\ d * k \in Int
    BY <1>1, <1>2
  <2> QED
    BY <1>1, <1>2, <2>1, <2>2, <2>3
<1>4. (whole * n) \div d = q * n + k
  <2> DEFINE w == whole * n
             s == q * n + k
  <2>1. w \in Int /\ s \in Int /\ w = d * s + m
    BY <1>1, <1>2, <1>3
  <2> HIDE DEF w, s
  <2>2. w \div d = s
    BY <1>2, <2>1, QuotientUnique
  <2> QED
    BY <2>2 DEF w, s
<1> QED
  BY <1>4 DEF Part, q, r, k

\* min_next_bid is more than the bid, whatever the increment rounds to.
LEMMA MinNextBidGrows ==
  ASSUME NEW bid \in Nat, NEW bps \in Nat
  PROVE  MinNextBid(bid, bps) \in Nat /\ MinNextBid(bid, bps) > bid
<1> DEFINE n == bid * bps
<1>1. n \in Nat /\ BPS \in Nat \ {0}
  BY AuctionAssumption
<1>2. n \div BPS \in Nat
  <2> HIDE DEF n
  <2> QED
    BY <1>1
<1>3. MinNextBid(bid, bps) = bid + MaxOf(n \div BPS + (IF n % BPS = 0 THEN 0 ELSE 1), 1)
  BY DEF MinNextBid
<1> HIDE DEF n
<1> QED
  BY <1>1, <1>2, <1>3 DEF MaxOf
-----------------------------------------------------------------------------
(* The inductive invariant *)

\* What is moved for a bid is an amount.
LEMMA PaidNat == ASSUME NEW n \in Nat PROVE Paid(n) \in Nat
<1>1. CASE bid_token
  BY <1>1 DEF Paid
<1>2. CASE ~bid_token
  BY <1>2 DEF Paid
<1> QED
  BY <1>1, <1>2

\* An identifier not used yet has no leader and no bid; an open Dutch auction has no bid,
\* since its first bid closes it.
BidsSound ==
  \A id \in AuctionIds :
    /\ auctions[id].status = "None" => /\ auctions[id].highest_bidder = NoBidder
                                       /\ auctions[id].highest_bid = 0
    /\ auctions[id].status = "Open" /\ auctions[id].config.mode = "Dutch" =>
         auctions[id].highest_bid = 0

IInv == TypeOK /\ BidsSound /\ OneWayOut

\* Bids keep the invariant and raise the standing bid.
LEMMA BidsKeepIInv ==
  ASSUME IInv, NEW id \in AuctionIds, NEW p \in Bidders, NEW amount \in Bids,
         BidEnglish(id, p, amount) \/ BidDutch(id, p, amount)
  PROVE  IInv' /\ \A x \in AuctionIds : Outbid(x)
<1> DEFINE a == auctions[id]
<1>1. /\ auctions \in [AuctionIds -> State] /\ a \in State /\ a.highest_bid \in Nat
      /\ a.config \in Config /\ a.config.min_increment_bps \in Nat /\ a.config.min_bid \in Nat
      /\ wallet \in [Bidders -> Nat] /\ escrow \in Nat /\ amount \in Nat
      /\ NoBidder \notin Bidders
  BY AuctionAssumption DEF IInv, TypeOK, State, Config
<1>2. /\ a.status = "Open" /\ amount > 0 /\ wallet[p] >= Paid(amount)
      /\ accepted' = accepted \cup {<<id, p, amount>>}
      /\ UNCHANGED <<now, factory, settled, grace_window, bid_token, proceeds>>
  BY DEF BidEnglish, BidDutch, CanBid
<1>3. wallet' \in [Bidders -> Nat] /\ escrow' \in Nat
  <2>1. CASE BidEnglish(id, p, amount)
    <3>1. /\ wallet' = PaidAndRefunded(p, amount, a.highest_bidder, a.highest_bid)
          /\ escrow' = escrow + Paid(amount) - Paid(a.highest_bid)
          /\ escrow + Paid(amount) >= Paid(a.highest_bid)
      BY <2>1 DEF BidEnglish
    <3>2. Paid(amount) \in Nat /\ Paid(a.highest_bid) \in Nat
      BY <1>1, PaidNat
    <3> HIDE DEF a
    <3>3. wallet' \in [Bidders -> Nat]
      BY <1>1, <1>2, <3>1, <3>2 DEF PaidAndRefunded
    <3> QED
      BY <1>1, <3>1, <3>2, <3>3
  <2>2. CASE BidDutch(id, p, amount)
    <3>1. Paid(amount) \in Nat
      BY <1>1, PaidNat
    <3> QED
      BY <1>1, <1>2, <2>2, <3>1 DEF BidDutch
  <2> QED
    BY <2>1, <2>2
<1>4. amount > a.highest_bid
  <2>1. CASE BidEnglish(id, p, amount)
    <3>1. amount >= Threshold(a)
      BY <2>1 DEF BidEnglish
    <3>2. /\ MinNextBid(a.highest_bid, a.config.min_increment_bps) \in Nat
          /\ MinNextBid(a.highest_bid, a.config.min_increment_bps) > a.highest_bid
      BY <1>1, MinNextBidGrows
    <3>3. CASE a.highest_bid > 0
      <4>1. Threshold(a) = MaxOf(MinNextBid(a.highest_bid, a.config.min_increment_bps), a.config.min_bid)
        BY <3>3 DEF Threshold
      <4> QED
        BY <1>1, <3>1, <3>2, <4>1 DEF MaxOf
    <3>4. CASE a.highest_bid = 0
      BY <1>2, <3>4
    <3> QED
      BY <1>1, <3>3, <3>4
  <2>2. CASE BidDutch(id, p, amount)
    BY <1>1, <1>2, <2>2 DEF BidDutch, IInv, BidsSound
  <2> QED
    BY <2>1, <2>2
<1>5. \E s \in {"Open", "Closed"} :
        /\ auctions' = [auctions EXCEPT ![id] = [a EXCEPT !.highest_bidder = p,
                                                  !.highest_bid = amount, !.status = s]]
        /\ a.config.mode = "Dutch" => s = "Closed"
  <2>1. CASE BidEnglish(id, p, amount)
    <3>1. auctions' = [auctions EXCEPT ![id].highest_bidder = p, ![id].highest_bid = amount]
          /\ a.config.mode = "English"
      BY <2>1 DEF BidEnglish
    <3>2. auctions' = [auctions EXCEPT ![id] = [a EXCEPT !.highest_bidder = p,
                                                 !.highest_bid = amount, !.status = "Open"]]
      BY <1>1, <1>2, <3>1 DEF State
    <3> QED
      BY <3>1, <3>2
  <2>2. CASE BidDutch(id, p, amount)
    <3>1. auctions' = [auctions EXCEPT ![id].highest_bidder = p, ![id].highest_bid = amount,
                                       ![id].status = "Closed"]
      BY <2>2 DEF BidDutch
    <3>2. auctions' = [auctions EXCEPT ![id] = [a EXCEPT !.highest_bidder = p,
                                                 !.highest_bid = amount, !.status = "Closed"]]
      BY <1>1, <3>1 DEF State
    <3> QED
      BY <3>2
  <2> QED
    BY <2>1, <2>2
<1>6. PICK s \in {"Open", "Closed"} :
        /\ auctions' = [auctions EXCEPT ![id] = [a EXCEPT !.highest_bidder = p,
                                                  !.highest_bid = amount, !.status = s]]
        /\ a.config.mode = "Dutch" => s = "Closed"
  BY <1>5
<1> DEFINE new == [a EXCEPT !.highest_bidder = p, !.highest_bid = amount, !.status = s]
<1>7. /\ new \in State /\ new.status = s /\ new.config = a.config /\ new.highest_bid = amount
  BY <1>1 DEF State
<1>8. auctions' = [auctions EXCEPT ![id] = new]
  BY <1>6
<1> HIDE DEF new
<1>9. TypeOK'
  <2>1. auctions' \in [AuctionIds -> State]
    BY <1>1, <1>7, <1>8
  <2>2. accepted' \subseteq AuctionIds \X Bidders \X Bids
    BY <1>2 DEF IInv, TypeOK
  <2> QED
    BY <1>2, <1>3, <2>1, <2>2 DEF IInv, TypeOK
<1>10. BidsSound'
  BY <1>1, <1>6, <1>7, <1>8 DEF IInv, BidsSound
<1>11. OneWayOut'
  <2>1. id \notin settled \ ReusedIds
    BY <1>2 DEF IInv, OneWayOut
  <2> QED
    BY <1>1, <1>2, <1>8, <2>1 DEF IInv, TypeOK, OneWayOut
<1>12. \A x \in AuctionIds : Outbid(x)
  BY <1>1, <1>4, <1>7, <1>8 DEF Outbid
<1> QED
  BY <1>9, <1>10, <1>11, <1>12 DEF IInv

\* A step on one auction that keeps its bid and its leader keeps the invariant, as long as
\* it moves the status forward and does not disturb a settled auction.
LEMMA StatusKeepsIInv ==
  ASSUME IInv, TypeOK', NEW id \in AuctionIds, NEW s \in {"Closed", "Claimed"},
         auctions' = [auctions EXCEPT ![id].status = s], UNCHANGED settled,
         auctions[id].status # "None",
         id \in settled \ ReusedIds => s = "Closed"
  PROVE  IInv' /\ \A x \in AuctionIds : Outbid(x)
<1>1. auctions \in [AuctionIds -> State]
  BY DEF IInv, TypeOK
<1>2. /\ auctions'[id].status = s /\ auctions'[id].highest_bidder = auctions[id].highest_bidder
      /\ \A x \in AuctionIds \ {id} : auctions'[x] = auctions[x]
  BY <1>1 DEF State
<1>3. BidsSound' /\ OneWayOut'
  BY <1>1, <1>2 DEF IInv, TypeOK, BidsSound, OneWayOut
<1>4. \A x \in AuctionIds : Outbid(x)
  BY <1>2 DEF Outbid
<1> QED
  BY <1>3, <1>4 DEF IInv

\* A step that leaves the auctions alone, and settles at most a closed one, keeps the
\* invariant.
LEMMA AuctionsUnchangedKeepIInv ==
  ASSUME IInv, TypeOK', UNCHANGED auctions,
         \A id \in settled' \ settled : auctions[id].status = "Closed"
  PROVE  IInv' /\ \A x \in AuctionIds : Outbid(x)
  BY DEF IInv, BidsSound, OneWayOut, Outbid

\* Creating an auction keeps the invariant; only a reused identifier loses a leader by it.
LEMMA InitAuctionKeepsIInv ==
  ASSUME IInv, NEW id \in AuctionIds, NEW c \in Configs, InitAuction(id, c)
  PROVE  IInv' /\ \A x \in AuctionIds \ ReusedIds : Outbid(x)
<1> DEFINE new == [NoAuction EXCEPT !.config = c, !.status = "Open"]
<1>1. /\ auctions' = [auctions EXCEPT ![id] = new]
      /\ auctions[id].status # "None" => id \in ReusedIds
      /\ UNCHANGED <<now, factory, accepted, settled, grace_window, tokens>>
  BY DEF InitAuction
<1>2. /\ new \in State /\ new.status = "Open" /\ new.highest_bid = 0
      /\ new.highest_bidder = NoBidder
  BY AuctionAssumption DEF NoAuction, State
<1> HIDE DEF new
<1>3. TypeOK'
  BY <1>1, <1>2 DEF IInv, TypeOK, tokens
<1>4. BidsSound'
  BY <1>1, <1>2 DEF IInv, TypeOK, BidsSound
<1>5. OneWayOut'
  BY <1>1, <1>2 DEF IInv, TypeOK, OneWayOut
<1>6. \A x \in AuctionIds \ ReusedIds : Outbid(x)
  BY <1>1, <1>2 DEF IInv, TypeOK, BidsSound, Outbid
<1> QED
  BY <1>3, <1>4, <1>5, <1>6 DEF IInv

\* The invariant holds initially.
LEMMA InitIInv == Init => IInv
<1> SUFFICES ASSUME Init PROVE IInv
  OBVIOUS
<1>1. NoAuction \in State /\ NoAuction.highest_bidder = NoBidder /\ NoAuction.highest_bid = 0
  BY DEF NoAuction, State, NoConfig, Config
<1>2. auctions = [id \in AuctionIds |-> NoAuction] /\ settled = {}
  BY DEF Init
<1>3. TypeOK
  BY <1>1, AuctionAssumption DEF Init, TypeOK
<1>4. BidsSound /\ OneWayOut
  BY <1>1, <1>2 DEF BidsSound, OneWayOut
<1> QED
  BY <1>3, <1>4 DEF IInv

\* Every step keeps the invariant, and changes a leader only to a higher bid.
LEMMA NextIInv ==
  IInv /\ [Next]_vars => IInv' /\ [\A id \in AuctionIds \ ReusedIds : Outbid(id)]_vars
<1> SUFFICES ASSUME IInv, [Next]_vars
             PROVE  IInv' /\ \A x \in AuctionIds \ ReusedIds : Outbid(x)
  OBVIOUS
<1>1. CASE UNCHANGED vars
  <2>1. TypeOK' /\ UNCHANGED <<auctions, settled>>
    BY <1>1 DEF IInv, TypeOK, vars
  <2> QED
    BY <2>1, AuctionsUnchangedKeepIInv
<1>2. CASE Tick
  <2>1. TypeOK' /\ UNCHANGED <<auctions, settled>>
    BY <1>2, AuctionAssumption DEF IInv, TypeOK, Tick, tokens
  <2> QED
    BY <2>1, AuctionsUnchangedKeepIInv
<1>3. CASE \E f \in Factories : SetFactoryContract(f)
  <2>1. TypeOK' /\ UNCHANGED <<auctions, settled>>
    BY <1>3 DEF IInv, TypeOK, SetFactoryContract, tokens
  <2> QED
    BY <2>1, AuctionsUnchangedKeepIInv
<1>4. CASE \E secs \in GraceWindows : SetLiquidationGraceWindow(secs)
  <2>1. TypeOK' /\ UNCHANGED <<auctions, settled>>
    BY <1>4, AuctionAssumption DEF IInv, TypeOK, SetLiquidationGraceWindow, tokens
  <2> QED
    BY <2>1, AuctionsUnchangedKeepIInv
<1>5. ASSUME NEW id \in AuctionIds, AuctionStep(id)
      PROVE  IInv' /\ \A x \in AuctionIds \ ReusedIds : Outbid(x)
  <2>1. /\ auctions \in [AuctionIds -> State] /\ auctions[id] \in State
        /\ auctions[id].highest_bid \in Nat /\ escrow \in Nat /\ proceeds \in Nat
        /\ wallet \in [Bidders -> Nat]
    BY DEF IInv, TypeOK, State
  <2>2. CASE \E caller \in {"factory", "anyone"} : CloseAuction(id, caller)
    <3>1. /\ auctions' = [auctions EXCEPT ![id].status = "Closed"] /\ auctions[id].status = "Open"
          /\ UNCHANGED <<now, factory, accepted, settled, grace_window, tokens>>
      BY <2>2 DEF CloseAuction
    <3>2. auctions' \in [AuctionIds -> State]
      BY <2>1, <3>1 DEF State
    <3>3. TypeOK'
      BY <3>1, <3>2 DEF IInv, TypeOK, tokens
    <3> QED
      BY <3>1, <3>3, StatusKeepsIInv
  <2>3. CASE ClaimAuction(id)
    <3> DEFINE a == auctions[id]
    <3>1. /\ auctions' = [auctions EXCEPT ![id].status = "Claimed"] /\ a.status = "Closed"
          /\ id \notin settled /\ a.highest_bidder # NoBidder /\ escrow >= a.highest_bid
          /\ escrow' = escrow - a.highest_bid
          /\ wallet' = [wallet EXCEPT ![a.highest_bidder] = @ + a.highest_bid]
          /\ UNCHANGED <<now, factory, accepted, settled, grace_window, bid_token, proceeds>>
      BY <2>3 DEF ClaimAuction
    <3>2. auctions' \in [AuctionIds -> State] /\ a.highest_bidder \in Bidders
      BY <2>1, <3>1 DEF State
    <3>3. wallet' \in [Bidders -> Nat] /\ escrow' \in Nat
      BY <2>1, <3>1, <3>2
    <3>4. TypeOK'
      BY <3>1, <3>2, <3>3 DEF IInv, TypeOK
    <3> QED
      BY <3>1, <3>4, StatusKeepsIInv
  <2>4. CASE SettleDefaultLiquidation(id)
    <3> DEFINE bid == Paid(auctions[id].highest_bid)
    <3>1. /\ auctions[id].status = "Closed" /\ escrow >= bid
          /\ settled' = settled \cup {id}
          /\ escrow' = escrow - bid /\ proceeds' = proceeds + bid /\ bid \in Nat
          /\ UNCHANGED <<now, factory, auctions, accepted, grace_window, bid_token, wallet>>
      BY <2>1, <2>4, PaidNat DEF SettleDefaultLiquidation
    <3> HIDE DEF bid
    <3>2. TypeOK'
      BY <2>1, <3>1 DEF IInv, TypeOK
    <3> QED
      BY <3>1, <3>2, AuctionsUnchangedKeepIInv
  <2> QED
    BY <1>5, <2>2, <2>3, <2>4, BidsKeepIInv, InitAuctionKeepsIInv DEF AuctionStep
<1> QED
  BY <1>1, <1>2, <1>3, <1>4, <1>5 DEF Next
-----------------------------------------------------------------------------
(* Where the bids are *)

\* What each auction holds of the bidder's money, settled or not, and what of each auction
\* the contract still holds.
Owned(p) ==
  [id \in AuctionIds |-> IF auctions[id].highest_bidder = p /\ auctions[id].status # "Claimed"
                         THEN Paid(auctions[id].highest_bid) ELSE 0]
Held ==
  [id \in AuctionIds |-> IF auctions[id].status # "Claimed" /\ id \notin settled
                         THEN Paid(auctions[id].highest_bid) ELSE 0]

BidsWhereabouts ==
  /\ \A p \in Bidders : wallet[p] + SumFunction(Owned(p)) = Funds
  /\ escrow = SumFunction(Held)

\* The whereabouts are what BidsConserved says.
LEMMA WhereaboutsConserve == BidsWhereabouts => BidsConserved
<1>1. \A p \in Bidders :
        BidTotal([id \in AuctionIds |-> auctions[id].highest_bidder = p
                                          /\ auctions[id].status # "Claimed"]) = SumFunction(Owned(p))
  <2> SUFFICES ASSUME NEW p \in Bidders
               PROVE  BidTotal([id \in AuctionIds |-> auctions[id].highest_bidder = p
                                  /\ auctions[id].status # "Claimed"]) = SumFunction(Owned(p))
    OBVIOUS
  <2> DEFINE in == [id \in AuctionIds |-> auctions[id].highest_bidder = p
                                            /\ auctions[id].status # "Claimed"]
             f == [id \in AuctionIds |-> IF in[id] THEN Paid(auctions[id].highest_bid) ELSE 0]
  <2>1. f = Owned(p)
    BY DEF Owned
  <2>2. BidTotal(in) = SumFunction(f)
    BY DEF BidTotal
  <2> HIDE DEF f
  <2> QED BY <2>1, <2>2
<1>2. BidTotal([id \in AuctionIds |-> auctions[id].status # "Claimed" /\ id \notin settled])
        = SumFunction(Held)
  <2> DEFINE in == [id \in AuctionIds |-> auctions[id].status # "Claimed" /\ id \notin settled]
             f == [id \in AuctionIds |-> IF in[id] THEN Paid(auctions[id].highest_bid) ELSE 0]
  <2>1. f = Held
    BY DEF Held
  <2>2. BidTotal(in) = SumFunction(f)
    BY DEF BidTotal
  <2> HIDE DEF f
  <2> QED BY <2>1, <2>2
<1> QED
  BY <1>1, <1>2 DEF BidsWhereabouts, BidsConserved, BiddersWhole, EscrowExact

\* The entries are amounts.
LEMMA EntriesTyped ==
  ASSUME auctions \in [AuctionIds -> State]
  PROVE  Held \in [AuctionIds -> Nat] /\ \A p \in Bidders : Owned(p) \in [AuctionIds -> Nat]
<1>1. \A id \in AuctionIds : Paid(auctions[id].highest_bid) \in Nat
  BY PaidNat DEF State
<1> QED
  BY <1>1 DEF Held, Owned

\* A step on one auction that moves what the auction holds from or to its bidders keeps
\* the whereabouts.
LEMMA OneAuctionMoves ==
  ASSUME TypeOK, TypeOK', BidsWhereabouts, NEW id \in AuctionIds, UNCHANGED bid_token,
         \A x \in AuctionIds : x # id => Held'[x] = Held[x],
         \A p \in Bidders, x \in AuctionIds : x # id => Owned(p)'[x] = Owned(p)[x],
         \A p \in Bidders : wallet'[p] + Owned(p)'[id] = wallet[p] + Owned(p)[id],
         escrow' + Held[id] = escrow + Held'[id]
  PROVE  BidsWhereabouts'
<1>1. IsFiniteSet(AuctionIds) /\ Funds \in Nat
  BY AuctionAssumption
<1>2. /\ Held \in [AuctionIds -> Nat] /\ \A p \in Bidders : Owned(p) \in [AuctionIds -> Nat]
      /\ Held' \in [AuctionIds -> Nat] /\ \A p \in Bidders : Owned(p)' \in [AuctionIds -> Nat]
  <2>1. Held \in [AuctionIds -> Nat] /\ \A p \in Bidders : Owned(p) \in [AuctionIds -> Nat]
    BY EntriesTyped DEF TypeOK
  <2>2. \A x \in AuctionIds : Paid(auctions'[x].highest_bid) \in Nat
    BY PaidNat DEF TypeOK, State
  <2>3. \A x \in AuctionIds : Paid(auctions[x].highest_bid)' = Paid(auctions'[x].highest_bid)
    BY DEF Paid
  <2> QED
    BY <2>1, <2>2, <2>3 DEF Held, Owned
<1>3. escrow' = SumFunction(Held')
  <2> DEFINE f == Held
             g == Held'
             d == escrow
             e == escrow'
  <2>1. f \in [AuctionIds -> Int] /\ g \in [AuctionIds -> Int] /\ \A x \in AuctionIds : x # id => g[x] = f[x]
    BY <1>2
  <2>2. d \in Int /\ e \in Int /\ d = SumFunction(f) /\ e + f[id] = d + g[id]
    BY DEF BidsWhereabouts, TypeOK
  <2> HIDE DEF f, g, d, e
  <2>3. SumFunction(g) = SumFunction(f) + g[id] - f[id] /\ SumFunction(f) \in Int
    BY <1>1, <2>1, SumFunctionUpdate, SumFunctionInt
  <2>4. f[id] \in Int /\ g[id] \in Int
    BY <2>1
  <2>5. e = SumFunction(g)
    <3> DEFINE x == f[id]
               y == g[id]
               u == SumFunction(f)
               v == SumFunction(g)
    <3>1. /\ d \in Int /\ e \in Int /\ x \in Int /\ y \in Int /\ u \in Int
          /\ d = u /\ e + x = d + y /\ v = u + y - x
      BY <2>2, <2>3, <2>4
    <3> HIDE DEF x, y, u, v
    <3>2. e = v
      BY <3>1
    <3> QED BY <3>2 DEF v
  <2> QED
    BY <2>5 DEF g, e
<1>4. ASSUME NEW p \in Bidders
      PROVE  wallet'[p] + SumFunction(Owned(p)') = Funds
  <2> DEFINE f == Owned(p)
             g == Owned(p)'
             d == wallet[p]
             e == wallet'[p]
  <2>1. f \in [AuctionIds -> Int] /\ g \in [AuctionIds -> Int] /\ \A x \in AuctionIds : x # id => g[x] = f[x]
    BY <1>2, <1>4
  <2>2. d \in Int /\ e \in Int /\ d + SumFunction(f) = Funds /\ e + g[id] = d + f[id]
    BY <1>4 DEF BidsWhereabouts, TypeOK
  <2> HIDE DEF f, g, d, e
  <2>3. SumFunction(g) = SumFunction(f) + g[id] - f[id] /\ SumFunction(f) \in Int
    BY <1>1, <2>1, SumFunctionUpdate, SumFunctionInt
  <2>4. f[id] \in Int /\ g[id] \in Int
    BY <2>1
  <2>5. e + SumFunction(g) = Funds
    BY <1>1, <2>2, <2>3, <2>4
  <2> QED
    BY <2>5 DEF g, e
<1> QED
  BY <1>3, <1>4 DEF BidsWhereabouts

\* An auction whose state and settlement a step leaves alone keeps its entries.
LEMMA EntriesFramed ==
  ASSUME NEW x \in AuctionIds, auctions'[x] = auctions[x], x \in settled' <=> x \in settled,
         UNCHANGED bid_token
  PROVE  Held'[x] = Held[x] /\ \A p \in Bidders : Owned(p)'[x] = Owned(p)[x]
<1>1. Paid(auctions[x].highest_bid)' = Paid(auctions[x].highest_bid)
  BY DEF Paid
<1> QED
  BY <1>1 DEF Held, Owned

\* Every step keeps the whereabouts, if no identifier is used twice.
LEMMA NextWhereabouts ==
  ASSUME ReusedIds = {}, IInv, IInv', BidsWhereabouts, [Next]_vars
  PROVE  BidsWhereabouts'
<1>1. CASE UNCHANGED <<auctions, settled, bid_token, wallet, escrow>>
  <2>1. Held' = Held /\ \A p \in Bidders : Owned(p)' = Owned(p)
    BY <1>1 DEF Held, Owned, Paid
  <2> QED
    BY <1>1, <2>1 DEF BidsWhereabouts
<1>2. ASSUME NEW id \in AuctionIds, AuctionStep(id)
      PROVE  BidsWhereabouts'
  <2> DEFINE a == auctions[id]
             b == auctions'[id]
  <2>1. /\ TypeOK /\ TypeOK' /\ a \in State /\ a.highest_bid \in Nat /\ escrow \in Nat
        /\ wallet \in [Bidders -> Nat] /\ auctions \in [AuctionIds -> State]
        /\ NoBidder \notin Bidders /\ Bids \subseteq Nat
    BY AuctionAssumption DEF IInv, TypeOK, State
  <2>2. /\ UNCHANGED bid_token
        /\ \A x \in AuctionIds : x # id =>
             auctions'[x] = auctions[x] /\ (x \in settled' <=> x \in settled)
    BY <1>2, <2>1 DEF AuctionStep, InitAuction, BidEnglish, BidDutch, CloseAuction,
                      SettleDefaultLiquidation, ClaimAuction, tokens
  <2>3. /\ \A x \in AuctionIds : x # id => Held'[x] = Held[x]
        /\ \A p \in Bidders, x \in AuctionIds : x # id => Owned(p)'[x] = Owned(p)[x]
    BY <2>2, EntriesFramed
  <2>4. id \in settled => a.status = "Closed"
    BY DEF IInv, OneWayOut
  <2>5. /\ Held[id] = IF a.status # "Claimed" /\ id \notin settled THEN Paid(a.highest_bid) ELSE 0
        /\ Held'[id] = IF b.status # "Claimed" /\ id \notin settled' THEN Paid(b.highest_bid) ELSE 0
        /\ \A p \in Bidders :
             /\ Owned(p)[id] = IF a.highest_bidder = p /\ a.status # "Claimed"
                               THEN Paid(a.highest_bid) ELSE 0
             /\ Owned(p)'[id] = IF b.highest_bidder = p /\ b.status # "Claimed"
                                THEN Paid(b.highest_bid) ELSE 0
    <3>1. Paid(auctions[id].highest_bid)' = Paid(b.highest_bid)
      BY <2>2 DEF Paid
    <3> QED
      BY <3>1 DEF Held, Owned
  <2>5a. Paid(a.highest_bid) \in Nat /\ Paid(0) = 0
    BY <2>1, PaidNat DEF Paid
  <2> SUFFICES /\ \A p \in Bidders : wallet'[p] + Owned(p)'[id] = wallet[p] + Owned(p)[id]
               /\ escrow' + Held[id] = escrow + Held'[id]
    BY <2>1, <2>2, <2>3, OneAuctionMoves
  <2>6. CASE \E c \in Configs : InitAuction(id, c)
    <3>1. /\ b.status = "Open" /\ b.highest_bid = 0 /\ a.highest_bid = 0 /\ a.status = "None"
          /\ UNCHANGED <<wallet, escrow, settled>>
      BY <2>1, <2>6 DEF InitAuction, NoAuction, IInv, BidsSound, tokens
    <3> HIDE DEF a, b
    <3> QED
      BY <2>1, <2>5, <2>5a, <3>1
  <2>7. CASE \E p \in Bidders, amount \in Bids : BidEnglish(id, p, amount)
    <3>1. PICK p \in Bidders, amount \in Bids : BidEnglish(id, p, amount)
      BY <2>7
    <3>2. /\ a.status = "Open" /\ b.status = "Open" /\ b.highest_bidder = p /\ b.highest_bid = amount
          /\ wallet' = PaidAndRefunded(p, amount, a.highest_bidder, a.highest_bid)
          /\ escrow' = escrow + Paid(amount) - Paid(a.highest_bid) /\ settled' = settled
      BY <2>1, <3>1 DEF BidEnglish, CanBid, State
    <3>3. \A q \in Bidders : wallet'[q] = wallet[q] - (IF q = p THEN Paid(amount) ELSE 0)
                                     + (IF q = a.highest_bidder THEN Paid(a.highest_bid) ELSE 0)
      BY <3>2 DEF PaidAndRefunded
    <3>4. Paid(amount) \in Nat /\ id \notin settled
      BY <2>1, <2>4, <3>2, PaidNat
    <3> HIDE DEF a, b
    <3>5. \A q \in Bidders : wallet'[q] + Owned(q)'[id] = wallet[q] + Owned(q)[id]
      <4> TAKE q \in Bidders
      <4>1. wallet[q] \in Nat
        BY <2>1
      <4>2. /\ Owned(q)[id] = IF a.highest_bidder = q THEN Paid(a.highest_bid) ELSE 0
            /\ Owned(q)'[id] = IF q = p THEN Paid(amount) ELSE 0
        BY <2>5, <3>2
      <4>3. wallet'[q] = wallet[q] - (IF q = p THEN Paid(amount) ELSE 0)
                           + (IF q = a.highest_bidder THEN Paid(a.highest_bid) ELSE 0)
        BY <3>3
      <4> QED
        BY <2>5a, <3>4, <4>1, <4>2, <4>3
    <3>6. escrow' + Held[id] = escrow + Held'[id]
      <4>1. Held[id] = Paid(a.highest_bid) /\ Held'[id] = Paid(amount)
        BY <2>5, <3>2, <3>4
      <4> QED
        BY <2>1, <2>5a, <3>2, <3>4, <4>1
    <3> QED
      BY <3>5, <3>6
  <2>8. CASE \E p \in Bidders, amount \in Bids : BidDutch(id, p, amount)
    <3>1. PICK p \in Bidders, amount \in Bids : BidDutch(id, p, amount)
      BY <2>8
    <3>2. /\ a.status = "Open" /\ b.status = "Closed" /\ b.highest_bidder = p
          /\ b.highest_bid = amount /\ a.highest_bid = 0
          /\ wallet' = [wallet EXCEPT ![p] = @ - Paid(amount)]
          /\ escrow' = escrow + Paid(amount) /\ settled' = settled
      BY <2>1, <3>1 DEF BidDutch, CanBid, State, IInv, BidsSound
    <3>3. Paid(amount) \in Nat /\ id \notin settled
      BY <2>1, <2>4, <3>2, PaidNat
    <3> HIDE DEF a, b
    <3>4. \A q \in Bidders : wallet'[q] + Owned(q)'[id] = wallet[q] + Owned(q)[id]
      <4> TAKE q \in Bidders
      <4>1. wallet[q] \in Nat
        BY <2>1
      <4>2. Owned(q)[id] = 0 /\ Owned(q)'[id] = IF q = p THEN Paid(amount) ELSE 0
        BY <2>5, <2>5a, <3>2
      <4>3. wallet'[q] = wallet[q] - (IF q = p THEN Paid(amount) ELSE 0)
        BY <2>1, <3>2, <3>3, <4>1
      <4> QED
        BY <3>3, <4>1, <4>2, <4>3
    <3>5. escrow' + Held[id] = escrow + Held'[id]
      BY <2>1, <2>5, <2>5a, <3>2, <3>3
    <3> QED
      BY <3>4, <3>5
  <2>9. CASE \E caller \in {"factory", "anyone"} : CloseAuction(id, caller)
    <3>1. /\ a.status = "Open" /\ b.status = "Closed" /\ b.highest_bid = a.highest_bid
          /\ b.highest_bidder = a.highest_bidder /\ UNCHANGED <<wallet, escrow, settled>>
      BY <2>1, <2>9 DEF CloseAuction, State, tokens
    <3> HIDE DEF a, b
    <3> QED
      BY <2>1, <2>5, <2>5a, <3>1
  <2>10. CASE SettleDefaultLiquidation(id)
    <3>1. /\ a.status = "Closed" /\ b = a /\ id \notin settled /\ id \in settled'
          /\ escrow' = escrow - Paid(a.highest_bid) /\ wallet' = wallet
      BY <2>10 DEF SettleDefaultLiquidation
    <3> HIDE DEF a, b
    <3> QED
      BY <2>1, <2>5, <2>5a, <3>1
  <2>11. CASE ClaimAuction(id)
    <3>1. /\ a.status = "Closed" /\ b.status = "Claimed" /\ b.highest_bid = a.highest_bid
          /\ b.highest_bidder = a.highest_bidder /\ id \notin settled
          /\ escrow' = escrow - a.highest_bid /\ settled' = settled
          /\ wallet' = [wallet EXCEPT ![a.highest_bidder] = @ + a.highest_bid]
          /\ Paid(a.highest_bid) = a.highest_bid
      BY <2>1, <2>11 DEF ClaimAuction, State, Paid
    <3> HIDE DEF a, b
    <3>2. \A q \in Bidders : wallet'[q] + Owned(q)'[id] = wallet[q] + Owned(q)[id]
      <4> TAKE q \in Bidders
      <4>1. wallet[q] \in Nat
        BY <2>1
      <4>2. Owned(q)[id] = (IF q = a.highest_bidder THEN a.highest_bid ELSE 0) /\ Owned(q)'[id] = 0
        BY <2>5, <3>1
      <4>3. wallet'[q] = wallet[q] + (IF q = a.highest_bidder THEN a.highest_bid ELSE 0)
        BY <2>1, <3>1, <4>1
      <4> QED
        BY <2>1, <4>1, <4>2, <4>3
    <3>3. escrow' + Held[id] = escrow + Held'[id]
      BY <2>1, <2>5, <3>1
    <3> QED
      BY <3>2, <3>3
  <2> QED
    BY <1>2, <2>6, <2>7, <2>8, <2>9, <2>10, <2>11 DEF AuctionStep
<1>3. CASE Tick \/ (\E f \in Factories : SetFactoryContract(f))
           \/ (\E secs \in GraceWindows : SetLiquidationGraceWindow(secs)) \/ UNCHANGED vars
  BY <1>1, <1>3 DEF Tick, SetFactoryContract, SetLiquidationGraceWindow, tokens, vars
<1> QED
  BY <1>2, <1>3 DEF Next

\* Initially every bidder holds all the money.
LEMMA InitWhereabouts == Init => BidsWhereabouts
<1> SUFFICES ASSUME Init PROVE BidsWhereabouts
  OBVIOUS
<1>1. IsFiniteSet(AuctionIds) /\ Funds \in Nat
  BY AuctionAssumption
<1>2. /\ DOMAIN Held = AuctionIds /\ \A x \in AuctionIds : Held[x] = 0
      /\ \A p \in Bidders : DOMAIN Owned(p) = AuctionIds /\ \A x \in AuctionIds : Owned(p)[x] = 0
  BY DEF Init, NoAuction, Held, Owned, Paid
<1>3. SumFunction(Held) = 0 /\ \A p \in Bidders : SumFunction(Owned(p)) = 0
  BY <1>1, <1>2, SumFunctionZero
<1> QED
  BY <1>1, <1>3 DEF Init, BidsWhereabouts
-----------------------------------------------------------------------------
(* Theorems *)

\* Every reachable state satisfies the inductive invariant.
THEOREM Invariance == Spec => []IInv
  BY InitIInv, NextIInv, PTL DEF Spec

\* Every storage entry and every balance keeps its type: no bidder and no escrow is overdrawn.
THEOREM TypeCorrect == Spec => []TypeOK
<1>1. IInv => TypeOK
  BY DEF IInv
<1> QED
  BY <1>1, Invariance, PTL

\* A settled auction is never claimed and never takes another bid.
THEOREM SettledStaysClosed == Spec => []OneWayOut
<1>1. IInv => OneWayOut
  BY DEF IInv
<1> QED
  BY <1>1, Invariance, PTL

\* Only a strictly higher bid takes the lead from a leader.
THEOREM OnlyOutbid == Spec => LeaderOutbidOnly
<1>1. IInv /\ [Next]_vars => [\A id \in AuctionIds \ ReusedIds : Outbid(id)]_vars
  BY NextIInv
<1> QED
  BY <1>1, Invariance, PTL DEF Spec, LeaderOutbidOnly

\* No bid is lost or paid twice: what a bidder holds and what stands in auctions add up to
\* what the bidder had, and the contract holds exactly the bids not yet settled or claimed,
\* as long as the factory uses no identifier twice.
THEOREM NoBidLost == ASSUME ReusedIds = {} PROVE Spec => []BidsConserved
<1>1. Init => BidsWhereabouts
  BY InitWhereabouts
<1>2. IInv /\ IInv' /\ BidsWhereabouts /\ [Next]_vars => BidsWhereabouts'
  BY NextWhereabouts
<1>3. BidsWhereabouts => BidsConserved
  BY WhereaboutsConserve
<1> QED
  BY <1>1, <1>2, <1>3, Invariance, PTL DEF Spec
-----------------------------------------------------------------------------
(* Settlements: the credit contract and the auction contract together *)

\* Whatever the credit contract and its callers do, the auction contract only ever takes
\* steps of its own specification.
THEOREM ImplementsAuction == LiquidationSpec => Spec
<1>1. [LiquidationNext]_<<vars, creditVars>> => [Next]_vars
  <2> SUFFICES ASSUME [LiquidationNext]_<<vars, creditVars>> PROVE [Next]_vars
    OBVIOUS
  <2>1. ASSUME NEW id \in AuctionIds, FactoryStep(id) PROVE Next
    BY <2>1 DEF FactoryStep, Next, AuctionStep
  <2>2. ASSUME NEW id \in AuctionIds, PublicStep(id) PROVE Next
    BY <2>2 DEF PublicStep, Next, AuctionStep
  <2>3. ASSUME NEW b \in Debtors, NEW id \in AuctionIds, NEW amount \in Recoveries,
               NEW cf \in CloseFactors, SettleThroughHook(b, id, amount, cf)
        PROVE  Next
    BY <2>3 DEF SettleThroughHook, Next, AuctionStep
  <2>4. CASE Tick
    BY <2>4 DEF Next
  <2>5. CASE \/ UNCHANGED <<vars, creditVars>>
             \/ \E b \in Debtors : DefaultLine(b) \/ \E amount \in Recoveries : RepayLine(b, amount)
             \/ \E v \in Versions \cup {NoAnswer} : SetAuctionContract(v)
             \/ \E cf \in CloseFactors : SetCloseFactor(cf)
             \/ \E b \in Debtors, id \in AuctionIds, amount \in Recoveries, cf \in CloseFactors :
                  SettleByHand(b, id, amount, cf)
    BY <2>5 DEF DefaultLine, RepayLine, SetAuctionContract, SetCloseFactor, SettleByHand
  <2> QED
    BY <2>1, <2>2, <2>3, <2>4, <2>5 DEF LiquidationNext
<1> QED
  BY <1>1, PTL DEF LiquidationSpec, Spec

\* Booked recoveries are amounts, and the properties hold.
SettlementInv ==
  /\ recovered \in [{"hook", "hand"} -> [AuctionIds -> Nat]] /\ received \in Nat
  /\ SettlementSound

\* A step that books nothing through the hook keeps the invariant if it leaves booked
\* auctions alone and takes nothing back from the factory.
LEMMA UnbookedKeepsSettlementInv ==
  ASSUME IInv, SettlementInv, IInv', recovered' \in [{"hook", "hand"} -> [AuctionIds -> Nat]],
         recovered'["hook"] = recovered["hook"], UNCHANGED <<received, bid_token>>,
         proceeds' >= proceeds,
         \A id \in AuctionIds : id \in settled /\ auctions[id].status = "Closed" =>
           /\ id \in settled' /\ auctions'[id].status = "Closed"
           /\ auctions'[id].highest_bid = auctions[id].highest_bid
  PROVE  SettlementInv'
<1>1. received <= proceeds' /\ received \in Nat
  <2>1. received <= proceeds /\ received \in Nat /\ proceeds \in Nat /\ proceeds' \in Nat
    BY DEF SettlementInv, SettlementSound, ProceedsBookedOnce, IInv, TypeOK
  <2> QED BY <2>1
<1>2. \A id \in AuctionIds : recovered["hook"][id] \in Nat
  BY DEF SettlementInv
<1>3. ASSUME NEW id \in AuctionIds
      PROVE  /\ recovered["hook"][id] \in {0, auctions'[id].highest_bid}
             /\ recovered["hook"][id] > 0 => id \in settled' /\ auctions'[id].status = "Closed"
  <2>1. CASE recovered["hook"][id] = 0
    BY <2>1
  <2>2. CASE recovered["hook"][id] > 0
    BY <1>3, <2>2 DEF SettlementInv, SettlementSound, ProceedsBookedOnce, BookedIsFinal
  <2> QED
    BY <1>2, <1>3, <2>1, <2>2
<1>4. received' = Paid(SumFunction(recovered["hook"]))'
  BY DEF SettlementInv, SettlementSound, ProceedsBookedOnce, Paid
<1> QED
  BY <1>1, <1>3, <1>4 DEF SettlementInv, SettlementSound, ProceedsBookedOnce, BookedIsFinal

\* A settlement through the hook books the winning bid, for the first time.
LEMMA HookKeepsSettlementInv ==
  ASSUME IInv, SettlementInv, IInv', NEW b \in Debtors, NEW id \in AuctionIds,
         NEW amount \in Recoveries, NEW cf \in CloseFactors, SettleThroughHook(b, id, amount, cf)
  PROVE  SettlementInv'
<1> DEFINE f == recovered["hook"]
           g == recovered'["hook"]
           bid == auctions[id].highest_bid
<1>1. /\ recovered \in [{"hook", "hand"} -> [AuctionIds -> Nat]] /\ f \in [AuctionIds -> Nat]
      /\ received \in Nat /\ proceeds \in Nat /\ received <= proceeds
      /\ received = Paid(SumFunction(f)) /\ IsFiniteSet(AuctionIds)
      /\ \A x \in AuctionIds : f[x] \in {0, auctions[x].highest_bid}
      /\ \A x \in AuctionIds : f[x] > 0 => x \in settled /\ auctions[x].status = "Closed"
      /\ bid \in Nat
  BY AuctionAssumption DEF SettlementInv, SettlementSound, ProceedsBookedOnce, BookedIsFinal, IInv, TypeOK, State
<1>2. /\ amount = bid /\ amount \in Nat /\ id \notin settled /\ auctions[id].status = "Closed"
      /\ settled' = settled \cup {id} /\ proceeds' = proceeds + Paid(bid) /\ auctions' = auctions
      /\ received' = received + Paid(bid) /\ bid_token' = bid_token
      /\ recovered' = [recovered EXCEPT !["hook"][id] = @ + amount]
  BY <1>1 DEF SettleThroughHook, SettleDefaultLiquidation
<1>3. f[id] = 0
  BY <1>1, <1>2
<1>4. /\ recovered' \in [{"hook", "hand"} -> [AuctionIds -> Nat]]
      /\ g = [f EXCEPT ![id] = f[id] + amount]
  BY <1>1, <1>2
<1>5. g \in [AuctionIds -> Nat] /\ g[id] = bid /\ \A x \in AuctionIds : x # id => g[x] = f[x]
  <2> HIDE DEF f, g, bid
  <2> QED BY <1>1, <1>2, <1>3, <1>4
<1>6. received' = Paid(SumFunction(g)) /\ received' <= proceeds' /\ received' \in Nat
  <2>1. received' = received + Paid(bid) /\ proceeds' = proceeds + Paid(bid) /\ Paid(bid) \in Nat
    BY <1>1, <1>2, PaidNat
  <2> HIDE DEF f, g, bid
  <2>2. f \in [AuctionIds -> Int] /\ g \in [AuctionIds -> Int]
    BY <1>1, <1>5
  <2>3. SumFunction(g) = SumFunction(f) + g[id] - f[id] /\ SumFunction(f) \in Int
    BY <1>1, <1>5, <2>2, SumFunctionUpdate, SumFunctionInt
  <2>4. SumFunction(g) = SumFunction(f) + bid
    <3> DEFINE u == SumFunction(f)
               x == f[id]
               y == g[id]
    <3>1. x = 0 /\ y = bid /\ bid \in Nat /\ u \in Int /\ SumFunction(g) = u + y - x
      BY <1>1, <1>3, <1>5, <2>3
    <3> HIDE DEF u, x, y
    <3>2. SumFunction(g) = u + bid
      BY <3>1
    <3> QED BY <3>2 DEF u
  <2>5. CASE bid_token
    <3>1. received = SumFunction(f) /\ Paid(bid) = bid /\ Paid(SumFunction(g)) = SumFunction(g)
      BY <1>1, <2>5 DEF Paid
    <3> QED
      BY <1>1, <2>1, <2>4, <3>1
  <2>6. CASE ~bid_token
    <3>1. received = 0 /\ Paid(bid) = 0 /\ Paid(SumFunction(g)) = 0
      BY <1>1, <2>6 DEF Paid
    <3> QED
      BY <1>1, <2>1, <3>1
  <2> QED
    BY <2>5, <2>6
<1>7. \A x \in AuctionIds : /\ g[x] \in {0, auctions'[x].highest_bid}
                            /\ g[x] > 0 => x \in settled' /\ auctions'[x].status = "Closed"
  <2> HIDE DEF f, g
  <2> QED BY <1>1, <1>2, <1>5
<1>8. received' = Paid(SumFunction(recovered["hook"]))'
  BY <1>2, <1>6 DEF Paid
<1> QED
  BY <1>4, <1>6, <1>7, <1>8 DEF SettlementInv, SettlementSound, ProceedsBookedOnce, BookedIsFinal

\* Every step of the two contracts keeps the invariant, if no identifier is used twice.
LEMMA NextSettlementInv ==
  ASSUME ReusedIds = {}, IInv, SettlementInv, IInv', [LiquidationNext]_<<vars, creditVars>>
  PROVE  SettlementInv'
<1>1. /\ auctions \in [AuctionIds -> State] /\ proceeds \in Nat /\ Recoveries \subseteq Int
      /\ recovered \in [{"hook", "hand"} -> [AuctionIds -> Nat]]
      /\ \A id \in AuctionIds : auctions[id].highest_bid \in Nat
  BY LiquidationAssumption DEF IInv, TypeOK, SettlementInv, State
<1>2. ASSUME NEW id \in AuctionIds, FactoryStep(id) \/ PublicStep(id)
      PROVE  SettlementInv'
  <2>1. UNCHANGED <<recovered, received>> /\ UNCHANGED bid_token
    <3>1. UNCHANGED <<recovered, received>>
      BY <1>2 DEF FactoryStep, PublicStep, creditVars
    <3>2. UNCHANGED bid_token
      BY <1>2 DEF FactoryStep, PublicStep, InitAuction, CloseAuction, SettleDefaultLiquidation,
           SetFactoryContract, BidEnglish, BidDutch, ClaimAuction, tokens
    <3> QED BY <3>1, <3>2
  <2>2. proceeds' >= proceeds
    <3>1. CASE SettleDefaultLiquidation(id)
      <4>1. Paid(auctions[id].highest_bid) \in Nat
        BY <1>1, PaidNat
      <4> QED
        BY <1>1, <3>1, <4>1 DEF SettleDefaultLiquidation
    <3>2. CASE ~SettleDefaultLiquidation(id)
      <4>1. UNCHANGED proceeds
        BY <1>2, <3>2 DEF FactoryStep, PublicStep, InitAuction, CloseAuction,
             SetFactoryContract, BidEnglish, BidDutch, ClaimAuction, tokens
      <4> QED BY <1>1, <4>1
    <3> QED BY <3>1, <3>2
  <2>3. \A x \in AuctionIds : x \in settled /\ auctions[x].status = "Closed" =>
           /\ x \in settled' /\ auctions'[x].status = "Closed"
           /\ auctions'[x].highest_bid = auctions[x].highest_bid
    <3>1. CASE \E c \in Configs : InitAuction(id, c)
      BY <1>1, <3>1 DEF InitAuction
    <3>2. CASE \E caller \in {"factory", "anyone"} : CloseAuction(id, caller)
      BY <1>1, <3>2 DEF CloseAuction
    <3>3. CASE SettleDefaultLiquidation(id) \/ \E f \in Factories : SetFactoryContract(f)
      BY <3>3 DEF SettleDefaultLiquidation, SetFactoryContract
    <3>4. CASE \E p \in Bidders, amount \in Bids : BidEnglish(id, p, amount) \/ BidDutch(id, p, amount)
      BY <1>1, <3>4 DEF BidEnglish, BidDutch, CanBid
    <3>5. CASE ClaimAuction(id)
      BY <1>1, <3>5 DEF ClaimAuction
    <3> QED
      BY <1>2, <3>1, <3>2, <3>3, <3>4, <3>5 DEF FactoryStep, PublicStep
  <2> QED
    BY <1>1, <2>1, <2>2, <2>3, UnbookedKeepsSettlementInv
<1>3. CASE \/ UNCHANGED <<vars, creditVars>>
           \/ Tick /\ UNCHANGED creditVars
           \/ \E b \in Debtors : DefaultLine(b) \/ \E amount \in Recoveries : RepayLine(b, amount)
           \/ \E v \in Versions \cup {NoAnswer} : SetAuctionContract(v)
           \/ \E cf \in CloseFactors : SetCloseFactor(cf)
  <2>1. UNCHANGED <<recovered, received, auctions, settled, bid_token, proceeds>>
    BY <1>3 DEF DefaultLine, RepayLine, SetAuctionContract, SetCloseFactor, Tick, vars, creditVars, tokens
  <2> QED
    BY <1>1, <2>1, UnbookedKeepsSettlementInv
<1>4. ASSUME NEW b \in Debtors, NEW id \in AuctionIds, NEW amount \in Recoveries,
             NEW cf \in CloseFactors, SettleByHand(b, id, amount, cf)
      PROVE  SettlementInv'
  <2>1. /\ UNCHANGED <<received, auctions, settled, bid_token, proceeds>> /\ amount \in Nat
        /\ recovered' = [recovered EXCEPT !["hand"][id] = @ + amount]
    BY <1>1, <1>4 DEF SettleByHand, BookRecovery, vars
  <2>2. /\ recovered' \in [{"hook", "hand"} -> [AuctionIds -> Nat]]
        /\ recovered'["hook"] = recovered["hook"]
    BY <1>1, <2>1
  <2> QED
    BY <1>1, <2>1, <2>2, UnbookedKeepsSettlementInv
<1> QED
  BY <1>2, <1>3, <1>4, HookKeepsSettlementInv DEF LiquidationNext

\* A settlement through the hook books the auction's winning bid as a recovery once, and the
\* auction then pays no one else, as long as the factory uses no identifier twice.  With a bid
\* token what is booked is what the credit contract received, to the token; without one it has
\* received nothing, whatever is booked.
THEOREM SettlementExact == ASSUME ReusedIds = {} PROVE LiquidationSpec => []SettlementSound
<1>1. Init /\ LiquidationInit => SettlementInv
  <2> SUFFICES ASSUME Init, LiquidationInit PROVE SettlementInv
    OBVIOUS
  <2>1. /\ recovered = [how \in {"hook", "hand"} |-> [id \in AuctionIds |-> 0]]
        /\ received = 0 /\ proceeds = 0
    BY DEF Init, LiquidationInit
  <2>2. SumFunction(recovered["hook"]) = 0
    <3>1. /\ DOMAIN recovered["hook"] = AuctionIds /\ IsFiniteSet(AuctionIds)
          /\ \A x \in AuctionIds : recovered["hook"][x] = 0
      BY <2>1, AuctionAssumption
    <3> QED BY <3>1, SumFunctionZero
  <2> QED
    BY <2>1, <2>2 DEF SettlementInv, SettlementSound, ProceedsBookedOnce, BookedIsFinal, Paid
<1>2. IInv /\ IInv' /\ SettlementInv /\ [LiquidationNext]_<<vars, creditVars>> => SettlementInv'
  BY NextSettlementInv
<1>3. SettlementInv => SettlementSound
  BY DEF SettlementInv
<1> QED
  BY <1>1, <1>2, <1>3, Invariance, ImplementsAuction, PTL DEF LiquidationSpec
=============================================================================
