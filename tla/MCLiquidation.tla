--------------------------- MODULE MCLiquidation ----------------------------
(***************************************************************************)
(* Model checking of the auction contract, alone with every price curve    *)
(* ("auctions") or together with the credit contract ("liquidation").      *)
(***************************************************************************)
EXTENDS Liquidation

CONSTANTS p1, a1, a2, d1, d2, v1, v2
VARIABLE part

English ==
  [NoConfig EXCEPT !.start_time = 1, !.end_time = 3, !.min_bid = 1, !.min_increment_bps = 1]

Short == [English EXCEPT !.start_time = 0, !.end_time = 1]

Dutch(curve, steps, end, start, floor) ==
  [NoConfig EXCEPT !.mode = "Dutch", !.start_time = 0, !.end_time = end, !.min_bid = 1,
                   !.start_price = start, !.floor_price = floor, !.decay = curve, !.step_count = steps]

\* One English auction and Dutch auctions for each decay curve, with whole and other slopes.
AllModes == {English, Short, Dutch("Linear", 0, 3, 4, 1), Dutch("Stepped", 2, 3, 4, 1),
             Dutch("Stepped", 2, 4, 5, 1), Dutch("Exponential", 0, 3, 4, 0)}

None == {}

\* Alone and without a bid token, which leaves nothing for two auctions to share, there is one.
\* With the credit contract there are English auctions only, over after one second and won by
\* one of the bidders for 3 and 2; d2 repays nothing while no recovery is booked; the close
\* factor is lowered with a working hook and a bid token only; without a bid token one line is
\* put in default; a contract of another version comes first.
Bound ==
  IF part = "auctions"
  THEN /\ \A id \in AuctionIds : auctions[id].config # Short
       /\ ~bid_token => auctions[a2] = NoAuction
  ELSE /\ now <= 1 /\ grace_window = 0
       /\ \A id \in AuctionIds : auctions[id].status # "None" => auctions[id].config = Short
       /\ accepted \subseteq {<<a1, p1, 3>>, <<a2, p1, 2>>}
       /\ marks = {} => debt[d2] = InitialDebt
       /\ max_close_factor # BPS => hook = v1 /\ bid_token
       /\ ~bid_token => in_default \subseteq {d1}
       /\ hook = v2 => marks = {} /\ accepted = {}

MCInit ==
  /\ part \in {"auctions", "liquidation"}
  /\ Init /\ LiquidationInit

MCNext ==
  /\ \/ part = "auctions" /\ Next /\ UNCHANGED creditVars
     \/ part = "liquidation" /\ LiquidationNext
  /\ UNCHANGED part
  /\ Bound'

allVars == <<vars, creditVars, part>>

MCSpec == MCInit /\ [][MCNext]_allVars /\ Fairness
=============================================================================
