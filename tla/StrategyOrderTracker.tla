------------------------ MODULE StrategyOrderTracker ------------------------
(***************************************************************************)
(* The order tracker of a strategy (strategy/order_tracker.pyx) and the    *)
(* handlers of the strategy base class that feed it.                       *)
(*                                                                         *)
(* A tracker is a record: limit and market hold the pairs of a market and  *)
(* an order tracked for it, known those of _order_id_to_market_pair.  Left *)
(* out are the shadow records, which outlive their order, and the cancels  *)
(* in flight.                                                              *)
(***************************************************************************)
EXTENDS Naturals

NoOrders == [limit |-> {}, market |-> {}, known |-> {}]

(* The orders a strategy may still trade: market_pair_to_active_orders.    *)
ActiveOrders(t, market) == {e \in t.limit : e[1] = market}

(* buy_with_specific_market and sell_with_specific_market, after the       *)
(* connector has answered with an order id.                                *)
Track(t, type, market, id) ==
  LET entry == {<<market, id>>}
  IN  IF type = "limit"
      THEN [t EXCEPT !.limit = @ \union entry, !.known = @ \union entry]
      ELSE [t EXCEPT !.market = @ \union entry, !.known = @ \union entry]

(* Every stop forgets the market of the order, whatever it is tracked as.  *)
Entries(t, id) == {e \in t.known : e[2] = id}
StopLimit(t, id) ==
  [t EXCEPT !.limit = @ \ Entries(t, id), !.known = @ \ Entries(t, id)]
StopMarket(t, id) ==
  [t EXCEPT !.market = @ \ Entries(t, id), !.known = @ \ Entries(t, id)]

(* A failure or a completion carries the type of the order.  A cancellation *)
(* and an expiry do not, and stop the tracking of a limit order: one at     *)
(* market stays among the market orders.                                    *)
StopByType(t, type, id) ==
  IF type = "limit" THEN StopLimit(t, id) ELSE StopMarket(t, id)
=============================================================================
