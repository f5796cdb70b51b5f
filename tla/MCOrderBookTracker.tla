-------------------------- MODULE MCOrderBookTracker -------------------------
(* Small instances of the order book tracker.                              *)
EXTENDS OrderBookTracker

Bid(p) == [side |-> "bid", price |-> p]
Ask(p) == [side |-> "ask", price |-> p]

(* The market falls, rises and empties on one side.                        *)
TwoPrices == {1, 2}
Calm == {Bid(1), Ask(2)}
ThreeBooks == {Calm, {Ask(1), Ask(2)}, {Bid(2)}}
=============================================================================
