------------------------------- MODULE AmmArb -------------------------------
(***************************************************************************)
(* The AMM arbitrage strategy (strategy/amm_arb): a tick starts the main   *)
(* task, which looks for arbitrages between two markets and executes each  *)
(* as two orders, one leg on each market, at once or one after the other;  *)
(* events of the connectors tell it how an order ended.                    *)
(*                                                                         *)
(* The task runs on the event loop and gives it up only where it awaits,   *)
(* so nothing else happens while it is at a point where it does not: that  *)
(* is LoopFree.  completed_event and failed_event are defaults of a        *)
(* dataclass: one event each, shared by every side of every arbitrage and  *)
(* every strategy of the process, and never cleared.  They are modelled as *)
(* what they are, two flags that outlive a stop.                           *)
(*                                                                         *)
(* Prices, amounts and profits are left out: what the task finds is the    *)
(* number of arbitrages that are profitable and affordable.  A tick before *)
(* the markets are ready changes nothing.  The task that asks a gateway to *)
(* cancel outdated orders shows only in orders that end cancelled.  An     *)
(* order's run, leg and fresh are not in the code.                         *)
(***************************************************************************)
EXTENDS Naturals, Sequences, FiniteSets, StrategyOrderTracker

CONSTANTS
  Gateways,   \* Those of the markets 1 and 2 that are gateway connectors.
  TakerType,  \* get_taker_order_type of each: "limit" or "market".
  MaxRuns,    \* Bound: main tasks started.
  MaxStarts   \* Bound: strategies started in the process.

Markets == 1..2

ASSUME AmmArbAssumption ==
  /\ Gateways \subseteq Markets
  /\ TakerType \in [Markets -> {"limit", "market"}]
  /\ MaxRuns \in Nat
  /\ MaxStarts \in Nat

VARIABLES
  starts,      \* Strategies started.
  running,     \* Whether one is running.
  concurrent,  \* concurrent_orders_submission, as the user configured it.
  completed,   \* The completed_event of every side.
  failed,      \* The failed_event of every side.
  runs,        \* Main tasks started.
  task,        \* _main_task: where it is, the arbitrages left, and the leg.
  orders,      \* The orders of this strategy: _order_id_side_map.
  tracker      \* _sb_order_tracker.

strategy == <<starts, running, concurrent>>
vars == <<strategy, completed, failed, runs, task, orders, tracker>>

-----------------------------------------------------------------------------
(* The main task. *)

NoTask == [pc |-> "none", left |-> 0, leg |-> 1]
Awaiting == {"quoting", "pricing", "leg", "both"}
Over == {"none", "returned", "raised"}

TaskOver == task.pc \in Over
LoopFree == running /\ task.pc \in Awaiting \union Over

(* A regression: nobody looks at the orders outstanding. *)
AlwaysReady == TRUE

(* ready_for_new_arb_trades. *)
ready_for_new_arb_trades == \A m \in Markets : ActiveOrders(tracker, m) = {}

(* prioritize_evm_exchanges puts each gateway it meets in front. *)
prioritized == IF 2 \in Gateways THEN <<2, 1>> ELSE <<1, 2>>
LegMarket == (IF concurrent THEN <<1, 2>> ELSE prioritized)[task.leg]

(* A regression: the first order is not waited for. *)
AfterPlacingNoWait ==
  IF task.leg = 1 THEN [task EXCEPT !.pc = "place", !.leg = 2]
                  ELSE [task EXCEPT !.pc = "both"]

(* What the task does when a leg is placed: an event that is already set is *)
(* not waited for, and the loop is not given up.                            *)
AfterPlacing ==
  IF concurrent
  THEN IF task.leg = 1 THEN [task EXCEPT !.pc = "place", !.leg = 2]
                       ELSE [task EXCEPT !.pc = "both"]
  ELSE [task EXCEPT !.pc = IF completed THEN "check" ELSE "leg"]

(* A regression: any end counts as a failure. *)
AfterLegTestingCompleted ==
  IF completed THEN [task EXCEPT !.pc = "returned"]
  ELSE [task EXCEPT !.pc = "both"]

(* What it does when the wait for a leg is over. *)
AfterLeg ==
  IF failed THEN [task EXCEPT !.pc = "returned"]
  ELSE IF task.leg = 1 THEN [task EXCEPT !.pc = "place", !.leg = 2]
  ELSE [task EXCEPT !.pc = "both"]

-----------------------------------------------------------------------------
(* Orders. *)

(* The end of an order for the two legs: a cancelled and an expired order   *)
(* count as completed.                                                      *)
States == {"open", "completed", "failed"}

SameArbitrage(a, b) == a.run = b.run /\ a.left = b.left
IsOpen(o) == o.state = "open"
Ended(o, how) == [orders EXCEPT ![o].state = how]

TypeOK ==
  /\ starts \in 0..MaxStarts
  /\ running \in BOOLEAN
  /\ concurrent \in BOOLEAN
  /\ completed \in BOOLEAN
  /\ failed \in BOOLEAN
  /\ failed => completed
  /\ runs \in 0..MaxRuns
  /\ task \in [pc : Awaiting \union Over \union {"place", "check"}, left : 0..2, leg : 1..2]
  /\ orders \in Seq([market : Markets, run : 1..MaxRuns, left : 1..2, leg : 1..2,
                     fresh : BOOLEAN, state : States])
  /\ tracker \in [limit : SUBSET (Markets \X DOMAIN orders),
                 market : SUBSET (Markets \X DOMAIN orders),
                 known : SUBSET (Markets \X DOMAIN orders)]
  /\ tracker.limit \subseteq tracker.known

Init ==
  /\ starts = 0
  /\ running = FALSE
  /\ concurrent = FALSE
  /\ completed = FALSE
  /\ failed = FALSE
  /\ runs = 0
  /\ task = NoTask
  /\ orders = <<>>
  /\ tracker = NoOrders

(* start of the strategy: a new object, with the configuration of the user. *)
start ==
  /\ ~running
  /\ starts < MaxStarts
  /\ starts' = starts + 1
  /\ running' = TRUE
  /\ concurrent' \in BOOLEAN
  /\ task' = NoTask
  /\ orders' = <<>>
  /\ tracker' = NoOrders
  /\ UNCHANGED <<completed, failed, runs>>

(* stop cancels the task wherever it awaits and removes the listeners, so   *)
(* how an order of this strategy ends is never heard.                       *)
stop ==
  /\ LoopFree
  /\ running' = FALSE
  /\ task' = NoTask
  /\ orders' = <<>>
  /\ tracker' = NoOrders
  /\ UNCHANGED <<starts, concurrent, completed, failed, runs>>

tick ==
  /\ LoopFree
  /\ ready_for_new_arb_trades
  /\ TaskOver
  /\ runs < MaxRuns
  /\ runs' = runs + 1
  /\ task' = [NoTask EXCEPT !.pc = "quoting"]
  /\ UNCHANGED <<strategy, completed, failed, orders, tracker>>

(* main has awaited the prices: n arbitrages are profitable and affordable. *)
Quoted ==
  /\ task.pc = "quoting"
  /\ \E n \in 0..2 :
       task' = [task EXCEPT !.pc = IF n = 0 THEN "returned" ELSE "place", !.left = n]
  /\ UNCHANGED <<strategy, completed, failed, runs, orders, tracker>>

(* A market raises, or has no price under a price shim, while it is awaited. *)
MainRaises ==
  /\ task.pc \in {"quoting", "pricing"}
  /\ task' = [task EXCEPT !.pc = "raised"]
  /\ UNCHANGED <<strategy, completed, failed, runs, orders, tracker>>

(* place_arb_order awaits the true price of a gateway under a price shim... *)
AskPrice ==
  /\ task.pc = "place"
  /\ LegMarket \in Gateways
  /\ task' = [task EXCEPT !.pc = "pricing"]
  /\ UNCHANGED <<strategy, completed, failed, runs, orders, tracker>>

(* ... and places the order, which is mapped to its side at once.          *)
PlaceLeg ==
  /\ task.pc \in {"place", "pricing"}
  /\ orders' = Append(orders, [market |-> LegMarket, run |-> runs, left |-> task.left,
                               leg |-> task.leg, fresh |-> ~completed, state |-> "open"])
  /\ tracker' = Track(tracker, TakerType[LegMarket], LegMarket, Len(orders) + 1)
  /\ task' = AfterPlacing
  /\ UNCHANGED <<strategy, completed, failed, runs>>

(* Submission in sequence: completed_event.wait of the leg, then is_failed. *)
LegWaited ==
  /\ task.pc = "check" \/ (task.pc = "leg" /\ completed)
  /\ task' = AfterLeg
  /\ UNCHANGED <<strategy, completed, failed, runs, orders, tracker>>

(* arb_proposal.wait of both legs, and the next arbitrage if there is one. *)
BothWaited ==
  /\ task.pc = "both"
  /\ completed
  /\ task' = IF task.left > 1
             THEN [task EXCEPT !.pc = "place", !.left = @ - 1, !.leg = 1]
             ELSE [task EXCEPT !.pc = "returned"]
  /\ UNCHANGED <<strategy, completed, failed, runs, orders, tracker>>

(* did_complete_buy_order and did_complete_sell_order, then the tracker.   *)
did_complete_order(o) ==
  /\ LoopFree
  /\ IsOpen(orders[o])
  /\ completed' = TRUE
  /\ orders' = Ended(o, "completed")
  /\ tracker' = StopByType(tracker, TakerType[orders[o].market], o)
  /\ UNCHANGED <<strategy, failed, runs, task>>

did_fail_order(o) ==
  /\ LoopFree
  /\ IsOpen(orders[o])
  /\ completed' = TRUE
  /\ failed' = TRUE
  /\ orders' = Ended(o, "failed")
  /\ tracker' = StopByType(tracker, TakerType[orders[o].market], o)
  /\ UNCHANGED <<strategy, runs, task>>

(* A regression: a cancelled order releases nobody. *)
CancelCompletesNothing(o) ==
  /\ LoopFree
  /\ IsOpen(orders[o])
  /\ orders' = Ended(o, "completed")
  /\ tracker' = StopLimit(tracker, o)
  /\ UNCHANGED <<strategy, completed, failed, runs, task>>

(* did_cancel_order and did_expire_order. *)
did_cancel_or_expire_order(o) ==
  /\ LoopFree
  /\ IsOpen(orders[o])
  /\ completed' = TRUE
  /\ orders' = Ended(o, "completed")
  /\ tracker' = StopLimit(tracker, o)
  /\ UNCHANGED <<strategy, failed, runs, task>>

MainStep == Quoted \/ MainRaises \/ AskPrice \/ PlaceLeg \/ LegWaited \/ BothWaited
OrderEnds(o) == did_complete_order(o) \/ did_fail_order(o) \/ did_cancel_or_expire_order(o)

Next ==
  \/ start
  \/ stop
  \/ tick
  \/ MainStep
  \/ \E o \in DOMAIN orders : OrderEnds(o)

Spec == Init /\ [][Next]_vars

(* The event loop gets to the task, a market that is asked for a price     *)
(* answers or raises, and the exchanges end every order.                   *)
Fairness ==
  /\ WF_vars(MainStep)
  /\ WF_vars(\E o \in DOMAIN orders : OrderEnds(o))
FairSpec == Spec /\ Fairness

-----------------------------------------------------------------------------
(* Properties. *)

(* Submission in sequence, as far as the shared events keep it: when no    *)
(* order of the process had ended as the first leg was placed, the second  *)
(* is placed only after the first has ended, and not after it failed.  A   *)
(* cancelled or expired first leg lets the second pass.                    *)
FreshArbitrageInSequence ==
  ~concurrent =>
    \A i, j \in DOMAIN orders :
      /\ SameArbitrage(orders[i], orders[j])
      /\ orders[i].leg = 1
      /\ orders[i].fresh
      /\ orders[j].leg = 2
      => orders[i].state = "completed"

(* No main task begins before the limit orders of the one before have      *)
(* ended, however that one ended: what a strategy has open belongs to one  *)
(* run.  Orders at market are not looked at, and are not covered.          *)
OneRunOutstanding ==
  \A i, j \in DOMAIN orders :
    /\ IsOpen(orders[i]) /\ TakerType[orders[i].market] = "limit"
    /\ IsOpen(orders[j]) /\ TakerType[orders[j].market] = "limit"
    => orders[i].run = orders[j].run

(* A main task that returns has placed both legs of every arbitrage it     *)
(* began, unless an order has failed: a position is left open by a         *)
(* failure, an exception or a stop only.                                   *)
LegDroppedOnFailureOnly ==
  [][ task.pc # "returned" /\ task'.pc = "returned" /\ ~failed
      => \A i \in DOMAIN orders :
           orders[i].run = runs =>
             \E j \in DOMAIN orders :
               /\ SameArbitrage(orders[i], orders[j])
               /\ orders[i].leg # orders[j].leg ]_vars

(* A strategy that trades is able to trade again, or stopped: no wait of   *)
(* the main task and no order in the tracker stays forever.                *)
TradesAgain ==
  running ~> (~running \/ (TaskOver /\ ready_for_new_arb_trades))
=============================================================================
