--------------------------- MODULE BinanceExchange ---------------------------
(***************************************************************************)
(* The Binance connector (connector/exchange_py_base.py and                *)
(* connector/exchange/binance/binance_exchange.py) between its order       *)
(* tracker, the exchange and the network.                                  *)
(*                                                                         *)
(* Four kinds of tasks race: the coroutine that places an order, the one   *)
(* that cancels it, the listener of the user stream and the polling loop.  *)
(* Each action below is what one of them does between two awaits.  A       *)
(* request and its answer are separate from what the exchange does, so     *)
(* that answers overtake stream messages and the other way round.  The     *)
(* exchange is external: it matches honestly, but it may close an order on *)
(* its own, and the network loses stream messages and answers.             *)
(*                                                                         *)
(* The loops of a poll over orders are one step per order: their           *)
(* iterations touch different orders and do not suspend.                   *)
(***************************************************************************)
EXTENDS ClientOrderTracker

CONSTANTS
  Failing,    \* What fails: "stream" (its connection), "request" (its answer is lost),
              \* "balances" (the other part of a poll raises).
  MaxRounds,  \* Bound: rounds of the polling loop under way at once.
  MaxFaults   \* Bound: the number of these faults.

ASSUME FaultsAssumption == MaxFaults \in Nat

VARIABLES
  market,      \* The status of each order at the exchange.
  trades,      \* The trades of each order at the exchange.
  request,     \* Orders whose placement travels to the exchange.
  stream,      \* The user stream, oldest message first.
  creating,    \* Orders whose _create_order awaits _place_order.
  cancelling,  \* Where the cancel requests of each order are.
  poll,        \* Where each round of the polling loop is with each order.
  recent,      \* Trades since _last_trades_poll_binance_timestamp.
  direct,      \* OrderFilled triggered by the poll past the tracker.
  faults       \* Faults so far.

exchange == <<market, trades, request>>
connector == <<creating, cancelling, poll, recent, direct>>
network == <<stream, faults>>
connectorVars == <<vars, exchange, connector, network>>

Rounds == 1..MaxRounds
Status == {"NEW", "PARTIALLY_FILLED", "FILLED", "CANCELED", "EXPIRED"}

(* A regression: a partially filled order is taken for a filled one. *)
StateOfConfused == [NEW |-> "OPEN", PARTIALLY_FILLED |-> "FILLED", FILLED |-> "FILLED",
                    CANCELED |-> "CANCELED", EXPIRED |-> "FAILED"]

(* CONSTANTS.ORDER_STATE of binance_constants.py. *)
StateOf == [NEW |-> "OPEN", PARTIALLY_FILLED |-> "PARTIALLY_FILLED", FILLED |-> "FILLED",
            CANCELED |-> "CANCELED", EXPIRED |-> "FAILED"]

(* The status the exchange shows for an order. *)
ShownStatus(o) == IF market[o] = "NEW" /\ trades[o] # {} THEN "PARTIALLY_FILLED" ELSE market[o]

Idle == [phase |-> "idle", asked |-> {}, mapped |-> FALSE, status |-> "none"]

Fault(part) == /\ part \in Failing
               /\ faults < MaxFaults
               /\ faults' = faults + 1

-----------------------------------------------------------------------------
(* The exchange and the network. *)

(* An execution report; t is the set of its trade (empty but for TRADE). *)
Report(o, t, status) == [order |-> o, trade |-> t, status |-> status]

ExchangeAccepts(o) ==
  /\ o \in request
  /\ request' = request \ {o}
  /\ market' = [market EXCEPT ![o] = "NEW"]
  /\ stream' = Append(stream, Report(o, {}, "NEW"))
  /\ UNCHANGED <<vars, trades, connector, faults>>

ExchangeRejects(o) ==
  /\ o \in request
  /\ request' = request \ {o}
  /\ UNCHANGED <<vars, market, trades, connector, network>>

ExchangeFills(o, t) ==
  LET executed == FillAmount[trades[o] \cup {t}]
  IN  /\ market[o] = "NEW"
      /\ t \notin trades[o]
      /\ executed <= order[o].amount
      /\ trades' = [trades EXCEPT ![o] = @ \cup {t}]
      /\ market' = [market EXCEPT ![o] = IF executed = order[o].amount THEN "FILLED" ELSE "NEW"]
      /\ recent' = [recent EXCEPT ![o] = @ \cup {t}]
      /\ stream' = Append(stream, Report(o, {t},
                     IF executed = order[o].amount THEN "FILLED" ELSE "PARTIALLY_FILLED"))
      /\ UNCHANGED <<vars, request, creating, cancelling, poll, direct, faults>>

(* The exchange closes an order: on a cancel request, or on its own, as for *)
(* a cancel request that came after its answer was given up.                *)
Closes(o, status) ==
  /\ market[o] = "NEW"
  /\ market' = [market EXCEPT ![o] = status]
  /\ stream' = Append(stream, Report(o, {}, status))
  /\ UNCHANGED <<vars, trades, request, creating, poll, recent, direct, faults>>

(* Others of the order's requests may travel still. *)
ExchangeCancels(o) ==
  /\ "requested" \in cancelling[o]
  /\ Closes(o, "CANCELED")
  /\ \E others \in SUBSET {"requested"} :
       cancelling' = [cancelling EXCEPT ![o] = others \cup {"cancelled"}]

ExchangeCloses(o, status) == Closes(o, status) /\ UNCHANGED cancelling

(* The connection drops, and with it what the exchange had sent. *)
StreamLoses ==
  /\ stream # <<>>
  /\ Fault("stream")
  /\ stream' = <<>>
  /\ UNCHANGED <<vars, exchange, connector>>

-----------------------------------------------------------------------------
(* _create_order. *)

FailsAtOnce(o) == ScheduleUpdate(ClientUpdate(o, "FAILED", FALSE))

(* Up to the await of _place_order.  quantize_order_amount has made an      *)
(* amount below the minimum size or the minimum notional zero, and zero is  *)
(* below the exchange's minimum size.                                       *)
CreateOrder(o, amount) ==
  /\ amount > 0
  /\ StartTrackingOrder(o, amount)
  /\ creating' = creating \cup {o}
  /\ request' = request \cup {o}
  /\ UNCHANGED <<cached, notFound, ready, waiting, history, saved, restarts>>
  /\ UNCHANGED <<market, trades, cancelling, poll, recent, direct, network>>

(* An order of an unsupported type or below the minimum size is tracked,    *)
(* failed, and not placed.                                                  *)
RefuseOrder(o, amount) ==
  /\ StartTrackingOrder(o, amount)
  /\ FailsAtOnce(o)
  /\ UNCHANGED <<cached, notFound, waiting, history, saved, restarts>>
  /\ UNCHANGED <<exchange, creating, cancelling, poll, recent, direct, network>>

(* A regression: the answer is written to the order past the tracker. *)
OrderPlacedPastTracker(o) ==
  /\ o \in creating
  /\ market[o] # "ABSENT"
  /\ creating' = creating \ {o}
  /\ order' = [order EXCEPT ![o] = UpdateWithOrderUpdate(@, "OPEN", TRUE)]
  /\ UNCHANGED <<started, active, cached, notFound, ready, waiting, history, saved, restarts>>
  /\ UNCHANGED <<exchange, cancelling, poll, recent, direct, network>>

(* The exchange's answer arrives with the exchange order id. *)
OrderPlaced(o) ==
  /\ o \in creating
  /\ market[o] # "ABSENT"
  /\ creating' = creating \ {o}
  /\ ScheduleUpdate(ClientUpdate(o, "OPEN", TRUE))
  /\ UNCHANGED <<order, started, active, cached, notFound, waiting, history, saved, restarts>>
  /\ UNCHANGED <<exchange, cancelling, poll, recent, direct, network>>

(* _place_order raises: the exchange refused, or the answer is lost. *)
OrderPlacementFails(o) ==
  /\ o \in creating
  /\ \/ o \notin request /\ market[o] = "ABSENT" /\ UNCHANGED faults
     \/ Fault("request")
  /\ creating' = creating \ {o}
  /\ FailsAtOnce(o)
  /\ UNCHANGED <<order, started, active, cached, notFound, waiting, history, saved, restarts>>
  /\ UNCHANGED <<exchange, cancelling, poll, recent, direct, stream>>

-----------------------------------------------------------------------------
(* _execute_cancel. *)

ExecuteCancel(o) ==
  /\ o \in active
  /\ cancelling' = [cancelling EXCEPT ![o] = @ \cup {"requested"}]
  /\ UNCHANGED <<vars, exchange, creating, poll, recent, direct, network>>

(* The exchange confirmed: Binance cancels synchronously, so the order is   *)
(* updated to CANCELED (and not to PENDING_CANCEL).                         *)
CancelReturns(o) ==
  /\ "cancelled" \in cancelling[o]
  /\ cancelling' = [cancelling EXCEPT ![o] = @ \ {"cancelled"}]
  /\ ScheduleUpdate(ClientUpdate(o, "CANCELED", FALSE))
  /\ UNCHANGED <<order, started, active, cached, notFound, waiting, history, saved, restarts>>
  /\ UNCHANGED <<exchange, creating, poll, recent, direct, network>>

(* A regression: a refused cancel is taken for a cancelled order. *)
CancelFailsAsCancelled(o) ==
  /\ "requested" \in cancelling[o]
  /\ market[o] # "NEW"
  /\ cancelling' = [cancelling EXCEPT ![o] = @ \ {"requested"}]
  /\ ScheduleUpdate(ClientUpdate(o, "CANCELED", FALSE))
  /\ UNCHANGED <<order, started, active, cached, notFound, waiting, history, saved, restarts>>
  /\ UNCHANGED <<exchange, creating, poll, recent, direct, network>>

(* The exchange refuses, or the request fails on its way there or back: the *)
(* error is logged, and when it arrives makes no difference.                *)
CancelFails(o) ==
  /\ \E c \in cancelling[o] :
       /\ \/ c = "requested" /\ market[o] # "NEW" /\ UNCHANGED faults
          \/ Fault("request")
       /\ cancelling' = [cancelling EXCEPT ![o] = @ \ {c}]
  /\ UNCHANGED <<vars, exchange, creating, poll, recent, direct, stream>>

(* A regression: an order that is not found is forgotten. *)
ForgetOrder(o) ==
  /\ active' = active \ {o}
  /\ UNCHANGED <<order, cached, notFound, events, saved>>

(* A not-found answer for an order the tracker may have dropped meanwhile. *)
OrderNotFound(o) ==
  \/ ProcessOrderNotFound(o)
  \/ o \notin active /\ UNCHANGED <<order, active, cached, notFound, events, saved>>

(* The request times out, and counts as a not-found answer. *)
CancelTimesOut(o) ==
  /\ Fault("request")
  /\ \E c \in cancelling[o] : cancelling' = [cancelling EXCEPT ![o] = @ \ {c}]
  /\ OrderNotFound(o)
  /\ UNCHANGED <<started, ready, waiting, fillEvents, restarts>>
  /\ UNCHANGED <<exchange, creating, poll, recent, direct, stream>>

-----------------------------------------------------------------------------
(* process_trade_update, when fills may have been reported past the tracker. *)
(* The recorder has a transaction for each fill, in which it saves the      *)
(* tracking states of that moment.  It cannot store a fill twice: the       *)
(* transaction fails, and with it nothing is saved.  So what is saved last  *)
(* holds the order as of its last new fill.                                 *)
RecordFills(o, T) ==
  LET stored == {t \in Trades : direct[o][t] > 0}
      new == (T \ order[o].fills) \ stored
  IN  \/ /\ AddFills(o, T)
         /\ \/ new = {} /\ UNCHANGED saved
            \/ /\ new # {}
               /\ \E done \in SUBSET T :
                    /\ new \subseteq done
                    /\ saved' = TrackingStates(
                         [order EXCEPT ![o] = UpdateWithTradeUpdates(order[o], done)])
      \/ AddsNoFill(o, T)

-----------------------------------------------------------------------------
(* _user_stream_event_listener. *)

(* One message: a trade is applied to an active or cached order, then the   *)
(* order update is scheduled if the order is active.                        *)
UserStreamEvent ==
  /\ stream # <<>>
  /\ stream' = Tail(stream)
  /\ LET m == Head(stream)
         o == m.order
     IN  /\ \/ m.trade # {} /\ RecordFills(o, m.trade)
            \/ m.trade = {} /\ UNCHANGED <<order, fillEvents, saved>>
         /\ \/ o \in active /\ ScheduleUpdate(ClientUpdate(o, StateOf[m.status], TRUE))
            \/ o \notin active /\ UNCHANGED ready
  /\ UNCHANGED <<started, active, cached, notFound, waiting, events, restarts>>
  /\ UNCHANGED <<exchange, connector, faults>>

-----------------------------------------------------------------------------
(* _status_polling_loop: first the trades, then the order status.  A round  *)
(* ends when the balances raise, but what it asked for goes on, beside the  *)
(* next round.                                                              *)

PollStep(o, r, phase, fields) ==
  poll' = [poll EXCEPT ![o][r] = [fields EXCEPT !.phase = phase]]

RoundStarts(o, r) ==
  /\ poll[o][r].phase = "idle"
  /\ \A q \in 1..(r - 1) : poll[o][q].phase # "idle"
  /\ \/ (\A q \in Rounds : poll[o][q].phase = "idle") /\ UNCHANGED faults
     \/ Fault("balances")

(* _update_order_fills_from_trades up to its await: the query asks for the  *)
(* trades since the last one, the window moves on, and the map from         *)
(* exchange ids to orders is taken now.                                     *)
PollTrades(o, r) ==
  /\ o \in started
  /\ RoundStarts(o, r)
  /\ PollStep(o, r, "trades", [Idle EXCEPT !.asked  = recent[o],
                                           !.mapped = o \in AllOrders /\ order[o].idKnown])
  /\ recent' = [recent EXCEPT ![o] = {}]
  /\ UNCHANGED <<vars, exchange, creating, cancelling, direct, stream>>

(* is_confirmed_new_order_filled_event: the recorder knows the order's      *)
(* exchange id and has no record of the trade.                              *)
IsConfirmedNew(o, t) == events[o]["Created"] > 0 /\ fillEvents[o][t] + direct[o][t] = 0

(* Trades of an order the map does not know are reported past the tracker.  *)
ReportDirectly(o, T) ==
  LET new == {t \in T : IsConfirmedNew(o, t)}
  IN  /\ direct' = [direct EXCEPT ![o] = [t \in Trades |-> IF t \in new THEN direct[o][t] + 1 ELSE direct[o][t]]]
      /\ saved' = IF new = {} THEN saved ELSE TrackingStates(order)

(* The answer: it may hold trades that happened after the question. *)
PollTradesReturn(o, r) ==
  /\ poll[o][r].phase = "trades"
  /\ \E later \in SUBSET recent[o] :
       LET T == poll[o][r].asked \cup later
       IN  \/ /\ poll[o][r].mapped
              /\ RecordFills(o, T)
              /\ UNCHANGED direct
           \/ /\ ~poll[o][r].mapped
              /\ ReportDirectly(o, T)
              /\ UNCHANGED <<order, fillEvents>>
  /\ PollStep(o, r, "status", Idle)
  /\ UNCHANGED <<started, active, cached, notFound, ready, waiting, events, restarts>>
  /\ UNCHANGED <<exchange, creating, cancelling, recent, network>>

(* The request fails; the window has moved on all the same. *)
PollTradesFails(o, r) ==
  /\ poll[o][r].phase = "trades"
  /\ Fault("request")
  /\ PollStep(o, r, "status", Idle)
  /\ UNCHANGED <<vars, exchange, creating, cancelling, recent, direct, stream>>

(* A regression: the status is kept as the client's own order state. *)
PollStatusConverted(o, r) ==
  /\ poll[o][r].phase = "status"
  /\ poll[o][r].status = "none"
  /\ \/ o \notin active /\ PollStep(o, r, "idle", Idle)
     \/ /\ o \in active
        /\ ShownStatus(o) # "ABSENT"
        /\ PollStep(o, r, "status", [Idle EXCEPT !.status = StateOf[ShownStatus(o)]])
  /\ UNCHANGED <<vars, exchange, creating, cancelling, recent, direct, network>>

(* _update_order_status up to its await, with the moment the exchange looks *)
(* at the order: what it sees may be old when the answer arrives.           *)
PollStatus(o, r) ==
  /\ poll[o][r].phase = "status"
  /\ poll[o][r].status = "none"
  /\ \/ o \notin active /\ PollStep(o, r, "idle", Idle) /\ UNCHANGED faults
     \/ o \in active /\ PollStep(o, r, "status", [Idle EXCEPT !.status = ShownStatus(o)]) /\ UNCHANGED faults
     \/ o \in active /\ PollStep(o, r, "status", [Idle EXCEPT !.status = "ABSENT"]) /\ Fault("request")
  /\ UNCHANGED <<vars, exchange, creating, cancelling, recent, direct, stream>>

(* A regression: only an order the exchange has just accepted is updated. *)
PollStatusIgnored(o, r) ==
  /\ poll[o][r].status \in Status
  /\ PollStep(o, r, "idle", Idle)
  /\ \/ /\ o \in active
        /\ poll[o][r].status = "NEW"
        /\ ScheduleUpdate(ClientUpdate(o, StateOf[poll[o][r].status], TRUE))
     \/ (o \notin active \/ poll[o][r].status # "NEW") /\ UNCHANGED ready
  /\ UNCHANGED <<order, started, active, cached, notFound, waiting, history, saved, restarts>>
  /\ UNCHANGED <<exchange, creating, cancelling, recent, direct, network>>

(* The status arrives and is applied if the order is still active. *)
PollStatusReturns(o, r) ==
  /\ poll[o][r].status \in Status
  /\ PollStep(o, r, "idle", Idle)
  /\ \/ o \in active /\ ScheduleUpdate(ClientUpdate(o, StateOf[poll[o][r].status], TRUE))
     \/ o \notin active /\ UNCHANGED ready
  /\ UNCHANGED <<order, started, active, cached, notFound, waiting, history, saved, restarts>>
  /\ UNCHANGED <<exchange, creating, cancelling, recent, direct, network>>

(* An error arrives instead: the exchange does not know the order (yet), or *)
(* the request failed.                                                      *)
PollStatusFails(o, r) ==
  /\ poll[o][r].status = "ABSENT"
  /\ PollStep(o, r, "idle", Idle)
  /\ OrderNotFound(o)
  /\ UNCHANGED <<started, ready, waiting, fillEvents, restarts>>
  /\ UNCHANGED <<exchange, creating, cancelling, recent, direct, network>>

-----------------------------------------------------------------------------
(* The whole connector. *)

(* A restart: the tasks are gone, and so are the stream messages of the     *)
(* time between; the first query for trades has no start time.              *)
ConnectorRestart ==
  /\ Restart
  /\ creating' = {}
  /\ cancelling' = [o \in Orders |-> {}]
  /\ poll' = [o \in Orders |-> [r \in Rounds |-> Idle]]
  /\ recent' = trades
  /\ stream' = <<>>
  /\ UNCHANGED <<exchange, direct, faults>>

(* The tasks of the tracker. *)
TrackerStep ==
  /\ \/ RunOrderUpdate
     \/ ParkOrderUpdate
     \/ \E u \in FilledUpdate : FillsArrived(u)
     \/ \E u \in FilledUpdate : WaitTimesOut(u)
     \/ \E o \in Orders : Evict(o)
  /\ UNCHANGED <<exchange, connector, network>>

ConnectorInit ==
  /\ Init
  /\ market = [o \in Orders |-> "ABSENT"]
  /\ trades = [o \in Orders |-> {}]
  /\ request = {}
  /\ stream = <<>>
  /\ creating = {}
  /\ cancelling = [o \in Orders |-> {}]
  /\ poll = [o \in Orders |-> [r \in Rounds |-> Idle]]
  /\ recent = [o \in Orders |-> {}]
  /\ direct = [o \in Orders |-> [t \in Trades |-> 0]]
  /\ faults = 0

ConnectorNext ==
  \/ \E o \in Orders, amount \in Amounts : CreateOrder(o, amount)
  \/ \E o \in Orders, amount \in Amounts : RefuseOrder(o, amount)
  \/ \E o \in Orders : OrderPlaced(o)
  \/ \E o \in Orders : OrderPlacementFails(o)
  \/ \E o \in Orders : ExecuteCancel(o)
  \/ \E o \in Orders : CancelReturns(o)
  \/ \E o \in Orders : CancelFails(o)
  \/ \E o \in Orders : CancelTimesOut(o)
  \/ UserStreamEvent
  \/ \E o \in Orders, r \in Rounds : PollTrades(o, r)
  \/ \E o \in Orders, r \in Rounds : PollTradesReturn(o, r)
  \/ \E o \in Orders, r \in Rounds : PollTradesFails(o, r)
  \/ \E o \in Orders, r \in Rounds : PollStatus(o, r)
  \/ \E o \in Orders, r \in Rounds : PollStatusReturns(o, r)
  \/ \E o \in Orders, r \in Rounds : PollStatusFails(o, r)
  \/ \E o \in Orders : ExchangeAccepts(o)
  \/ \E o \in Orders : ExchangeRejects(o)
  \/ \E o \in Orders, t \in Trades : ExchangeFills(o, t)
  \/ \E o \in Orders : ExchangeCancels(o)
  \/ \E o \in Orders, status \in {"CANCELED", "EXPIRED"} : ExchangeCloses(o, status)
  \/ StreamLoses
  \/ TrackerStep
  \/ ConnectorRestart

ConnectorSpec == ConnectorInit /\ [][ConnectorNext]_connectorVars

(* The event loop runs the tracker's tasks and the polling loop goes round. *)
(* The user stream is not assumed to deliver, nor anybody to act.           *)
ConnectorFairness ==
  /\ WF_connectorVars((RunOrderUpdate \/ ParkOrderUpdate) /\ UNCHANGED <<exchange, connector, network>>)
  /\ \A u \in FilledUpdate :
       WF_connectorVars((FillsArrived(u) \/ WaitTimesOut(u)) /\ UNCHANGED <<exchange, connector, network>>)
  /\ \A o \in Orders :
       /\ WF_connectorVars(\E r \in Rounds : PollTrades(o, r))
       /\ \A r \in Rounds :
            /\ WF_connectorVars(PollTradesReturn(o, r))
            /\ WF_connectorVars(PollStatus(o, r))
            /\ WF_connectorVars(PollStatusReturns(o, r) \/ PollStatusFails(o, r))

FairConnectorSpec == ConnectorSpec /\ ConnectorFairness

-----------------------------------------------------------------------------
(* Properties. *)

ConnectorTypeOK ==
  /\ TypeOK
  /\ market \in [Orders -> Status \cup {"ABSENT"}]
  /\ trades \in [Orders -> SUBSET Trades]
  /\ recent \in [Orders -> SUBSET Trades]
  /\ request \subseteq started
  /\ creating \subseteq started
  /\ \A i \in 1..Len(stream) : stream[i].order \in started
  /\ cancelling \in [Orders -> SUBSET {"requested", "cancelled"}]
  /\ poll \in [Orders -> [Rounds -> [phase : {"idle", "trades", "status"}, asked : SUBSET Trades,
                                     mapped : BOOLEAN, status : Status \cup {"none", "ABSENT"}]]]
  /\ direct \in [Orders -> [Trades -> Nat]]
  /\ faults \in 0..MaxFaults

(* Until it reports a fill past the tracker, the connector drives its       *)
(* tracker only in ways ClientOrderTracker allows, so what is proved of the *)
(* tracker holds in the connector up to there.                              *)
NoneDirect == \A o \in Orders, t \in Trades : direct[o][t] = 0
ImplementsTracker == Init /\ [][NoneDirect' => Next]_vars

(* What the connector reports as the end of an order is what happened at    *)
(* the exchange, in spite of stale answers and lost messages.               *)
ReportedEndIsReal ==
  \A o \in Orders :
    /\ events[o]["Cancelled"] > 0 => market[o] = "CANCELED"
    /\ events[o]["Completed"] > 0 => market[o] = "FILLED"

(* An order that is live at the exchange and that the connector no longer   *)
(* tracks was reported as failed, or the process restarted before its       *)
(* creation was reported: no order is dropped in silence.                   *)
NoSilentOrphan ==
  \A o \in Orders : market[o] = "NEW" /\ o \in started \ active =>
    events[o]["Failure"] > 0 \/ (restarts > 0 /\ events[o]["Created"] = 0)

(* _status_polling_loop is the backup for the user stream: an order the     *)
(* exchange has closed leaves the active orders, whatever the stream loses. *)
ClosedOrderIsSettled ==
  \A o \in Orders :
    (o \in active /\ market[o] \in {"FILLED", "CANCELED", "EXPIRED"}) ~> (o \notin active)

(* OrderFilled is triggered once for a trade, by the tracker or past it     *)
(* (is_confirmed_new_order_filled_event is there to avoid duplicates).      *)
FillReportedOnceOverall ==
  \A o \in Orders, t \in Trades : fillEvents[o][t] + direct[o][t] <= 1

(* The trades poll is the backup to get fill events when the user stream    *)
(* does not work (the docstring of _update_order_fills_from_trades): a      *)
(* trade is reported, or the poll has not asked for it or not seen the      *)
(* answer, or the stream still carries it.                                  *)
TradeNotMissed ==
  \A o \in Orders :
    \A t \in trades[o] :
      \/ fillEvents[o][t] + direct[o][t] > 0
      \/ t \in recent[o] \/ \E r \in Rounds : t \in poll[o][r].asked
      \/ \E i \in 1..Len(stream) : stream[i].trade = {t}
=============================================================================
