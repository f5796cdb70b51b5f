------------------------- MODULE ClientOrderTracker -------------------------
(***************************************************************************)
(* The order tracker of a connector (connector/client_order_tracker.py)    *)
(* together with the recorder that persists the connector's tracking       *)
(* states on order events (connector/markets_recorder.py).                 *)
(*                                                                         *)
(* An order update is a coroutine.  process_order_update only schedules it *)
(* (the queue ready: the event loop starts tasks in the order they were    *)
(* created).  When it starts it either runs to its end in one step, or, if *)
(* it says FILLED and the fills are not all here, it parks in waiting and  *)
(* runs its second half after the fills came or after a timeout.  Trade    *)
(* updates are processed synchronously.                                    *)
(*                                                                         *)
(* This module leaves the connector free: any update may come at any time. *)
(***************************************************************************)
EXTENDS InFlightOrder, Sequences, FiniteSets

CONSTANTS
  Orders,          \* Client order ids.
  UpdateStates,    \* The states the connector's order updates carry.
  NotSaved,        \* Stands for an order that is absent from the database.
  KeepsDone,       \* Whether tracking_states keeps active orders that are done.
  NotFoundLimit,   \* ORDER_NOT_FOUND_COUNT_LIMIT.
  MaxPending,      \* Bound: order updates scheduled and not finished.
  MaxTerminal,     \* Bound: terminal events of one order before updates stop.
  MaxRestarts      \* Bound: restarts of the process.

ASSUME UpdateStatesAssumption == UpdateStates \subseteq OrderState \ {"PENDING_CREATE"}
ASSUME NotSavedAssumption == NotSaved \notin Order
ASSUME KeepsDoneAssumption == KeepsDone \in BOOLEAN
ASSUME NotFoundLimitAssumption == NotFoundLimit \in Nat

VARIABLES
  order,       \* The order objects: they outlive the tracker's two maps.
  started,     \* Client order ids ever given to the tracker (they are unique).
  active,      \* _in_flight_orders.
  cached,      \* _cached_orders.
  notFound,    \* _order_not_found_records.
  ready,       \* Order updates scheduled, not started.
  waiting,     \* FILLED updates parked in wait_until_completely_filled.
  events,      \* How often each order event was triggered, per order.
  fillEvents,  \* How often OrderFilled was triggered, per order and trade.
  saved,       \* The tracking states in the database.
  restarts     \* Restarts so far.

tracker == <<order, started, active, cached, notFound, ready, waiting>>
history == <<events, fillEvents>>
vars == <<tracker, history, saved, restarts>>

-----------------------------------------------------------------------------
(* Messages and events. *)

EventKinds == {"Created", "Cancelled", "Completed", "Failure"}
TerminalKinds == EventKinds \ {"Created"}

(* An order update names its order by client id, by exchange id or by both. *)
OrderUpdate == [order         : Orders,
                newState      : UpdateStates \cup {"FAILED"},
                hasClientId   : BOOLEAN,
                hasExchangeId : BOOLEAN]

ClientUpdate(o, newState, hasExchangeId) ==
  [order |-> o, newState |-> newState, hasClientId |-> TRUE, hasExchangeId |-> hasExchangeId]

FilledUpdate == {u \in OrderUpdate : u.newState = "FILLED"}

NumberWaiting ==
  Cardinality({p \in FilledUpdate \X (1..MaxPending) : p[2] <= waiting[p[1]]})

Terminals(o) == events[o]["Cancelled"] + events[o]["Completed"] + events[o]["Failure"]

-----------------------------------------------------------------------------
(* Look-ups. *)

AllOrders == active \cup cached

(* fetch_order: by client id, else by an exchange id an order is known under. *)
Fetches(u) == /\ u.order \in AllOrders
              /\ u.hasClientId \/ (u.hasExchangeId /\ order[u.order].idKnown)

(* tracking_states of the connector, for the order records ords: an         *)
(* exchange leaves out orders that are done, the gateway connector keeps them. *)
TrackingStates(ords) ==
  [o \in Orders |-> IF o \in active /\ (KeepsDone \/ ~IsDone(ords[o])) THEN ords[o] ELSE NotSaved]

-----------------------------------------------------------------------------
(* Pieces of the handlers. *)

(* A regression: the order is cached but stays active. *)
KeepTrackingOrder(o) ==
  /\ active' = active
  /\ cached' = cached \cup (active \cap {o})

StopTrackingOrder(o) ==
  /\ active' = active \ {o}
  /\ cached' = cached \cup (active \cap {o})

Trigger(o, kind) == events' = [events EXCEPT ![o][kind] = @ + 1]

(* The event of _trigger_order_completion; an update to FAILED of an order  *)
(* whose fills add up to its amount is reported as a completion.            *)
CompletionKind(ord) ==
  CASE IsCancelled(ord) -> "Cancelled"
    [] ~IsCancelled(ord) /\ IsFilled(ord) -> "Completed"
    [] OTHER -> "Failure"

(* An update that changes nothing (same exchange id, same state). *)
ApplyNoChange(u, new) ==
  /\ new = order[u.order]
  /\ UNCHANGED <<order, active, cached, events, saved>>

(* Regressions: every change to OPEN is a creation; a creation is not       *)
(* saved.                                                                   *)
ApplyOpenCreates(u, new) ==
  LET o == u.order
  IN  /\ new # order[o]
      /\ IsOpen(new)
      /\ order' = [order EXCEPT ![o] = new]
      /\ \/ new.state = "OPEN" /\ Trigger(o, "Created") /\ saved' = TrackingStates(order')
         \/ new.state # "OPEN" /\ UNCHANGED <<events, saved>>
      /\ UNCHANGED <<active, cached>>
ApplyOpenUnsaved(u, new) ==
  LET o == u.order
      creates == order[o].state = "PENDING_CREATE" /\ new.state = "OPEN"
  IN  /\ new # order[o]
      /\ IsOpen(new)
      /\ order' = [order EXCEPT ![o] = new]
      /\ \/ creates /\ Trigger(o, "Created")
         \/ ~creates /\ UNCHANGED events
      /\ UNCHANGED <<active, cached, saved>>

(* _trigger_order_creation fires on PENDING_CREATE -> OPEN only; the        *)
(* recorder saves the tracking states when it hears of it.                  *)
ApplyOpen(u, new) ==
  LET o == u.order
      creates == order[o].state = "PENDING_CREATE" /\ new.state = "OPEN"
  IN  /\ new # order[o]
      /\ IsOpen(new)
      /\ order' = [order EXCEPT ![o] = new]
      /\ \/ creates /\ Trigger(o, "Created") /\ saved' = TrackingStates(order')
         \/ ~creates /\ UNCHANGED <<events, saved>>
      /\ UNCHANGED <<active, cached>>

(* A regression: the order stops being tracked and no event is triggered. *)
ApplyTerminalSilently(u, new) ==
  /\ new # order[u.order]
  /\ ~IsOpen(new)
  /\ order' = [order EXCEPT ![u.order] = new]
  /\ StopTrackingOrder(u.order)
  /\ UNCHANGED <<events, saved>>

(* _trigger_order_completion.  The recorder saves only if the order has a   *)
(* database record, that is, if its creation was reported.                  *)
ApplyTerminal(u, new) ==
  LET o == u.order
  IN  /\ new # order[o]
      /\ ~IsOpen(new)
      /\ order' = [order EXCEPT ![o] = new]
      /\ Trigger(o, CompletionKind(new))
      /\ saved' = IF events[o]["Created"] > 0 THEN TrackingStates(order') ELSE saved
      /\ StopTrackingOrder(o)

(* The second half of _process_order_update: everything after the await. *)
ApplyOrderUpdate(u) ==
  LET new == UpdateWithOrderUpdate(order[u.order], u.newState, u.hasExchangeId)
  IN  \/ ApplyNoChange(u, new)
      \/ ApplyOpen(u, new)
      \/ ApplyTerminal(u, new)

(* A regression: the fills are not waited for. *)
NeverWait(u) == FALSE

MustWait(u) == u.newState = "FILLED" /\ ~IsDone(order[u.order])

(* process_order_update: schedule the coroutine. *)
ProcessOrderUpdate(u) == ready' = Append(ready, u)

(* The same, while the event loop is at most MaxPending updates behind. *)
ScheduleUpdate(u) ==
  /\ u.newState \in UpdateStates
  /\ Len(ready) + NumberWaiting < MaxPending
  /\ Terminals(u.order) < MaxTerminal
  /\ ProcessOrderUpdate(u)

(* A handler that may schedule an order update before its next await. *)
MaySchedule ==
  \/ UNCHANGED ready
  \/ \E u \in OrderUpdate : ScheduleUpdate(u)

(* The trades T reach an order that some of them are new to: each new one   *)
(* is added to it and reported by an OrderFilled event.                     *)
AddFills(o, T) ==
  LET new == T \ order[o].fills
  IN  /\ o \in AllOrders
      /\ new # {}
      /\ order' = [order EXCEPT ![o] = UpdateWithTradeUpdates(order[o], T)]
      /\ fillEvents' = [fillEvents EXCEPT
           ![o] = [t \in Trades |-> IF t \in new THEN fillEvents[o][t] + 1 ELSE fillEvents[o][t]]]

AddsNoFill(o, T) ==
  /\ o \notin AllOrders \/ T \subseteq order[o].fills
  /\ UNCHANGED <<order, fillEvents, saved>>

(* Regressions: a trade seen before is reported again; fills are not saved. *)
ProcessTradeUpdatesAgain(o, T) ==
  \/ /\ o \in AllOrders
     /\ T # {}
     /\ order' = [order EXCEPT ![o] = UpdateWithTradeUpdates(order[o], T)]
     /\ fillEvents' = [fillEvents EXCEPT
          ![o] = [t \in Trades |-> IF t \in T THEN fillEvents[o][t] + 1 ELSE fillEvents[o][t]]]
     /\ saved' = TrackingStates(order')
  \/ (o \notin AllOrders \/ T = {}) /\ UNCHANGED <<order, fillEvents, saved>>
ProcessTradeUpdatesUnsaved(o, T) ==
  \/ AddFills(o, T) /\ UNCHANGED saved
  \/ AddsNoFill(o, T)

(* process_trade_update for the trades T of an order, all that a handler    *)
(* processes between two awaits; the recorder saves when it hears of a fill. *)
ProcessTradeUpdates(o, T) ==
  \/ AddFills(o, T) /\ saved' = TrackingStates(order')
  \/ AddsNoFill(o, T)

-----------------------------------------------------------------------------
(* The actions. *)

Init ==
  /\ order = [o \in Orders |-> NewOrder(CHOOSE a \in Amounts : TRUE)]
  /\ started = {}
  /\ active = {}
  /\ cached = {}
  /\ notFound = [o \in Orders |-> 0]
  /\ ready = <<>>
  /\ waiting = [u \in FilledUpdate |-> 0]
  /\ events = [o \in Orders |-> [k \in EventKinds |-> 0]]
  /\ fillEvents = [o \in Orders |-> [t \in Trades |-> 0]]
  /\ saved = [o \in Orders |-> NotSaved]
  /\ restarts = 0

(* start_tracking_order of an order with a fresh client id. *)
StartTrackingOrder(o, amount) ==
  /\ o \notin started
  /\ order' = [order EXCEPT ![o] = NewOrder(amount)]
  /\ started' = started \cup {o}
  /\ active' = active \cup {o}

(* The connector creates an order, and may fail it at once. *)
Start(o, amount) ==
  /\ StartTrackingOrder(o, amount)
  /\ MaySchedule
  /\ UNCHANGED <<cached, notFound, waiting, history, saved, restarts>>

(* Fills arrive, from the user stream or from a poll. *)
Trade(o, T) ==
  /\ o \in started
  /\ ProcessTradeUpdates(o, T)
  /\ MaySchedule
  /\ UNCHANGED <<started, active, cached, notFound, waiting, events, restarts>>

(* An order update arrives, from the user stream, a poll or a request. *)
Update ==
  /\ MaySchedule
  /\ ready' # ready
  /\ UNCHANGED <<order, started, active, cached, notFound, waiting, history, saved, restarts>>

(* The next scheduled update starts and finishes. *)
RunOrderUpdate ==
  /\ ready # <<>>
  /\ ready' = Tail(ready)
  /\ LET u == Head(ready)
     IN  \/ Fetches(u) /\ ~MustWait(u) /\ ApplyOrderUpdate(u)
         \/ ~Fetches(u) /\ UNCHANGED <<order, active, cached, events, saved>>
  /\ UNCHANGED <<started, notFound, waiting, fillEvents, restarts>>

(* The next scheduled update starts and waits for the fills. *)
ParkOrderUpdate ==
  /\ ready # <<>>
  /\ Fetches(Head(ready))
  /\ MustWait(Head(ready))
  /\ ready' = Tail(ready)
  /\ waiting' = [waiting EXCEPT ![Head(ready)] = @ + 1]
  /\ UNCHANGED <<order, started, active, cached, notFound, history, saved, restarts>>

(* A parked update goes on: its fills are complete (the event is set), or   *)
(* five seconds have passed.  It keeps the order object it fetched earlier  *)
(* and does not look again whether the tracker still holds it.              *)
Resume(u) ==
  /\ waiting[u] > 0
  /\ waiting' = [waiting EXCEPT ![u] = @ - 1]
  /\ ApplyOrderUpdate(u)
  /\ UNCHANGED <<started, notFound, ready, fillEvents, restarts>>

FillsArrived(u) == CompletelyFilled(order[u.order]) /\ Resume(u)

(* A regression: the wait for the fills has no timeout. *)
WaitForEver(u) == FALSE

WaitTimesOut(u) == ~CompletelyFilled(order[u.order]) /\ Resume(u)

(* A regression: an order that is done meanwhile is failed as well. *)
FailEvenIfDone(o) ==
  LET fails == notFound[o] + 1 > NotFoundLimit
  IN  /\ o \in active
      /\ notFound' = [notFound EXCEPT ![o] = IF @ > NotFoundLimit THEN @ ELSE @ + 1]
      /\ \/ fails /\ ApplyOrderUpdate(ClientUpdate(o, "FAILED", FALSE))
         \/ ~fails /\ UNCHANGED <<order, active, cached, events, saved>>

(* process_order_not_found: count, and fail the order beyond the limit,     *)
(* without a task of its own.  Only whether the count is beyond the limit   *)
(* matters, so it stays at NotFoundLimit + 1.                               *)
ProcessOrderNotFound(o) ==
  LET fails == notFound[o] + 1 > NotFoundLimit /\ ~IsDone(order[o])
  IN  /\ o \in active
      /\ notFound' = [notFound EXCEPT ![o] = IF @ > NotFoundLimit THEN @ ELSE @ + 1]
      /\ \/ fails /\ ApplyOrderUpdate(ClientUpdate(o, "FAILED", FALSE))
         \/ ~fails /\ UNCHANGED <<order, active, cached, events, saved>>

NotFound(o) ==
  /\ ProcessOrderNotFound(o)
  /\ UNCHANGED <<started, ready, waiting, fillEvents, restarts>>

(* The TTL cache drops an entry: 30 seconds have passed, or it is full. *)
Evict(o) ==
  /\ o \in cached
  /\ cached' = cached \ {o}
  /\ UNCHANGED <<order, started, active, notFound, ready, waiting, history, saved, restarts>>

(* The recorder saves on an event of another order of the connector. *)
SaveMarketStates ==
  /\ saved' = TrackingStates(order)
  /\ UNCHANGED <<tracker, history, restarts>>

(* Regressions: absent rows are restored as if they were orders; only the   *)
(* orders not yet confirmed are tracked again.                              *)
RestoreAbsentStates ==
  /\ order' = saved
  /\ active' = {o \in Orders : saved[o] # NotSaved}
RestoreUnconfirmedOnly ==
  LET restored == {o \in Orders : saved[o] # NotSaved}
  IN  /\ order' = [o \in Orders |-> IF o \in restored THEN saved[o] ELSE order[o]]
      /\ active' = {o \in restored : saved[o].state = "PENDING_CREATE"}

(* The process stops or dies and starts again from the saved states: the    *)
(* open orders among them are tracked again, and every task is gone.        *)
RestoreTrackingStates ==
  LET restored == {o \in Orders : saved[o] # NotSaved}
  IN  /\ order' = [o \in Orders |-> IF o \in restored THEN saved[o] ELSE order[o]]
      /\ active' = {o \in restored : IsOpen(saved[o])}

Restart ==
  /\ restarts < MaxRestarts
  /\ restarts' = restarts + 1
  /\ RestoreTrackingStates
  /\ cached' = {}
  /\ notFound' = [o \in Orders |-> 0]
  /\ ready' = <<>>
  /\ waiting' = [u \in FilledUpdate |-> 0]
  /\ UNCHANGED <<started, history, saved>>

Next ==
  \/ \E o \in Orders, amount \in Amounts : Start(o, amount)
  \/ \E o \in Orders, T \in SUBSET Trades : Trade(o, T)
  \/ Update
  \/ RunOrderUpdate
  \/ ParkOrderUpdate
  \/ \E u \in FilledUpdate : FillsArrived(u)
  \/ \E u \in FilledUpdate : WaitTimesOut(u)
  \/ \E o \in Orders : NotFound(o)
  \/ \E o \in Orders : Evict(o)
  \/ SaveMarketStates
  \/ Restart

Spec == Init /\ [][Next]_vars

(* The event loop runs what is ready, and a wait ends by its fills or by    *)
(* its timeout.  Nothing is assumed of the connector.                       *)
Fairness ==
  /\ WF_vars(RunOrderUpdate \/ ParkOrderUpdate)
  /\ \A u \in FilledUpdate : WF_vars(FillsArrived(u) \/ WaitTimesOut(u))

FairSpec == Spec /\ Fairness

-----------------------------------------------------------------------------
(* Properties. *)

(* Every variable of the tracker keeps its type. *)
TypeOK ==
  /\ order \in [Orders -> Order]
  /\ started \subseteq Orders
  /\ active \subseteq started
  /\ cached \subseteq started
  /\ notFound \in [Orders -> Nat]
  /\ ready \in Seq(OrderUpdate)
  /\ waiting \in [FilledUpdate -> Nat]
  /\ events \in [Orders -> [EventKinds -> Nat]]
  /\ fillEvents \in [Orders -> [Trades -> Nat]]
  /\ saved \in [Orders -> Order \cup {NotSaved}]
  /\ restarts \in Nat

(* The tracker's two maps agree with the order objects: an order is active  *)
(* only while its state is open, whatever order the updates came in         *)
(* (stop_tracking_order is reached by every update that closes an order).   *)
ActiveOrdersAreOpen ==
  /\ \A o \in active : IsOpen(order[o])
  /\ active \cap cached = {}

(* The executed amount is the sum of the distinct trades, also after a      *)
(* restore, although fills, order updates and restarts interleave.          *)
ExecutedIsSumOfFills ==
  \A o \in started : order[o].executed = FillAmount[order[o].fills]

(* OrderFilled is triggered at most once for a trade, over all sources of   *)
(* the trade (user stream, poll), the cache's lifetime and restarts.        *)
FillReportedOnce == \A o \in Orders, t \in Trades : fillEvents[o][t] <= 1

(* The creation of an order is reported at most once, also when the answer  *)
(* to its submission arrives after a restart or after it was closed.        *)
CreatedReportedOnce == \A o \in Orders : events[o]["Created"] <= 1

(* The database never understates an order: every trade that was reported   *)
(* is among the fills of the saved order, so a restart forgets none.        *)
SavedFillsComplete ==
  \A o \in Orders : saved[o] # NotSaved =>
    {t \in Trades : fillEvents[o][t] > 0} \subseteq saved[o].fills

(* An order whose creation was reported and that is still open and not      *)
(* fully executed can be restored: it is in the database.                   *)
CreatedOrderIsSaved ==
  \A o \in active : events[o]["Created"] > 0 /\ ~IsDone(order[o]) => saved[o] # NotSaved

(* An order leaves the active orders only in a step that triggers one of    *)
(* its terminal events, or when the process restarts.                       *)
LeavesActiveReported ==
  [][\A o \in active \ active' : Terminals(o)' = Terminals(o) + 1 \/ Restart]_vars

(* Until the process restarts, an active order has no terminal event behind *)
(* it: a closed order is never active again, though a late update may still *)
(* change it in the cache and report its end a second time.                 *)
ActiveOrderUnreported ==
  restarts = 0 => \A o \in active : Terminals(o) = 0

(* A completion is reported before the fills add up to the amount only when *)
(* the wait for them timed out, or the order had been closed before: is_done *)
(* skips the wait, and an update that brings the exchange id of a closed    *)
(* order reports its end again.                                             *)
CompletionHasFills ==
  [][\A o \in Orders :
       events'[o]["Completed"] > events[o]["Completed"] =>
         \/ order'[o].executed >= order'[o].amount
         \/ ~IsOpen(order[o])
         \/ \E u \in FilledUpdate : u.order = o /\ WaitTimesOut(u)]_vars

(* A FILLED update of an active order that reached the tracker closes the   *)
(* order, unless the process restarts: the wait for fills that never come   *)
(* does not hold it for ever.                                               *)
FilledUpdatePending(o) ==
  /\ o \in active
  /\ \/ \E i \in 1..Len(ready) : ready[i] = ClientUpdate(o, "FILLED", TRUE)
     \/ waiting[ClientUpdate(o, "FILLED", TRUE)] > 0

FilledUpdateClosesOrder ==
  \A o \in Orders, r \in 0..MaxRestarts :
    FilledUpdatePending(o) /\ restarts = r ~> o \notin active \/ restarts > r
=============================================================================
