---------------------- MODULE ClientOrderTracker_proofs ----------------------
(***************************************************************************)
(* Proofs about ClientOrderTracker, for any sets of orders, trades and     *)
(* amounts and any bounds.                                                 *)
(*                                                                         *)
(* The safety invariants are not inductive one by one.  The inductive      *)
(* invariant IInv adds what they rest on: an id that was never tracked has *)
(* no history, an order the tracker can still reach holds every trade that *)
(* was reported for it, an order whose creation was reported never looks   *)
(* new again (neither in memory nor in the database), and a parked update  *)
(* belongs to a tracked id.                                                *)
(***************************************************************************)
EXTENDS ClientOrderTracker, TLAPS

-----------------------------------------------------------------------------
(* The inductive invariant. *)

UntrackedHaveNoHistory ==
  \A o \in Orders \ started :
    /\ saved[o] = NotSaved
    /\ \A k \in EventKinds : events[o][k] = 0
    /\ \A t \in Trades : fillEvents[o][t] = 0

ReportedFillsHeld ==
  \A o \in AllOrders, t \in Trades : fillEvents[o][t] > 0 => t \in order[o].fills

CreatedIsPast ==
  \A o \in Orders : events[o]["Created"] > 0 =>
    /\ order[o].state # "PENDING_CREATE"
    /\ saved[o] # NotSaved => saved[o].state # "PENDING_CREATE"

ParkedAreTracked == \A u \in FilledUpdate : waiting[u] > 0 => u.order \in started

StoreTypeOK ==
  /\ order \in [Orders -> Order]
  /\ started \subseteq Orders
  /\ active \subseteq started
  /\ cached \subseteq started
  /\ events \in [Orders -> [EventKinds -> Nat]]
  /\ fillEvents \in [Orders -> [Trades -> Nat]]
  /\ saved \in [Orders -> Order \cup {NotSaved}]
  /\ restarts \in Nat

QueueTypeOK ==
  /\ notFound \in [Orders -> Nat]
  /\ ready \in Seq(OrderUpdate)
  /\ waiting \in [FilledUpdate -> Nat]

(* What an order update or a trade can disturb. *)
StoreInv ==
  /\ StoreTypeOK
  /\ ActiveOrdersAreOpen
  /\ UntrackedHaveNoHistory
  /\ ReportedFillsHeld
  /\ FillReportedOnce
  /\ SavedFillsComplete
  /\ CreatedIsPast
  /\ CreatedReportedOnce
  /\ CreatedOrderIsSaved
  /\ ActiveOrderUnreported

IInv == StoreInv /\ QueueTypeOK /\ ParkedAreTracked

-----------------------------------------------------------------------------
(* Lemmas about the operators on orders. *)

(* A new order is an order, open, and has no fills. *)
LEMMA NewOrderType ==
  ASSUME NEW amount \in Amounts
  PROVE  NewOrder(amount) \in Order /\ IsOpen(NewOrder(amount))
BY DEF NewOrder, Order, OrderState, IsOpen

(* An order update keeps the type, and changes only state and exchange id. *)
LEMMA OrderUpdateType ==
  ASSUME NEW ord \in Order, NEW newState \in OrderState, NEW hasId \in BOOLEAN
  PROVE  LET new == UpdateWithOrderUpdate(ord, newState, hasId)
         IN  /\ new \in Order
             /\ new.state = newState
             /\ new.fills = ord.fills
             /\ new.executed = ord.executed
             /\ new.amount = ord.amount
BY DEF UpdateWithOrderUpdate, Order

(* Trade updates keep the type and the state; the trades are among the      *)
(* fills afterwards, and the executed amount stays their total.             *)
LEMMA TradeUpdateType ==
  ASSUME NEW ord \in Order, NEW T \in SUBSET Trades
  PROVE  LET new == UpdateWithTradeUpdates(ord, T)
         IN  /\ new \in Order
             /\ new.state = ord.state
             /\ new.fills = ord.fills \cup T
             /\ new.amount = ord.amount
             /\ new.executed = ord.executed + FillAmount[T \ ord.fills]
<1>1. FillAmount[T \ ord.fills] \in Nat
  BY FillAmountAssumption
<1>2. ord.executed + FillAmount[T \ ord.fills] \in Nat /\ ord.fills \cup T \in SUBSET Trades
  BY <1>1 DEF Order
<1> QED
  BY <1>2 DEF UpdateWithTradeUpdates, Order

(* The record of an update made from its parts. *)
LEMMA OrderUpdateParts ==
  ASSUME NEW u \in OrderUpdate
  PROVE  u.order \in Orders /\ u.newState \in OrderState /\ u.hasExchangeId \in BOOLEAN
BY UpdateStatesAssumption DEF OrderUpdate, OrderState

-----------------------------------------------------------------------------
(* Lemmas about the pieces of the handlers. *)

(* What the recorder writes: active orders as they are, among them all that *)
(* are not done.                                                            *)
LEMMA TrackingStatesType ==
  ASSUME NEW ords \in [Orders -> Order], NEW o \in Orders
  PROVE  /\ TrackingStates(ords) \in [Orders -> Order \cup {NotSaved}]
         /\ o \in active /\ ~IsDone(ords[o]) => TrackingStates(ords)[o] = ords[o]
         /\ TrackingStates(ords)[o] # NotSaved => o \in active /\ TrackingStates(ords)[o] = ords[o]
BY DEF TrackingStates

(* An update that leaves the order open keeps the invariant of the store. *)
LEMMA ApplyOpenPreserves ==
  ASSUME StoreInv, NEW u \in OrderUpdate, u.order \in started,
         UNCHANGED <<started, fillEvents, restarts>>,
         ApplyOpen(u, UpdateWithOrderUpdate(order[u.order], u.newState, u.hasExchangeId))
  PROVE  StoreInv'
<1> DEFINE o   == u.order
           new == UpdateWithOrderUpdate(order[o], u.newState, u.hasExchangeId)
           creates == order[o].state = "PENDING_CREATE" /\ new.state = "OPEN"
<1>1. o \in Orders /\ order[o] \in Order
  BY OrderUpdateParts DEF StoreInv, StoreTypeOK
<1>2. /\ new \in Order
      /\ new.fills = order[o].fills
      /\ new.executed = order[o].executed
      /\ new.amount = order[o].amount
      /\ new.state = u.newState
  BY <1>1, OrderUpdateParts, OrderUpdateType
<1>3. /\ IsOpen(new)
      /\ order' = [order EXCEPT ![o] = new]
      /\ active' = active /\ cached' = cached
      /\ \/ creates /\ Trigger(o, "Created") /\ saved' = TrackingStates(order')
         \/ ~creates /\ events' = events /\ saved' = saved
  BY DEF ApplyOpen
<1> HIDE DEF new
<1>4. order' \in [Orders -> Order]
  BY <1>1, <1>2, <1>3 DEF StoreInv, StoreTypeOK
<1>5. new.state # "PENDING_CREATE"
  BY <1>2, UpdateStatesAssumption DEF OrderUpdate, OrderState
<1>6. ActiveOrdersAreOpen'
  BY <1>1, <1>3, <1>4 DEF StoreInv, ActiveOrdersAreOpen, StoreTypeOK
<1>7. ReportedFillsHeld'
  BY <1>1, <1>2, <1>3, <1>4 DEF StoreInv, ReportedFillsHeld, AllOrders, StoreTypeOK
<1>8. FillReportedOnce'
  BY DEF StoreInv, FillReportedOnce
<1>9. CASE creates /\ Trigger(o, "Created") /\ saved' = TrackingStates(order')
  <2>1. events' = [events EXCEPT ![o]["Created"] = events[o]["Created"] + 1]
    BY <1>9 DEF Trigger
  <2>2. events' \in [Orders -> [EventKinds -> Nat]]
    BY <1>1, <2>1 DEF StoreInv, StoreTypeOK, EventKinds
  <2>3. \A p \in Orders, k \in EventKinds :
          events'[p][k] = IF p = o /\ k = "Created" THEN events[o]["Created"] + 1 ELSE events[p][k]
    BY <1>1, <2>1 DEF StoreInv, StoreTypeOK, EventKinds
  <2>4. saved' \in [Orders -> Order \cup {NotSaved}]
    BY <1>1, <1>4, <1>9, TrackingStatesType
  <2>5. \A p \in Orders : saved'[p] # NotSaved =>
          p \in active /\ saved'[p] = order'[p]
    BY <1>4, <1>9, TrackingStatesType
  <2>6. \A p \in active : ~IsDone(order'[p]) => saved'[p] = order'[p]
    BY <1>4, <1>9, TrackingStatesType DEF StoreInv, StoreTypeOK
  <2>7. StoreTypeOK'
    BY <1>3, <1>4, <2>2, <2>4 DEF StoreInv, StoreTypeOK
  <2>8. events[o]["Created"] = 0
    BY <1>1, <1>9 DEF StoreInv, CreatedIsPast, StoreTypeOK, EventKinds
  <2>9. UntrackedHaveNoHistory'
    BY <2>3, <2>5 DEF StoreInv, UntrackedHaveNoHistory, StoreTypeOK
  <2>10. SavedFillsComplete'
    BY <1>7, <1>3, <2>5 DEF SavedFillsComplete, ReportedFillsHeld, AllOrders
  <2>11. CreatedIsPast'
    BY <1>1, <1>3, <1>5, <2>3, <2>5 DEF StoreInv, CreatedIsPast, StoreTypeOK, EventKinds
  <2>12. CreatedReportedOnce'
    BY <2>3, <2>8 DEF StoreInv, CreatedReportedOnce, EventKinds
  <2>13. CreatedOrderIsSaved'
    BY <1>3, <1>4, <2>6, NotSavedAssumption DEF CreatedOrderIsSaved, StoreInv, StoreTypeOK
  <2>14. ActiveOrderUnreported'
    BY <1>3, <2>3 DEF StoreInv, ActiveOrderUnreported, Terminals, EventKinds, StoreTypeOK
  <2> QED
    BY <1>6, <1>7, <1>8, <2>7, <2>9, <2>10, <2>11, <2>12, <2>13, <2>14 DEF StoreInv
<1>10. CASE ~creates /\ events' = events /\ saved' = saved
  <2>1. StoreTypeOK'
    BY <1>3, <1>4, <1>10 DEF StoreInv, StoreTypeOK
  <2>2. UntrackedHaveNoHistory'
    BY <1>10 DEF StoreInv, UntrackedHaveNoHistory
  <2>3. SavedFillsComplete'
    BY <1>10 DEF StoreInv, SavedFillsComplete
  <2>4. CreatedIsPast'
    BY <1>1, <1>3, <1>5, <1>10 DEF StoreInv, CreatedIsPast, StoreTypeOK
  <2>5. CreatedReportedOnce'
    BY <1>10 DEF StoreInv, CreatedReportedOnce
  <2>6. o \in active /\ ~IsDone(new) => ~IsDone(order[o])
    BY <1>2 DEF StoreInv, ActiveOrdersAreOpen, IsDone, IsOpen
  <2>7. CreatedOrderIsSaved'
    BY <1>1, <1>3, <1>10, <2>6 DEF StoreInv, CreatedOrderIsSaved, StoreTypeOK
  <2>8. ActiveOrderUnreported'
    BY <1>3, <1>10 DEF StoreInv, ActiveOrderUnreported, Terminals
  <2> QED
    BY <1>6, <1>7, <1>8, <2>1, <2>2, <2>3, <2>4, <2>5, <2>7, <2>8 DEF StoreInv
<1> QED
  BY <1>3, <1>9, <1>10

(* The event of an order that closes is one of the three terminal ones. *)
LEMMA CompletionKindType ==
  ASSUME NEW ord PROVE CompletionKind(ord) \in TerminalKinds
BY DEF CompletionKind, TerminalKinds, EventKinds

(* An update that closes the order keeps the invariant of the store. *)
LEMMA ApplyTerminalPreserves ==
  ASSUME StoreInv, NEW u \in OrderUpdate, u.order \in started,
         UNCHANGED <<started, fillEvents, restarts>>,
         ApplyTerminal(u, UpdateWithOrderUpdate(order[u.order], u.newState, u.hasExchangeId))
  PROVE  StoreInv'
<1> DEFINE o    == u.order
           new  == UpdateWithOrderUpdate(order[o], u.newState, u.hasExchangeId)
           kind == CompletionKind(new)
<1>1. o \in Orders /\ order[o] \in Order
  BY OrderUpdateParts DEF StoreInv, StoreTypeOK
<1>2. /\ new \in Order
      /\ new.fills = order[o].fills
  BY <1>1, OrderUpdateParts, OrderUpdateType
<1>3. /\ ~IsOpen(new)
      /\ order' = [order EXCEPT ![o] = new]
      /\ active' = active \ {o} /\ cached' = cached \cup (active \cap {o})
      /\ events' = [events EXCEPT ![o][kind] = events[o][kind] + 1]
      /\ saved' = IF events[o]["Created"] > 0 THEN TrackingStates(order') ELSE saved
  BY DEF ApplyTerminal, StopTrackingOrder, Trigger
<1>4. kind \in EventKinds /\ kind # "Created"
  BY CompletionKindType DEF TerminalKinds
<1> HIDE DEF new, kind
<1>5. order' \in [Orders -> Order]
  BY <1>1, <1>2, <1>3 DEF StoreInv, StoreTypeOK
<1>6. new.state # "PENDING_CREATE"
  BY <1>3 DEF IsOpen
<1>7. events' \in [Orders -> [EventKinds -> Nat]]
  BY <1>1, <1>3, <1>4 DEF StoreInv, StoreTypeOK
<1>8. \A p \in Orders, k \in EventKinds :
        /\ events'[p][k] = IF p = o /\ k = kind THEN events[o][kind] + 1 ELSE events[p][k]
        /\ k = "Created" => events'[p][k] = events[p][k]
  BY <1>1, <1>3, <1>4 DEF StoreInv, StoreTypeOK
<1>9. IsDone(new)
  BY <1>2, <1>3 DEF IsDone, IsOpen, Order, OrderState
<1>10. \A p \in Orders : TrackingStates(order')[p] # NotSaved =>
         p \in active /\ TrackingStates(order')[p] = order'[p]
  BY <1>5, TrackingStatesType
<1>11. \A p \in active : ~IsDone(order'[p]) => TrackingStates(order')[p] = order'[p]
  BY <1>5, TrackingStatesType DEF StoreInv, StoreTypeOK
<1>12. TrackingStates(order') \in [Orders -> Order \cup {NotSaved}]
  BY <1>1, <1>5, TrackingStatesType
<1>13. StoreTypeOK'
  BY <1>3, <1>5, <1>7, <1>12 DEF StoreInv, StoreTypeOK
<1>14. ActiveOrdersAreOpen'
  BY <1>1, <1>3, <1>5 DEF StoreInv, ActiveOrdersAreOpen, StoreTypeOK
<1>saved. \A p \in Orders : saved'[p] # NotSaved =>
         \/ saved'[p] = saved[p]
         \/ p \in active /\ saved'[p] = order'[p]
  BY <1>3, <1>10
<1>created. \A p \in Orders : events'[p]["Created"] = events[p]["Created"]
  BY <1>8 DEF EventKinds
<1>15. UntrackedHaveNoHistory'
  <2>1. \A p \in Orders \ started : saved'[p] = NotSaved
    BY <1>saved DEF StoreInv, UntrackedHaveNoHistory, StoreTypeOK
  <2>2. \A p \in Orders \ started, k \in EventKinds : events'[p][k] = events[p][k]
    BY <1>8
  <2> QED
    BY <2>1, <2>2 DEF StoreInv, UntrackedHaveNoHistory
<1>16. ReportedFillsHeld'
  BY <1>1, <1>2, <1>3, <1>5 DEF StoreInv, ReportedFillsHeld, AllOrders, StoreTypeOK
<1>17. FillReportedOnce'
  BY DEF StoreInv, FillReportedOnce
<1>18. \A p \in active, t \in Trades : fillEvents[p][t] > 0 => t \in order'[p].fills
  BY <1>1, <1>2, <1>3 DEF StoreInv, ReportedFillsHeld, AllOrders, StoreTypeOK
<1>19. SavedFillsComplete'
  BY <1>3, <1>10, <1>18 DEF StoreInv, SavedFillsComplete
<1>20. CreatedIsPast'
  <2>1. \A p \in Orders : order'[p].state = "PENDING_CREATE" => order[p].state = "PENDING_CREATE"
    BY <1>1, <1>3, <1>6 DEF StoreInv, StoreTypeOK
  <2> QED
    BY <1>saved, <1>created, <2>1 DEF StoreInv, CreatedIsPast
<1>21. CreatedReportedOnce'
  BY <1>8 DEF StoreInv, CreatedReportedOnce, EventKinds
<1>22. CreatedOrderIsSaved'
  <2> SUFFICES ASSUME NEW p \in active', events'[p]["Created"] > 0, ~IsDone(order'[p])
               PROVE  saved'[p] # NotSaved
    BY DEF CreatedOrderIsSaved
  <2>1. p \in active /\ p # o /\ p \in Orders
    BY <1>3 DEF StoreInv, StoreTypeOK
  <2>2. order'[p] = order[p] /\ order[p] \in Order /\ events[p]["Created"] > 0
    BY <1>1, <1>3, <1>created, <2>1 DEF StoreInv, StoreTypeOK
  <2>3. CASE events[o]["Created"] > 0
    BY <1>3, <1>11, <2>1, <2>2, <2>3, NotSavedAssumption
  <2>4. CASE ~(events[o]["Created"] > 0)
    BY <1>3, <2>1, <2>2, <2>4 DEF StoreInv, CreatedOrderIsSaved
  <2> QED
    BY <2>3, <2>4
<1>23. \A p \in Orders : p # o => Terminals(p)' = Terminals(p)
  BY <1>8 DEF Terminals, EventKinds
<1>24. ActiveOrderUnreported'
  BY <1>3, <1>23 DEF StoreInv, ActiveOrderUnreported, StoreTypeOK
<1> QED
  BY <1>13, <1>14, <1>15, <1>16, <1>17, <1>19, <1>20, <1>21, <1>22, <1>24 DEF StoreInv

(* So every order update keeps it. *)
LEMMA ApplyPreserves ==
  ASSUME StoreInv, NEW u \in OrderUpdate, u.order \in started,
         UNCHANGED <<started, fillEvents, restarts>>,
         ApplyOrderUpdate(u)
  PROVE  StoreInv'
<1> DEFINE new == UpdateWithOrderUpdate(order[u.order], u.newState, u.hasExchangeId)
<1>1. CASE ApplyNoChange(u, new)
  <2>1. UNCHANGED <<order, started, active, cached, events, fillEvents, saved, restarts>>
    BY <1>1 DEF ApplyNoChange
  <2> QED
    BY <2>1 DEF StoreInv, StoreTypeOK, ActiveOrdersAreOpen, UntrackedHaveNoHistory,
        ReportedFillsHeld, FillReportedOnce, SavedFillsComplete, CreatedIsPast,
        CreatedReportedOnce, CreatedOrderIsSaved, ActiveOrderUnreported, AllOrders, Terminals
<1>2. CASE ApplyOpen(u, new)
  BY <1>2, ApplyOpenPreserves
<1>3. CASE ApplyTerminal(u, new)
  BY <1>3, ApplyTerminalPreserves
<1> QED
  BY <1>1, <1>2, <1>3 DEF ApplyOrderUpdate

(* Trade updates keep the invariant of the store: a trade that is already   *)
(* among the fills is not reported again.                                   *)
LEMMA TradePreserves ==
  ASSUME StoreInv, NEW o \in started, NEW T \in SUBSET Trades,
         ProcessTradeUpdates(o, T),
         UNCHANGED <<started, active, cached, events, restarts>>
  PROVE  StoreInv'
<1> DEFINE new   == UpdateWithTradeUpdates(order[o], T)
           fresh == T \ order[o].fills
<1>1. o \in Orders /\ order[o] \in Order
  BY DEF StoreInv, StoreTypeOK
<1>2. /\ new \in Order
      /\ new.state = order[o].state
      /\ new.fills = order[o].fills \cup T
      /\ new.amount = order[o].amount
      /\ new.executed = order[o].executed + FillAmount[fresh]
  BY <1>1, TradeUpdateType
<1>3. CASE UNCHANGED <<order, fillEvents, saved>>
  BY <1>3 DEF StoreInv, StoreTypeOK, ActiveOrdersAreOpen, UntrackedHaveNoHistory,
      ReportedFillsHeld, FillReportedOnce, SavedFillsComplete, CreatedIsPast,
      CreatedReportedOnce, CreatedOrderIsSaved, ActiveOrderUnreported, AllOrders, Terminals
<1>4. CASE /\ o \in AllOrders
           /\ order' = [order EXCEPT ![o] = new]
           /\ fillEvents' = [fillEvents EXCEPT
                ![o] = [t \in Trades |-> IF t \in fresh THEN fillEvents[o][t] + 1 ELSE fillEvents[o][t]]]
           /\ saved' = TrackingStates(order')
  <2> HIDE DEF new
  <2>1. order' \in [Orders -> Order]
    BY <1>1, <1>2, <1>4 DEF StoreInv, StoreTypeOK
  <2>2. \A t \in fresh : fillEvents[o][t] = 0
    BY <1>1, <1>4 DEF StoreInv, ReportedFillsHeld, StoreTypeOK
  <2>3. \A p \in Orders, t \in Trades :
          fillEvents'[p][t] = IF p = o /\ t \in fresh THEN 1 ELSE fillEvents[p][t]
    BY <1>1, <1>4, <2>2 DEF StoreInv, StoreTypeOK
  <2>4. fillEvents' \in [Orders -> [Trades -> Nat]]
    BY <1>1, <1>4 DEF StoreInv, StoreTypeOK
  <2>5. saved' \in [Orders -> Order \cup {NotSaved}]
    BY <1>1, <1>4, <2>1, TrackingStatesType
  <2>6. \A p \in Orders : saved'[p] # NotSaved =>
          p \in active /\ saved'[p] = order'[p]
    BY <1>4, <2>1, TrackingStatesType
  <2>7. \A p \in active : ~IsDone(order'[p]) => saved'[p] = order'[p]
    BY <1>4, <2>1, TrackingStatesType DEF StoreInv, StoreTypeOK
  <2>8. StoreTypeOK'
    BY <2>1, <2>4, <2>5 DEF StoreInv, StoreTypeOK
  <2>9. ActiveOrdersAreOpen'
    BY <1>1, <1>2, <1>4, <2>1 DEF StoreInv, ActiveOrdersAreOpen, StoreTypeOK, IsOpen
  <2>10. UntrackedHaveNoHistory'
    BY <2>3, <2>6 DEF StoreInv, UntrackedHaveNoHistory, StoreTypeOK
  <2>11. ReportedFillsHeld'
    BY <1>1, <1>2, <1>4, <2>3 DEF StoreInv, ReportedFillsHeld, AllOrders, StoreTypeOK
  <2>12. FillReportedOnce'
    BY <2>3 DEF StoreInv, FillReportedOnce
  <2>13. SavedFillsComplete'
    BY <2>6, <2>11 DEF SavedFillsComplete, ReportedFillsHeld, AllOrders
  <2>14. CreatedIsPast'
    BY <1>1, <1>2, <1>4, <2>6 DEF StoreInv, CreatedIsPast, StoreTypeOK
  <2>15. CreatedReportedOnce'
    BY DEF StoreInv, CreatedReportedOnce
  <2>16. CreatedOrderIsSaved'
    BY <2>1, <2>7, NotSavedAssumption DEF CreatedOrderIsSaved, StoreInv, StoreTypeOK
  <2>17. ActiveOrderUnreported'
    BY DEF StoreInv, ActiveOrderUnreported, Terminals
  <2> QED
    BY <2>8, <2>9, <2>10, <2>11, <2>12, <2>13, <2>14, <2>15, <2>16, <2>17 DEF StoreInv
<1> QED
  BY <1>3, <1>4 DEF ProcessTradeUpdates, AddFills, AddsNoFill

-----------------------------------------------------------------------------
(* Lemmas about the actions. *)

(* Only a handler's own order update is scheduled. *)
LEMMA MayScheduleType ==
  ASSUME ready \in Seq(OrderUpdate), MaySchedule
  PROVE  ready' \in Seq(OrderUpdate)
BY DEF MaySchedule, ScheduleUpdate, ProcessOrderUpdate

(* A step that leaves the store alone keeps its invariant. *)
LEMMA StoreUnchanged ==
  ASSUME StoreInv, UNCHANGED <<order, started, active, cached, events, fillEvents, saved, restarts>>
  PROVE  StoreInv'
BY DEF StoreInv, StoreTypeOK, ActiveOrdersAreOpen, UntrackedHaveNoHistory,
       ReportedFillsHeld, FillReportedOnce, SavedFillsComplete, CreatedIsPast,
       CreatedReportedOnce, CreatedOrderIsSaved, ActiveOrderUnreported, AllOrders, Terminals

(* Starting to track a fresh client id. *)
LEMMA StartPreserves ==
  ASSUME IInv, NEW o \in Orders, NEW amount \in Amounts, Start(o, amount)
  PROVE  IInv'
<1>1. /\ o \notin started
      /\ order' = [order EXCEPT ![o] = NewOrder(amount)]
      /\ started' = started \cup {o}
      /\ active' = active \cup {o}
      /\ MaySchedule
      /\ UNCHANGED <<cached, notFound, waiting, events, fillEvents, saved, restarts>>
  BY DEF Start, StartTrackingOrder, history
<1>2. NewOrder(amount) \in Order /\ IsOpen(NewOrder(amount))
  BY NewOrderType
<1>3. \A k \in EventKinds : events[o][k] = 0
  BY <1>1 DEF IInv, StoreInv, UntrackedHaveNoHistory
<1>4. \A t \in Trades : fillEvents[o][t] = 0
  BY <1>1 DEF IInv, StoreInv, UntrackedHaveNoHistory
<1>5. StoreTypeOK'
  BY <1>1, <1>2 DEF IInv, StoreInv, StoreTypeOK
<1>6. ActiveOrdersAreOpen'
  BY <1>1, <1>2 DEF IInv, StoreInv, StoreTypeOK, ActiveOrdersAreOpen
<1>7. UntrackedHaveNoHistory'
  BY <1>1 DEF IInv, StoreInv, UntrackedHaveNoHistory
<1>8. ReportedFillsHeld'
  BY <1>1, <1>4 DEF IInv, StoreInv, StoreTypeOK, ReportedFillsHeld, AllOrders
<1>9. FillReportedOnce' /\ SavedFillsComplete' /\ CreatedReportedOnce'
  BY <1>1 DEF IInv, StoreInv, FillReportedOnce, SavedFillsComplete, CreatedReportedOnce
<1>10. CreatedIsPast'
  BY <1>1, <1>3 DEF IInv, StoreInv, StoreTypeOK, CreatedIsPast, EventKinds
<1>11. CreatedOrderIsSaved'
  BY <1>1, <1>3 DEF IInv, StoreInv, StoreTypeOK, CreatedOrderIsSaved, EventKinds
<1>12. ActiveOrderUnreported'
  BY <1>1, <1>3 DEF IInv, StoreInv, ActiveOrderUnreported, Terminals, EventKinds
<1>13. QueueTypeOK' /\ ParkedAreTracked'
  BY <1>1, MayScheduleType DEF IInv, QueueTypeOK, ParkedAreTracked
<1> QED
  BY <1>5, <1>6, <1>7, <1>8, <1>9, <1>10, <1>11, <1>12, <1>13 DEF IInv, StoreInv

(* Running the update at the head of the queue. *)
LEMMA RunPreserves ==
  ASSUME IInv, RunOrderUpdate
  PROVE  IInv'
<1> DEFINE u == Head(ready)
<1>1. u \in OrderUpdate /\ ready' \in Seq(OrderUpdate)
  BY DEF IInv, QueueTypeOK, RunOrderUpdate
<1>2. UNCHANGED <<started, notFound, waiting, fillEvents, restarts>>
  BY DEF RunOrderUpdate
<1>3. StoreInv'
  <2>1. CASE Fetches(u) /\ ApplyOrderUpdate(u)
    <3>1. u.order \in started
      BY <2>1 DEF Fetches, AllOrders, IInv, StoreInv, StoreTypeOK
    <3> QED
      BY <1>1, <1>2, <2>1, <3>1, ApplyPreserves DEF IInv
  <2>2. CASE UNCHANGED <<order, active, cached, events, saved>>
    BY <1>2, <2>2, StoreUnchanged DEF IInv
  <2> QED
    BY <2>1, <2>2 DEF RunOrderUpdate
<1>4. QueueTypeOK' /\ ParkedAreTracked'
  BY <1>1, <1>2 DEF IInv, QueueTypeOK, ParkedAreTracked
<1> QED
  BY <1>3, <1>4 DEF IInv

(* Parking a FILLED update: its order is tracked when it parks. *)
LEMMA ParkPreserves ==
  ASSUME IInv, ParkOrderUpdate
  PROVE  IInv'
<1> DEFINE u == Head(ready)
<1>1. u \in OrderUpdate /\ ready' \in Seq(OrderUpdate)
  BY DEF IInv, QueueTypeOK, ParkOrderUpdate
<1>2. /\ waiting' = [waiting EXCEPT ![u] = waiting[u] + 1]
      /\ UNCHANGED <<order, started, active, cached, notFound, events, fillEvents, saved, restarts>>
  BY DEF ParkOrderUpdate, history
<1>3. u \in FilledUpdate /\ u.order \in started
  BY <1>1 DEF ParkOrderUpdate, MustWait, Fetches, FilledUpdate, AllOrders, IInv, StoreInv, StoreTypeOK
<1>4. StoreInv'
  BY <1>2, StoreUnchanged DEF IInv
<1>5. QueueTypeOK' /\ ParkedAreTracked'
  BY <1>1, <1>2, <1>3 DEF IInv, QueueTypeOK, ParkedAreTracked
<1> QED
  BY <1>4, <1>5 DEF IInv

(* The second half of a parked update. *)
LEMMA ResumePreserves ==
  ASSUME IInv, NEW u \in FilledUpdate, Resume(u)
  PROVE  IInv'
<1>1. /\ waiting[u] > 0
      /\ waiting' = [waiting EXCEPT ![u] = waiting[u] - 1]
      /\ ApplyOrderUpdate(u)
      /\ UNCHANGED <<started, notFound, ready, fillEvents, restarts>>
  BY DEF Resume
<1>2. u \in OrderUpdate /\ u.order \in started
  BY <1>1 DEF FilledUpdate, IInv, ParkedAreTracked
<1>3. StoreInv'
  BY <1>1, <1>2, ApplyPreserves DEF IInv
<1>4. QueueTypeOK' /\ ParkedAreTracked'
  BY <1>1, <1>2 DEF IInv, QueueTypeOK, ParkedAreTracked
<1> QED
  BY <1>3, <1>4 DEF IInv

(* A not-found answer, which may fail the order on the spot. *)
LEMMA NotFoundPreserves ==
  ASSUME IInv, NEW o \in Orders, NotFound(o)
  PROVE  IInv'
<1> DEFINE u == ClientUpdate(o, "FAILED", FALSE)
<1>1. /\ o \in active
      /\ notFound' = [notFound EXCEPT
           ![o] = IF notFound[o] > NotFoundLimit THEN notFound[o] ELSE notFound[o] + 1]
      /\ ApplyOrderUpdate(u) \/ UNCHANGED <<order, active, cached, events, saved>>
      /\ UNCHANGED <<started, ready, waiting, fillEvents, restarts>>
  BY DEF NotFound, ProcessOrderNotFound
<1>2. u \in OrderUpdate /\ u.order = o
  BY DEF ClientUpdate, OrderUpdate
<1>3. o \in started
  BY <1>1 DEF IInv, StoreInv, StoreTypeOK
<1>4. StoreInv'
  <2>1. CASE ApplyOrderUpdate(u)
    BY <1>1, <1>2, <1>3, <2>1, ApplyPreserves DEF IInv
  <2>2. CASE UNCHANGED <<order, active, cached, events, saved>>
    BY <1>1, <2>2, StoreUnchanged DEF IInv
  <2> QED
    BY <1>1, <2>1, <2>2
<1>5. QueueTypeOK' /\ ParkedAreTracked'
  BY <1>1 DEF IInv, QueueTypeOK, ParkedAreTracked
<1> QED
  BY <1>4, <1>5 DEF IInv

(* Eviction from the cache only makes an order unreachable. *)
LEMMA EvictPreserves ==
  ASSUME IInv, NEW o \in Orders, Evict(o)
  PROVE  IInv'
<1>1. /\ cached' = cached \ {o}
      /\ UNCHANGED <<order, started, active, notFound, ready, waiting, events, fillEvents, saved, restarts>>
  BY DEF Evict, history
<1>2. StoreTypeOK' /\ ActiveOrdersAreOpen' /\ ReportedFillsHeld'
  BY <1>1 DEF IInv, StoreInv, StoreTypeOK, ActiveOrdersAreOpen, ReportedFillsHeld, AllOrders
<1>3. /\ UntrackedHaveNoHistory' /\ FillReportedOnce' /\ SavedFillsComplete'
      /\ CreatedIsPast' /\ CreatedReportedOnce' /\ CreatedOrderIsSaved' /\ ActiveOrderUnreported'
  BY <1>1 DEF IInv, StoreInv, UntrackedHaveNoHistory, FillReportedOnce, SavedFillsComplete,
              CreatedIsPast, CreatedReportedOnce, CreatedOrderIsSaved, ActiveOrderUnreported, Terminals
<1>4. QueueTypeOK' /\ ParkedAreTracked'
  BY <1>1 DEF IInv, QueueTypeOK, ParkedAreTracked
<1> QED
  BY <1>2, <1>3, <1>4 DEF IInv, StoreInv

(* A save at any time records the active orders as they are. *)
LEMMA SavePreserves ==
  ASSUME IInv, SaveMarketStates
  PROVE  IInv'
<1>1. /\ saved' = TrackingStates(order)
      /\ UNCHANGED <<order, started, active, cached, notFound, ready, waiting, events, fillEvents, restarts>>
  BY DEF SaveMarketStates, tracker, history
<1>2. order \in [Orders -> Order]
  BY DEF IInv, StoreInv, StoreTypeOK
<1>3. \A o \in Orders : saved'[o] # NotSaved => o \in active /\ saved'[o] = order[o]
  BY <1>1, <1>2, TrackingStatesType
<1>4. \A o \in active : ~IsDone(order[o]) => saved'[o] = order[o]
  BY <1>1, <1>2, TrackingStatesType DEF IInv, StoreInv, StoreTypeOK
<1>5. StoreTypeOK'
  <2>1. CASE Orders = {}
    BY <1>1, <1>2, <2>1 DEF IInv, StoreInv, StoreTypeOK, TrackingStates
  <2>2. CASE Orders # {}
    BY <1>1, <1>2, <2>2, TrackingStatesType DEF IInv, StoreInv, StoreTypeOK
  <2> QED
    BY <2>1, <2>2
<1>6. UntrackedHaveNoHistory'
  BY <1>1, <1>3 DEF IInv, StoreInv, StoreTypeOK, UntrackedHaveNoHistory
<1>7. SavedFillsComplete' /\ CreatedIsPast'
  BY <1>1, <1>3 DEF IInv, StoreInv, SavedFillsComplete, CreatedIsPast, ReportedFillsHeld, AllOrders
<1>8. CreatedOrderIsSaved'
  BY <1>1, <1>2, <1>4, NotSavedAssumption DEF IInv, StoreInv, StoreTypeOK, CreatedOrderIsSaved
<1>9. /\ ActiveOrdersAreOpen' /\ ReportedFillsHeld' /\ FillReportedOnce'
      /\ CreatedReportedOnce' /\ ActiveOrderUnreported'
  BY <1>1 DEF IInv, StoreInv, ActiveOrdersAreOpen, ReportedFillsHeld, FillReportedOnce,
              CreatedReportedOnce, ActiveOrderUnreported, AllOrders, Terminals
<1>10. QueueTypeOK' /\ ParkedAreTracked'
  BY <1>1 DEF IInv, QueueTypeOK, ParkedAreTracked
<1> QED
  BY <1>5, <1>6, <1>7, <1>8, <1>9, <1>10 DEF IInv, StoreInv

(* A restart: the saved orders hold every reported fill and do not look new *)
(* if their creation was reported.                                          *)
LEMMA RestartPreserves ==
  ASSUME IInv, Restart
  PROVE  IInv'
<1>1. /\ order' = [o \in Orders |-> IF saved[o] # NotSaved THEN saved[o] ELSE order[o]]
      /\ active' = {o \in Orders : saved[o] # NotSaved /\ IsOpen(saved[o])}
      /\ restarts' = restarts + 1
      /\ cached' = {}
      /\ notFound' = [o \in Orders |-> 0]
      /\ ready' = <<>>
      /\ waiting' = [u \in FilledUpdate |-> 0]
      /\ UNCHANGED <<started, events, fillEvents, saved>>
  BY DEF Restart, RestoreTrackingStates, history
<1>2. active' \subseteq started
  BY <1>1 DEF IInv, StoreInv, UntrackedHaveNoHistory
<1>3. restarts' \in Nat /\ restarts' # 0
  BY <1>1 DEF IInv, StoreInv, StoreTypeOK
<1>4. StoreTypeOK'
  BY <1>1, <1>2, <1>3 DEF IInv, StoreInv, StoreTypeOK
<1>5. ActiveOrdersAreOpen'
  BY <1>1 DEF ActiveOrdersAreOpen
<1>6. UntrackedHaveNoHistory' /\ FillReportedOnce' /\ SavedFillsComplete' /\ CreatedReportedOnce'
  BY <1>1 DEF IInv, StoreInv, UntrackedHaveNoHistory, FillReportedOnce, SavedFillsComplete, CreatedReportedOnce
<1>7. ReportedFillsHeld'
  BY <1>1 DEF IInv, StoreInv, SavedFillsComplete, ReportedFillsHeld, AllOrders
<1>8. CreatedIsPast'
  BY <1>1 DEF IInv, StoreInv, CreatedIsPast
<1>9. CreatedOrderIsSaved'
  BY <1>1 DEF CreatedOrderIsSaved
<1>10. ActiveOrderUnreported'
  BY <1>3 DEF ActiveOrderUnreported
<1>11. QueueTypeOK' /\ ParkedAreTracked'
  BY <1>1 DEF QueueTypeOK, ParkedAreTracked
<1> QED
  BY <1>4, <1>5, <1>6, <1>7, <1>8, <1>9, <1>10, <1>11 DEF IInv, StoreInv

-----------------------------------------------------------------------------
(* The invariant is inductive. *)

(* The strengthening holds when the process starts for the first time. *)
LEMMA InitIInv == ASSUME Init PROVE IInv
<1>1. (CHOOSE a \in Amounts : TRUE) \in Amounts
  BY AmountsAssumption
<1>2. StoreTypeOK
  BY <1>1, NewOrderType DEF Init, StoreTypeOK
<1>3. /\ ActiveOrdersAreOpen /\ UntrackedHaveNoHistory /\ ReportedFillsHeld
      /\ FillReportedOnce /\ SavedFillsComplete /\ CreatedIsPast
  BY DEF Init, ActiveOrdersAreOpen, UntrackedHaveNoHistory, ReportedFillsHeld, FillReportedOnce,
         SavedFillsComplete, CreatedIsPast, AllOrders, EventKinds
<1>4. CreatedReportedOnce /\ CreatedOrderIsSaved /\ ActiveOrderUnreported
  BY DEF Init, CreatedReportedOnce, CreatedOrderIsSaved, ActiveOrderUnreported, EventKinds
<1>5. QueueTypeOK /\ ParkedAreTracked
  BY DEF Init, QueueTypeOK, ParkedAreTracked
<1> QED
  BY <1>2, <1>3, <1>4, <1>5 DEF IInv, StoreInv

(* Every step keeps the strengthening: one case per action of the tracker. *)
LEMMA NextIInv == ASSUME IInv, [Next]_vars PROVE IInv'
<1>1. CASE \E o \in Orders, amount \in Amounts : Start(o, amount)
  BY <1>1, StartPreserves
<1>2. ASSUME NEW o \in Orders, NEW T \in SUBSET Trades, Trade(o, T) PROVE IInv'
  <2>1. /\ o \in started
        /\ ProcessTradeUpdates(o, T)
        /\ MaySchedule
        /\ UNCHANGED <<started, active, cached, notFound, waiting, events, restarts>>
    BY <1>2 DEF Trade
  <2>2. StoreInv'
    BY <2>1, TradePreserves DEF IInv
  <2>3. QueueTypeOK' /\ ParkedAreTracked'
    BY <2>1, MayScheduleType DEF IInv, QueueTypeOK, ParkedAreTracked
  <2> QED
    BY <2>2, <2>3 DEF IInv
<1>3. CASE Update
  <2>1. MaySchedule /\ UNCHANGED <<order, started, active, cached, notFound, waiting,
                                   events, fillEvents, saved, restarts>>
    BY <1>3 DEF Update, history
  <2>2. StoreInv'
    BY <2>1, StoreUnchanged DEF IInv
  <2>3. QueueTypeOK' /\ ParkedAreTracked'
    BY <2>1, MayScheduleType DEF IInv, QueueTypeOK, ParkedAreTracked
  <2> QED
    BY <2>2, <2>3 DEF IInv
<1>4. CASE RunOrderUpdate
  BY <1>4, RunPreserves
<1>5. CASE ParkOrderUpdate
  BY <1>5, ParkPreserves
<1>6. CASE \E u \in FilledUpdate : FillsArrived(u) \/ WaitTimesOut(u)
  BY <1>6, ResumePreserves DEF FillsArrived, WaitTimesOut
<1>7. CASE \E o \in Orders : NotFound(o)
  BY <1>7, NotFoundPreserves
<1>8. CASE \E o \in Orders : Evict(o)
  BY <1>8, EvictPreserves
<1>9. CASE SaveMarketStates
  BY <1>9, SavePreserves
<1>10. CASE Restart
  BY <1>10, RestartPreserves
<1>11. CASE UNCHANGED vars
  <2>1. UNCHANGED <<order, started, active, cached, notFound, ready, waiting,
                    events, fillEvents, saved, restarts>>
    BY <1>11 DEF vars, tracker, history
  <2>2. StoreInv'
    BY <2>1, StoreUnchanged DEF IInv
  <2>3. QueueTypeOK' /\ ParkedAreTracked'
    BY <2>1 DEF IInv, QueueTypeOK, ParkedAreTracked
  <2> QED
    BY <2>2, <2>3 DEF IInv
<1> QED
  BY <1>1, <1>2, <1>3, <1>4, <1>5, <1>6, <1>7, <1>8, <1>9, <1>10, <1>11 DEF Next

-----------------------------------------------------------------------------
(* The theorems. *)

(* IInv holds in every reachable state. *)
THEOREM TrackerInvariant == Spec => []IInv
<1>1. Init => IInv
  BY InitIInv
<1>2. IInv /\ [Next]_vars => IInv'
  BY NextIInv
<1> QED
  BY <1>1, <1>2, PTL DEF Spec

(* The variables keep their types. *)
THEOREM TypeCorrect == Spec => []TypeOK
<1>1. IInv => TypeOK
  BY DEF IInv, StoreInv, StoreTypeOK, QueueTypeOK, TypeOK
<1> QED
  BY <1>1, TrackerInvariant, PTL

(* stop_tracking_order is reached by every update that closes an order. *)
THEOREM ActiveOpen == Spec => []ActiveOrdersAreOpen
<1>1. IInv => ActiveOrdersAreOpen
  BY DEF IInv, StoreInv
<1> QED
  BY <1>1, TrackerInvariant, PTL

(* OrderFilled is triggered at most once per trade, restarts included. *)
THEOREM FillOnce == Spec => []FillReportedOnce
<1>1. IInv => FillReportedOnce
  BY DEF IInv, StoreInv
<1> QED
  BY <1>1, TrackerInvariant, PTL

(* The creation of an order is reported at most once, restarts included. *)
THEOREM CreatedOnce == Spec => []CreatedReportedOnce
<1>1. IInv => CreatedReportedOnce
  BY DEF IInv, StoreInv
<1> QED
  BY <1>1, TrackerInvariant, PTL

(* The saved orders hold every trade that was reported. *)
THEOREM SavedFills == Spec => []SavedFillsComplete
<1>1. IInv => SavedFillsComplete
  BY DEF IInv, StoreInv
<1> QED
  BY <1>1, TrackerInvariant, PTL

(* An order whose creation was reported can be restored while it is open. *)
THEOREM CreatedSaved == Spec => []CreatedOrderIsSaved
<1>1. IInv => CreatedOrderIsSaved
  BY DEF IInv, StoreInv
<1> QED
  BY <1>1, TrackerInvariant, PTL

(* Until a restart, an active order has no terminal event behind it. *)
THEOREM ActiveUnreported == Spec => []ActiveOrderUnreported
<1>1. IInv => ActiveOrderUnreported
  BY DEF IInv, StoreInv
<1> QED
  BY <1>1, TrackerInvariant, PTL

-----------------------------------------------------------------------------
(* What an order update does, whatever holds of the other orders. *)

(* The step is about one order. *)
OnlyOrder(o) ==
  \A p \in Orders \ {o} :
    /\ order'[p] = order[p]
    /\ p \in active' <=> p \in active
    /\ p \in cached' <=> p \in cached
    /\ \A k \in EventKinds : events'[p][k] = events[p][k]

(* The step triggers one event of the order. *)
Triggers(o, kind) ==
  \A k \in EventKinds : events'[o][k] = IF k = kind THEN events[o][k] + 1 ELSE events[o][k]

(* The order record after an update. *)
Updated(o, u) ==
  /\ order'[o].state = u.newState
  /\ order'[o].idKnown <=> order[o].idKnown \/ u.hasExchangeId
  /\ order'[o].executed = order[o].executed
  /\ order'[o].amount = order[o].amount
  /\ order'[o].fills = order[o].fills

(* An update that changes nothing, leaves the order open or closes it. *)
LEMMA ApplyOutcome ==
  ASSUME StoreTypeOK, NEW u \in OrderUpdate, ApplyOrderUpdate(u)
  PROVE  LET o == u.order
         IN  /\ OnlyOrder(o)
             /\ Updated(o, u)
             /\ \/ /\ order' = order /\ UNCHANGED <<active, cached, events, saved>>
                \/ /\ IsOpen(order'[o])
                   /\ UNCHANGED <<active, cached>>
                   /\ \/ /\ order[o].state = "PENDING_CREATE" /\ u.newState = "OPEN"
                         /\ Triggers(o, "Created") /\ saved' = TrackingStates(order')
                      \/ /\ ~(order[o].state = "PENDING_CREATE" /\ u.newState = "OPEN")
                         /\ UNCHANGED <<events, saved>>
                \/ /\ order' # order
                   /\ ~IsOpen(order'[o])
                   /\ o \notin active'
                   /\ o \in active \/ o \in cached <=> o \in cached'
                   /\ Triggers(o, CompletionKind(order'[o]))
                   /\ \/ events[o]["Created"] > 0 /\ saved' = TrackingStates(order')
                      \/ events[o]["Created"] = 0 /\ saved' = saved
<1> DEFINE o   == u.order
           new == UpdateWithOrderUpdate(order[o], u.newState, u.hasExchangeId)
<1>1. o \in Orders /\ order[o] \in Order /\ u.hasExchangeId \in BOOLEAN
  BY OrderUpdateParts DEF StoreTypeOK
<1>2. /\ new.state = u.newState
      /\ new.executed = order[o].executed
      /\ new.amount = order[o].amount
      /\ new.fills = order[o].fills
      /\ new.idKnown <=> order[o].idKnown \/ u.hasExchangeId
  BY <1>1, OrderUpdateParts, OrderUpdateType DEF UpdateWithOrderUpdate, Order
<1>cases. ApplyNoChange(u, new) \/ ApplyOpen(u, new) \/ ApplyTerminal(u, new)
  BY DEF ApplyOrderUpdate
<1> HIDE DEF new
<1>3. \A kind \in EventKinds : Trigger(o, kind) => Triggers(o, kind)
  BY <1>1 DEF Trigger, Triggers, StoreTypeOK
<1>4. \A p \in Orders \ {o}, kind \in EventKinds, k \in EventKinds :
        Trigger(o, kind) => events'[p][k] = events[p][k]
  BY <1>1 DEF Trigger, StoreTypeOK
<1>5. order' = [order EXCEPT ![o] = new] => order'[o] = new /\ \A p \in Orders \ {o} : order'[p] = order[p]
  BY <1>1 DEF StoreTypeOK
<1>6. CASE ApplyNoChange(u, new)
  <2>1. new = order[o] /\ UNCHANGED <<order, active, cached, events, saved>>
    BY <1>6 DEF ApplyNoChange
  <2>2. OnlyOrder(o)
    BY <2>1 DEF OnlyOrder
  <2>3. Updated(o, u)
    BY <1>2, <2>1 DEF Updated
  <2> QED
    BY <2>1, <2>2, <2>3
<1>7. CASE ApplyOpen(u, new)
  <2>1. /\ IsOpen(new)
        /\ order' = [order EXCEPT ![o] = new]
        /\ UNCHANGED <<active, cached>>
        /\ \/ /\ order[o].state = "PENDING_CREATE" /\ new.state = "OPEN"
              /\ Trigger(o, "Created") /\ saved' = TrackingStates(order')
           \/ /\ ~(order[o].state = "PENDING_CREATE" /\ new.state = "OPEN")
              /\ UNCHANGED <<events, saved>>
    BY <1>7 DEF ApplyOpen
  <2>2. "Created" \in EventKinds
    BY DEF EventKinds
  <2>3. OnlyOrder(o)
    BY <1>4, <1>5, <2>1, <2>2 DEF OnlyOrder
  <2>4. Updated(o, u) /\ order'[o] = new
    BY <1>2, <1>5, <2>1 DEF Updated
  <2> QED
    BY <1>2, <1>3, <2>1, <2>2, <2>3, <2>4
<1>8. CASE ApplyTerminal(u, new)
  <2>1. /\ new # order[o]
        /\ ~IsOpen(new)
        /\ order' = [order EXCEPT ![o] = new]
        /\ Trigger(o, CompletionKind(new))
        /\ saved' = IF events[o]["Created"] > 0 THEN TrackingStates(order') ELSE saved
        /\ active' = active \ {o} /\ cached' = cached \cup (active \cap {o})
    BY <1>8 DEF ApplyTerminal, StopTrackingOrder
  <2>2. CompletionKind(new) \in EventKinds /\ "Created" \in EventKinds
    BY CompletionKindType DEF TerminalKinds, EventKinds
  <2>3. OnlyOrder(o)
    BY <1>4, <1>5, <2>1, <2>2 DEF OnlyOrder
  <2>4. Updated(o, u) /\ order'[o] = new
    BY <1>2, <1>5, <2>1 DEF Updated
  <2>5. events[o]["Created"] \in Nat
    BY <1>1, <2>2 DEF StoreTypeOK
  <2>6. \/ events[o]["Created"] > 0 /\ saved' = TrackingStates(order')
        \/ events[o]["Created"] = 0 /\ saved' = saved
    BY <2>1, <2>5
  <2>7. Triggers(o, CompletionKind(order'[o]))
    BY <1>3, <2>1, <2>2, <2>4
  <2> QED
    BY <2>1, <2>3, <2>4, <2>6, <2>7
<1> QED
  BY <1>cases, <1>6, <1>7, <1>8

(* So it keeps the types of the store. *)
LEMMA ApplyKeepsType ==
  ASSUME StoreTypeOK, NEW u \in OrderUpdate, ApplyOrderUpdate(u),
         UNCHANGED <<started, fillEvents, restarts>>
  PROVE  StoreTypeOK'
<1> DEFINE o   == u.order
           new == UpdateWithOrderUpdate(order[o], u.newState, u.hasExchangeId)
<1>1. o \in Orders /\ new \in Order
  BY OrderUpdateParts, OrderUpdateType DEF StoreTypeOK
<1>2. /\ order' = order \/ order' = [order EXCEPT ![o] = new]
      /\ active' \subseteq active /\ cached' \subseteq cached \cup active
      /\ events' = events \/ \E kind \in EventKinds : Trigger(o, kind)
      /\ saved' = saved \/ saved' = TrackingStates(order')
  BY CompletionKindType DEF ApplyOrderUpdate, ApplyNoChange, ApplyOpen, ApplyTerminal, StopTrackingOrder,
                            TerminalKinds, EventKinds
<1> HIDE DEF new
<1>3. order' \in [Orders -> Order]
  BY <1>1, <1>2 DEF StoreTypeOK
<1>4. events' \in [Orders -> [EventKinds -> Nat]]
  <2>1. ASSUME NEW kind \in EventKinds, Trigger(o, kind) PROVE events' \in [Orders -> [EventKinds -> Nat]]
    <3>1. events' = [events EXCEPT ![o][kind] = events[o][kind] + 1] /\ events[o][kind] + 1 \in Nat
      BY <1>1, <2>1 DEF Trigger, StoreTypeOK
    <3> QED
      BY <1>1, <3>1 DEF StoreTypeOK
  <2> QED
    BY <1>2, <2>1 DEF StoreTypeOK
<1>5. saved' \in [Orders -> Order \cup {NotSaved}]
  BY <1>1, <1>2, <1>3, TrackingStatesType DEF StoreTypeOK
<1> QED
  BY <1>2, <1>3, <1>4, <1>5 DEF StoreTypeOK

-----------------------------------------------------------------------------
(* An order leaves the active orders only with a terminal event or in a restart. *)

(* Triggering one terminal event counts one. *)
LEMMA TerminalCounted ==
  ASSUME StoreTypeOK, NEW o \in Orders, NEW kind \in TerminalKinds, Trigger(o, kind)
  PROVE  Terminals(o)' = Terminals(o) + 1
<1>1. events' = [events EXCEPT ![o][kind] = events[o][kind] + 1]
  BY DEF Trigger
<1>2. \A k \in EventKinds :
        events'[o][k] = IF k = kind THEN events[o][k] + 1 ELSE events[o][k]
  BY <1>1 DEF StoreTypeOK, TerminalKinds, EventKinds
<1>3. events[o]["Cancelled"] \in Nat /\ events[o]["Completed"] \in Nat /\ events[o]["Failure"] \in Nat
  BY DEF StoreTypeOK, EventKinds
<1>4. kind \in {"Cancelled", "Completed", "Failure"}
  BY DEF TerminalKinds, EventKinds
<1> QED
  BY <1>2, <1>3, <1>4 DEF Terminals, EventKinds

(* The second half of _process_order_update lets an order leave the active   *)
(* orders only together with one terminal event.                            *)
LEMMA ApplyLeavesReported ==
  ASSUME StoreTypeOK, NEW u \in OrderUpdate, ApplyOrderUpdate(u),
         NEW o \in active \ active'
  PROVE  Terminals(o)' = Terminals(o) + 1
<1> DEFINE new == UpdateWithOrderUpdate(order[u.order], u.newState, u.hasExchangeId)
<1>1. CASE ApplyNoChange(u, new) \/ ApplyOpen(u, new)
  BY <1>1 DEF ApplyNoChange, ApplyOpen
<1>2. CASE ApplyTerminal(u, new)
  <2>1. o = u.order /\ Trigger(o, CompletionKind(new))
    BY <1>2 DEF ApplyTerminal, StopTrackingOrder
  <2>2. o \in Orders
    BY DEF StoreTypeOK
  <2> QED
    BY <2>1, <2>2, CompletionKindType, TerminalCounted
<1> QED
  BY <1>1, <1>2 DEF ApplyOrderUpdate

(* stop_tracking_order is only reached through _trigger_order_completion, so *)
(* no order leaves the active orders without one terminal event, but for a  *)
(* restart.                                                                 *)
THEOREM LeavesReported == Spec => LeavesActiveReported
<1>1. IInv /\ [Next]_vars =>
        [\A o \in active \ active' : Terminals(o)' = Terminals(o) + 1 \/ Restart]_vars
  <2> SUFFICES ASSUME IInv, Next, ~Restart, NEW o \in active \ active'
               PROVE  Terminals(o)' = Terminals(o) + 1
    OBVIOUS
  <2>0. StoreTypeOK /\ QueueTypeOK
    BY DEF IInv, StoreInv
  <2>1. CASE RunOrderUpdate
    <3>1. Head(ready) \in OrderUpdate /\ ApplyOrderUpdate(Head(ready))
      BY <2>0, <2>1 DEF RunOrderUpdate, QueueTypeOK
    <3> QED
      BY <2>0, <3>1, ApplyLeavesReported
  <2>2. CASE \E u \in FilledUpdate : FillsArrived(u) \/ WaitTimesOut(u)
    <3>1. PICK u \in FilledUpdate : ApplyOrderUpdate(u)
      BY <2>2 DEF FillsArrived, WaitTimesOut, Resume
    <3> QED
      BY <2>0, <3>1, ApplyLeavesReported DEF FilledUpdate
  <2>3. CASE \E p \in Orders : NotFound(p)
    <3>1. PICK p \in Orders : ApplyOrderUpdate(ClientUpdate(p, "FAILED", FALSE))
      BY <2>3 DEF NotFound, ProcessOrderNotFound
    <3>2. ClientUpdate(p, "FAILED", FALSE) \in OrderUpdate
      BY DEF ClientUpdate, OrderUpdate
    <3> QED
      BY <2>0, <3>1, <3>2, ApplyLeavesReported
  <2>4. CASE \/ \E p \in Orders, amount \in Amounts : Start(p, amount)
             \/ \E p \in Orders, T \in SUBSET Trades : Trade(p, T)
             \/ Update
             \/ ParkOrderUpdate
             \/ \E p \in Orders : Evict(p)
             \/ SaveMarketStates
    BY <2>4 DEF Start, StartTrackingOrder, Trade, Update, ParkOrderUpdate, Evict, SaveMarketStates, tracker
  <2> QED
    BY <2>1, <2>2, <2>3, <2>4 DEF Next
<1> QED
  BY <1>1, TrackerInvariant, PTL DEF Spec, LeavesActiveReported

-----------------------------------------------------------------------------
(* The executed amount is the sum of the distinct fills. *)

Sums(ord) == ord.executed = FillAmount[ord.fills]

(* The inductive form: in the database as well as in memory. *)
ExecutedInv ==
  \A o \in Orders : Sums(order[o]) /\ (saved[o] # NotSaved => Sums(saved[o]))

(* How a step may change orders and their saved states: by keeping the sum. *)
KeepsSums ==
  \A o \in Orders :
    /\ Sums(order[o]) => Sums(order'[o]) \/ (saved[o] # NotSaved /\ order'[o] = saved[o])
    /\ saved'[o] # NotSaved => saved'[o] \in {saved[o], order'[o]}

(* Adding trades to an order keeps the sum: only the fresh ones are added. *)
LEMMA TradeUpdateSums ==
  ASSUME NEW ord \in Order, NEW T \in SUBSET Trades, Sums(ord)
  PROVE  Sums(UpdateWithTradeUpdates(ord, T))
<1> DEFINE fresh == T \ ord.fills
<1>1. /\ UpdateWithTradeUpdates(ord, T).fills = ord.fills \cup T
      /\ UpdateWithTradeUpdates(ord, T).executed = ord.executed + FillAmount[fresh]
  BY TradeUpdateType
<1>2. ord.fills \in SUBSET Trades /\ fresh \in SUBSET Trades
      /\ ord.fills \cap fresh = {} /\ ord.fills \cup fresh = ord.fills \cup T
  BY DEF Order
<1>3. FillAmount[ord.fills \cup fresh] = FillAmount[ord.fills] + FillAmount[fresh]
  BY <1>2, FillAmountAssumption
<1> QED
  BY <1>1, <1>2, <1>3 DEF Sums

(* Order updates change no fills. *)
LEMMA ApplyKeepsSums ==
  ASSUME StoreTypeOK, NEW u \in OrderUpdate, ApplyOrderUpdate(u)
  PROVE  KeepsSums
<1> DEFINE o   == u.order
           new == UpdateWithOrderUpdate(order[o], u.newState, u.hasExchangeId)
<1>1. o \in Orders /\ order[o] \in Order
  BY OrderUpdateParts DEF StoreTypeOK
<1>2. new \in Order /\ new.fills = order[o].fills /\ new.executed = order[o].executed
  BY <1>1, OrderUpdateParts, OrderUpdateType
<1>3. order' = order \/ order' = [order EXCEPT ![o] = new]
  BY DEF ApplyOrderUpdate, ApplyNoChange, ApplyOpen, ApplyTerminal
<1>4. saved' = saved \/ saved' = TrackingStates(order')
  BY DEF ApplyOrderUpdate, ApplyNoChange, ApplyOpen, ApplyTerminal
<1> HIDE DEF new
<1>5. order' \in [Orders -> Order]
  BY <1>1, <1>2, <1>3 DEF StoreTypeOK
<1>6. \A p \in Orders : Sums(order[p]) => Sums(order'[p])
  BY <1>1, <1>2, <1>3 DEF Sums, StoreTypeOK
<1>7. \A p \in Orders : saved'[p] # NotSaved => saved'[p] \in {saved[p], order'[p]}
  BY <1>4, <1>5, TrackingStatesType
<1> QED
  BY <1>6, <1>7 DEF KeepsSums

(* update_with_trade_update adds the amounts of the new trades only. *)
LEMMA TradeKeepsSums ==
  ASSUME StoreTypeOK, NEW o \in started, NEW T \in SUBSET Trades, ProcessTradeUpdates(o, T)
  PROVE  KeepsSums
<1> DEFINE new == UpdateWithTradeUpdates(order[o], T)
<1>1. o \in Orders /\ order[o] \in Order
  BY DEF StoreTypeOK
<1>2. new \in Order /\ (Sums(order[o]) => Sums(new))
  BY <1>1, TradeUpdateType, TradeUpdateSums
<1>3. \/ order' = order /\ saved' = saved
      \/ order' = [order EXCEPT ![o] = new] /\ saved' = TrackingStates(order')
  BY DEF ProcessTradeUpdates, AddFills, AddsNoFill
<1> HIDE DEF new
<1>4. order' \in [Orders -> Order]
  BY <1>1, <1>2, <1>3 DEF StoreTypeOK
<1>5. \A p \in Orders : Sums(order[p]) => Sums(order'[p])
  BY <1>1, <1>2, <1>3 DEF StoreTypeOK
<1>6. \A p \in Orders : saved'[p] # NotSaved => saved'[p] \in {saved[p], order'[p]}
  BY <1>3, <1>4, TrackingStatesType
<1> QED
  BY <1>5, <1>6 DEF KeepsSums

(* Every step keeps the sums, in memory and in the database. *)
LEMMA NextKeepsSums == ASSUME IInv, [Next]_vars PROVE KeepsSums
<1>0. StoreTypeOK /\ QueueTypeOK
  BY DEF IInv, StoreInv
<1>1. CASE \E o \in Orders, amount \in Amounts : Start(o, amount)
  <2>1. PICK o \in Orders, amount \in Amounts :
          order' = [order EXCEPT ![o] = NewOrder(amount)] /\ saved' = saved
    BY <1>1 DEF Start, StartTrackingOrder
  <2>2. Sums(NewOrder(amount))
    BY FillAmountAssumption DEF Sums, NewOrder
  <2> QED
    BY <1>0, <2>1, <2>2 DEF KeepsSums, StoreTypeOK
<1>2. CASE \E o \in Orders, T \in SUBSET Trades : Trade(o, T)
  BY <1>0, <1>2, TradeKeepsSums DEF Trade
<1>3. CASE RunOrderUpdate
  <2>1. CASE ApplyOrderUpdate(Head(ready))
    <3>1. Head(ready) \in OrderUpdate
      BY <1>0, <1>3 DEF RunOrderUpdate, QueueTypeOK
    <3> QED
      BY <1>0, <2>1, <3>1, ApplyKeepsSums
  <2>2. CASE UNCHANGED <<order, saved>>
    BY <2>2 DEF KeepsSums
  <2> QED
    BY <1>3, <2>1, <2>2 DEF RunOrderUpdate
<1>4. CASE \E u \in FilledUpdate : FillsArrived(u) \/ WaitTimesOut(u)
  BY <1>0, <1>4, ApplyKeepsSums DEF FillsArrived, WaitTimesOut, Resume, FilledUpdate
<1>5. CASE \E o \in Orders : NotFound(o)
  <2>1. PICK o \in Orders :
          ApplyOrderUpdate(ClientUpdate(o, "FAILED", FALSE)) \/ UNCHANGED <<order, saved>>
    BY <1>5 DEF NotFound, ProcessOrderNotFound
  <2>2. ClientUpdate(o, "FAILED", FALSE) \in OrderUpdate
    BY DEF ClientUpdate, OrderUpdate
  <2>3. CASE ApplyOrderUpdate(ClientUpdate(o, "FAILED", FALSE))
    BY <1>0, <2>2, <2>3, ApplyKeepsSums
  <2>4. CASE UNCHANGED <<order, saved>>
    BY <2>4 DEF KeepsSums
  <2> QED
    BY <2>1, <2>3, <2>4
<1>6. CASE SaveMarketStates
  <2>1. order' = order /\ saved' = TrackingStates(order)
    BY <1>6 DEF SaveMarketStates, tracker
  <2> QED
    BY <1>0, <2>1, TrackingStatesType DEF KeepsSums, StoreTypeOK
<1>7. CASE Restart
  <2>1. /\ saved' = saved
        /\ order' = [o \in Orders |-> IF saved[o] # NotSaved THEN saved[o] ELSE order[o]]
    BY <1>7 DEF Restart, RestoreTrackingStates
  <2> QED
    BY <2>1 DEF KeepsSums
<1>8. CASE UNCHANGED <<order, saved>>
  BY <1>8 DEF KeepsSums
<1>9. CASE Update \/ ParkOrderUpdate \/ (\E o \in Orders : Evict(o)) \/ UNCHANGED vars
  BY <1>8, <1>9 DEF Update, ParkOrderUpdate, Evict, vars, tracker
<1> QED
  BY <1>1, <1>2, <1>3, <1>4, <1>5, <1>6, <1>7, <1>9 DEF Next

LEMMA InitSums == ASSUME Init PROVE ExecutedInv
<1> SUFFICES ASSUME NEW o \in Orders
             PROVE  Sums(order[o]) /\ saved[o] = NotSaved
  BY DEF ExecutedInv
<1>1. order[o] = NewOrder(CHOOSE a \in Amounts : TRUE) /\ saved[o] = NotSaved
  BY DEF Init
<1>2. order[o].executed = 0 /\ order[o].fills = {}
  BY <1>1 DEF NewOrder
<1> QED
  BY <1>1, <1>2, FillAmountAssumption DEF Sums

LEMMA NextSums == ASSUME IInv, ExecutedInv, [Next]_vars PROVE ExecutedInv'
BY NextKeepsSums DEF ExecutedInv, KeepsSums

(* The executed amount of every order is the sum of its distinct fills. *)
THEOREM ExecutedSum == Spec => []ExecutedIsSumOfFills
<1>1. Init => ExecutedInv
  BY InitSums
<1>2. IInv /\ ExecutedInv /\ [Next]_vars => ExecutedInv'
  BY NextSums
<1>3. IInv /\ ExecutedInv => ExecutedIsSumOfFills
  BY DEF ExecutedInv, ExecutedIsSumOfFills, Sums, IInv, StoreInv, StoreTypeOK
<1> QED
  BY <1>1, <1>2, <1>3, TrackerInvariant, PTL DEF Spec

-----------------------------------------------------------------------------
(* A completion with missing fills follows a timeout or an earlier end. *)

(* What an order update that reports a completion of o tells. *)
LEMMA CompletionOfUpdate ==
  ASSUME StoreTypeOK, NEW u \in OrderUpdate, ApplyOrderUpdate(u),
         NEW o \in Orders, events'[o]["Completed"] > events[o]["Completed"]
  PROVE  /\ u.order = o
         /\ order'[o].amount = order[o].amount /\ order'[o].executed = order[o].executed
         /\ u.newState = "FILLED" \/ order'[o].executed >= order'[o].amount
<1> DEFINE new  == UpdateWithOrderUpdate(order[u.order], u.newState, u.hasExchangeId)
           kind == CompletionKind(new)
<1>1. u.order \in Orders /\ order[u.order] \in Order
  BY OrderUpdateParts DEF StoreTypeOK
<1>2. /\ new \in Order
      /\ new.state = u.newState
      /\ new.executed = order[u.order].executed
      /\ new.amount = order[u.order].amount
  BY <1>1, OrderUpdateParts, OrderUpdateType
<1>3. events[o]["Completed"] \in Nat
  BY DEF StoreTypeOK, EventKinds
<1>4. CASE ApplyNoChange(u, new) \/ ApplyOpen(u, new)
  <2>1. events'[o]["Completed"] = events[o]["Completed"]
    BY <1>1, <1>4 DEF ApplyNoChange, ApplyOpen, Trigger, StoreTypeOK, EventKinds
  <2> QED
    BY <1>3, <2>1
<1>5. CASE ApplyTerminal(u, new)
  <2>1. /\ order' = [order EXCEPT ![u.order] = new]
        /\ events' = [events EXCEPT ![u.order][kind] = events[u.order][kind] + 1]
    BY <1>5 DEF ApplyTerminal, Trigger
  <2>2. kind \in EventKinds
    BY CompletionKindType DEF TerminalKinds
  <2>3. u.order = o /\ kind = "Completed"
    <3>1. CASE u.order # o \/ kind # "Completed"
      <4>1. events'[o]["Completed"] = events[o]["Completed"]
        BY <1>1, <2>1, <2>2, <3>1 DEF StoreTypeOK, EventKinds
      <4> QED
        BY <1>3, <4>1
    <3> QED
      BY <3>1
  <2>4. IsFilled(new)
    BY <2>3 DEF CompletionKind
  <2>5. order'[o] = new
    BY <1>1, <2>1, <2>3 DEF StoreTypeOK
  <2> QED
    BY <1>2, <2>3, <2>4, <2>5 DEF IsFilled
<1> QED
  BY <1>4, <1>5 DEF ApplyOrderUpdate

(* _trigger_order_completion reports a completion without the fills only    *)
(* after a timed-out wait or for an order that had been closed before.      *)
THEOREM CompletionFills == Spec => CompletionHasFills
<1> DEFINE Justified(o) ==
             \/ order'[o].executed >= order'[o].amount
             \/ ~IsOpen(order[o])
             \/ \E u \in FilledUpdate : u.order = o /\ WaitTimesOut(u)
<1>1. IInv /\ [Next]_vars =>
        [\A o \in Orders : events'[o]["Completed"] > events[o]["Completed"] => Justified(o)]_vars
  <2> SUFFICES ASSUME IInv, Next, NEW o \in Orders,
                      events'[o]["Completed"] > events[o]["Completed"]
               PROVE  Justified(o)
    OBVIOUS
  <2>0. StoreTypeOK /\ QueueTypeOK /\ order[o] \in Order /\ events[o]["Completed"] \in Nat
    BY DEF IInv, StoreInv, StoreTypeOK, EventKinds
  <2>1. CASE RunOrderUpdate
    <3> DEFINE u == Head(ready)
    <3>1. u \in OrderUpdate /\ ApplyOrderUpdate(u) /\ ~MustWait(u)
      BY <2>0, <2>1 DEF RunOrderUpdate, QueueTypeOK
    <3>2. CASE order'[o].executed >= order'[o].amount
      BY <3>2
    <3>3. CASE ~(order'[o].executed >= order'[o].amount)
      <4>1. /\ u.order = o /\ u.newState = "FILLED"
            /\ order'[o].amount = order[o].amount /\ order'[o].executed = order[o].executed
        BY <2>0, <3>1, <3>3, CompletionOfUpdate
      <4>2. IsDone(order[o]) /\ ~(order[o].executed >= order[o].amount)
        BY <3>1, <3>3, <4>1 DEF MustWait
      <4>3. order[o].state \in {"CANCELED", "FILLED", "FAILED"}
        BY <4>2 DEF IsDone
      <4> QED
        BY <4>3 DEF IsOpen
    <3> QED
      BY <3>2, <3>3
  <2>2. CASE \E u \in FilledUpdate : FillsArrived(u)
    <3>1. PICK u \in FilledUpdate : FillsArrived(u)
      BY <2>2
    <3>2. u \in OrderUpdate /\ ApplyOrderUpdate(u) /\ CompletelyFilled(order[u.order])
      BY <3>1 DEF FillsArrived, Resume, FilledUpdate
    <3>3. /\ u.order = o
          /\ order'[o].amount = order[o].amount /\ order'[o].executed = order[o].executed
      BY <2>0, <3>2, CompletionOfUpdate
    <3> QED
      BY <3>2, <3>3 DEF CompletelyFilled
  <2>3. CASE \E u \in FilledUpdate : WaitTimesOut(u)
    <3>1. PICK u \in FilledUpdate : WaitTimesOut(u)
      BY <2>3
    <3>2. u \in OrderUpdate /\ ApplyOrderUpdate(u)
      BY <3>1 DEF WaitTimesOut, Resume, FilledUpdate
    <3>3. u.order = o
      BY <2>0, <3>2, CompletionOfUpdate
    <3> QED
      BY <3>1, <3>3
  <2>4. CASE \E p \in Orders : NotFound(p)
    <3>1. PICK p \in Orders : ApplyOrderUpdate(ClientUpdate(p, "FAILED", FALSE)) \/ events' = events
      BY <2>4 DEF NotFound, ProcessOrderNotFound
    <3>2. ~(events' = events)
      BY <2>0
    <3>3. ClientUpdate(p, "FAILED", FALSE) \in OrderUpdate
          /\ ClientUpdate(p, "FAILED", FALSE).newState # "FILLED"
      BY DEF ClientUpdate, OrderUpdate
    <3> QED
      BY <2>0, <3>1, <3>2, <3>3, CompletionOfUpdate
  <2>5. CASE \/ \E p \in Orders, amount \in Amounts : Start(p, amount)
             \/ \E p \in Orders, T \in SUBSET Trades : Trade(p, T)
             \/ Update
             \/ ParkOrderUpdate
             \/ \E p \in Orders : Evict(p)
             \/ SaveMarketStates
             \/ Restart
    <3>1. events' = events
      BY <2>5 DEF Start, Trade, Update, ParkOrderUpdate, Evict, SaveMarketStates, Restart, history
    <3> QED
      BY <2>0, <3>1
  <2> QED
    BY <2>1, <2>2, <2>3, <2>4, <2>5 DEF Next
<1> QED
  BY <1>1, TrackerInvariant, PTL DEF Spec, CompletionHasFills
=============================================================================
