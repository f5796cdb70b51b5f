------------------------ MODULE BinanceExchange_proofs ------------------------
(***************************************************************************)
(* Proofs about BinanceExchange, for any orders, trades and bounds, and    *)
(* whatever the network loses.                                             *)
(*                                                                         *)
(* A fill that the poll reports past the tracker breaks the tracker's      *)
(* invariant, so the connector's own invariant does not rest on it: it     *)
(* relates each order object, its saved state and every message under way  *)
(* to what the exchange did.                                               *)
(***************************************************************************)
EXTENDS BinanceExchange, ClientOrderTracker_proofs

-----------------------------------------------------------------------------
(* The inductive invariant. *)

Reports == [order : Orders, trade : SUBSET Trades, status : Status]

Polls == [phase : {"idle", "trades", "status"}, asked : SUBSET Trades,
          mapped : BOOLEAN, status : Status \cup {"none", "ABSENT"}]

TasksTypeOK ==
  /\ market \in [Orders -> Status \cup {"ABSENT"}]
  /\ trades \in [Orders -> SUBSET Trades]
  /\ recent \in [Orders -> SUBSET Trades]
  /\ request \subseteq started
  /\ creating \subseteq started
  /\ stream \in Seq(Reports)
  /\ cancelling \in [Orders -> SUBSET {"requested", "cancelled"}]
  /\ poll \in [Orders -> [Rounds -> Polls]]
  /\ direct \in [Orders -> [Trades -> Nat]]
  /\ faults \in 0..MaxFaults

(* An order object holds trades of the exchange, each of them once. *)
Holds(o, ord) == ord.fills \subseteq trades[o] /\ Sums(ord)

(* The exchange and what the connector may learn of an order. *)
MarketSound(o) ==
  /\ market[o] # "ABSENT" => o \in started
  /\ market[o] = "ABSENT" => trades[o] = {}
  /\ o \in request => market[o] = "ABSENT" /\ order[o].amount > 0
  /\ market[o] \notin {"ABSENT", "FILLED"} => FillAmount[trades[o]] < order[o].amount
  /\ recent[o] \subseteq trades[o]
  /\ \A r \in Rounds : poll[o][r].asked \subseteq trades[o]
  /\ Holds(o, order[o])
  /\ saved[o] # NotSaved => Holds(o, saved[o]) /\ saved[o].amount = order[o].amount

(* The tracker's maps and the database. *)
StoreSound(o) ==
  /\ o \notin started => saved[o] = NotSaved /\ events[o]["Created"] = 0
  /\ o \in active => IsOpen(order[o]) /\ (saved[o] # NotSaved => IsOpen(saved[o]))
  /\ o \in active /\ events[o]["Created"] > 0 /\ ~IsDone(order[o]) => saved[o] # NotSaved

(* What was reported of an order: its end is what happened at the exchange, *)
(* and an order that is or may become live was not dropped in silence.      *)
ReportSound(o) ==
  /\ events[o]["Created"] > 0   => market[o] # "ABSENT"
  /\ events[o]["Cancelled"] > 0 => market[o] = "CANCELED"
  /\ events[o]["Completed"] > 0 => market[o] = "FILLED"
  /\ o \in started /\ (market[o] = "NEW" \/ o \in request) =>
       \/ o \in active
       \/ events[o]["Failure"] > 0
       \/ restarts > 0 /\ events[o]["Created"] = 0 /\ o \notin cached

OrderSound(o) == MarketSound(o) /\ StoreSound(o) /\ ReportSound(o)

(* What is said of an order is true, and stays so. *)
Confirmed(o, status) ==
  /\ market[o] # "ABSENT"
  /\ status \in {"CANCELED", "FILLED"} => market[o] = status

(* An execution report, and an order update. *)
ReportOK(m) ==
  /\ m.order \in started
  /\ m.trade \subseteq trades[m.order]
  /\ Confirmed(m.order, m.status)
UpdateOK(u) == u.newState # "FAILED" => Confirmed(u.order, u.newState)

StreamSound == \A i \in 1..Len(stream) : ReportOK(stream[i])
QueueSound ==
  /\ \A i \in 1..Len(ready) : UpdateOK(ready[i])
  /\ \A u \in FilledUpdate : waiting[u] > 0 => UpdateOK(u)

(* The answers under way. *)
AnswerOK(o, q) ==
  /\ q.phase = "trades" => o \in started
  /\ q.status \in Status => Confirmed(o, q.status)

AnswersSound ==
  \A o \in Orders :
    /\ "cancelled" \in cancelling[o] => market[o] = "CANCELED"
    /\ \A r \in Rounds : AnswerOK(o, poll[o][r])

MessagesSound == StreamSound /\ QueueSound /\ AnswersSound

ExchangeInv ==
  /\ StoreTypeOK /\ QueueTypeOK /\ TasksTypeOK
  /\ \A o \in Orders : OrderSound(o)
  /\ MessagesSound

-----------------------------------------------------------------------------
(* Lemmas about amounts and messages. *)

(* More trades are a larger amount. *)
LEMMA FillAmountMonotone ==
  ASSUME NEW T2 \in SUBSET Trades, NEW T1 \in SUBSET T2
  PROVE  FillAmount[T1] \in Nat /\ FillAmount[T2] \in Nat /\ FillAmount[T1] <= FillAmount[T2]
<1>1. T1 \in SUBSET Trades /\ T2 \ T1 \in SUBSET Trades /\ T1 \cap (T2 \ T1) = {} /\ T1 \cup (T2 \ T1) = T2
  OBVIOUS
<1>2. FillAmount[T1 \cup (T2 \ T1)] = FillAmount[T1] + FillAmount[T2 \ T1]
  BY <1>1, FillAmountAssumption
<1>3. FillAmount[T1] \in Nat /\ FillAmount[T2] \in Nat /\ FillAmount[T2 \ T1] \in Nat
  BY <1>1, FillAmountAssumption
<1> QED
  BY <1>1, <1>2, <1>3

(* How the exchange and the orders go on. *)
Moves ==
  /\ started \subseteq started'
  /\ \A o \in Orders :
       /\ market[o] # "ABSENT" => market'[o] # "ABSENT"
       /\ market[o] \in {"CANCELED", "FILLED"} => market'[o] = market[o]
       /\ trades[o] \subseteq trades'[o]

(* So what is said of an order stays true. *)
LEMMA ConfirmedStays ==
  ASSUME Moves, NEW o \in Orders, NEW status, Confirmed(o, status)
  PROVE  Confirmed(o, status)'
BY DEF Moves, Confirmed

LEMMA UpdateOKStays ==
  ASSUME Moves, NEW u \in OrderUpdate, UpdateOK(u)
  PROVE  UpdateOK(u)'
BY ConfirmedStays, OrderUpdateParts DEF UpdateOK

LEMMA ReportOKStays ==
  ASSUME Moves, NEW m \in Reports, ReportOK(m)
  PROVE  ReportOK(m)'
<1>1. m.order \in Orders
  BY DEF Reports
<1>2. Confirmed(m.order, m.status)'
  BY <1>1, ConfirmedStays DEF ReportOK
<1> QED
  BY <1>1, <1>2 DEF ReportOK, Moves

(* The stream loses messages, hands out its first or takes a new one. *)
LEMMA StreamStays ==
  ASSUME ExchangeInv, Moves,
         \/ stream' \in {stream, <<>>}
         \/ stream # <<>> /\ stream' = Tail(stream)
         \/ \E m \in Reports : stream' = Append(stream, m) /\ ReportOK(m)'
  PROVE  stream' \in Seq(Reports) /\ StreamSound'
<1>0. stream \in Seq(Reports)
  BY DEF ExchangeInv, TasksTypeOK
<1>1. ASSUME NEW j \in 1..Len(stream) PROVE \E m \in Reports : m = stream[j] /\ ReportOK(m)'
  <2>1. PICK m \in Reports : m = stream[j]
    BY <1>0
  <2>2. ReportOK(m)
    BY <2>1 DEF ExchangeInv, MessagesSound, StreamSound
  <2> QED
    BY <2>1, <2>2, ReportOKStays
<1>2. ASSUME NEW i \in 1..Len(stream')
      PROVE  \E m \in Reports : m = stream'[i] /\ ReportOK(m)'
  <2>1. CASE \E j \in 1..Len(stream) : stream'[i] = stream[j]
    BY <1>1, <2>1
  <2>2. CASE stream' = <<>>
    BY <2>2
  <2>3. CASE stream # <<>> /\ stream' = Tail(stream)
    <3>1. i + 1 \in 1..Len(stream) /\ stream'[i] = stream[i + 1]
      BY <1>0, <2>3
    <3> QED
      BY <1>1, <3>1
  <2>4. ASSUME NEW m \in Reports, stream' = Append(stream, m), ReportOK(m)'
        PROVE  \E n \in Reports : n = stream'[i] /\ ReportOK(n)'
    <3>1. stream'[i] = m \/ (i \in 1..Len(stream) /\ stream'[i] = stream[i])
      BY <1>0, <2>4
    <3> QED
      BY <1>1, <2>4, <3>1
  <2> QED
    BY <2>1, <2>2, <2>3, <2>4
<1>3. StreamSound'
  <2> SUFFICES ASSUME NEW i \in 1..Len(stream') PROVE ReportOK(stream[i])'
    BY DEF StreamSound
  <2>1. PICK m \in Reports : m = stream'[i] /\ ReportOK(m)'
    BY <1>2
  <2> QED
    BY <2>1 DEF ReportOK
<1>4. stream' \in Seq(Reports)
  <2>1. CASE stream' \in {stream, <<>>}
    <3>1. <<>> \in Seq(Reports)
      OBVIOUS
    <3>2. stream' = stream \/ stream' = <<>>
      BY <2>1
    <3> QED
      BY <1>0, <3>1, <3>2
  <2>2. CASE stream # <<>> /\ stream' = Tail(stream)
    BY <1>0, <2>2
  <2>3. ASSUME NEW m \in Reports, stream' = Append(stream, m) PROVE stream' \in Seq(Reports)
    BY <1>0, <2>3
  <2> QED
    BY <2>1, <2>2, <2>3
<1> QED
  BY <1>3, <1>4

(* The same of the queue of order updates. *)
LEMMA QueueStays ==
  ASSUME ExchangeInv, Moves, \A u \in FilledUpdate : waiting'[u] > 0 => waiting[u] > 0 \/ UpdateOK(u),
         \/ ready' \in {ready, <<>>}
         \/ ready # <<>> /\ ready' = Tail(ready)
         \/ \E u \in OrderUpdate : ready' = Append(ready, u) /\ UpdateOK(u)
  PROVE  ready' \in Seq(OrderUpdate) /\ QueueSound'
<1>0. ready \in Seq(OrderUpdate)
  BY DEF ExchangeInv, QueueTypeOK
<1>1. ASSUME NEW i \in 1..Len(ready')
      PROVE  \E u \in OrderUpdate : u = ready'[i] /\ UpdateOK(u)
  <2>1. ASSUME NEW j \in 1..Len(ready) PROVE \E u \in OrderUpdate : u = ready[j] /\ UpdateOK(u)
    BY <1>0 DEF ExchangeInv, MessagesSound, QueueSound
  <2>2. CASE \E j \in 1..Len(ready) : ready'[i] = ready[j]
    BY <2>1, <2>2
  <2>3. CASE ready' = <<>>
    BY <2>3
  <2>4. CASE ready # <<>> /\ ready' = Tail(ready)
    <3>1. i + 1 \in 1..Len(ready) /\ ready'[i] = ready[i + 1]
      BY <1>0, <2>4
    <3> QED
      BY <2>1, <3>1
  <2>5. ASSUME NEW u \in OrderUpdate, ready' = Append(ready, u), UpdateOK(u)
        PROVE  \E v \in OrderUpdate : v = ready'[i] /\ UpdateOK(v)
    <3>1. ready'[i] = u \/ (i \in 1..Len(ready) /\ ready'[i] = ready[i])
      BY <1>0, <2>5
    <3> QED
      BY <2>1, <2>5, <3>1
  <2> QED
    BY <2>2, <2>3, <2>4, <2>5
<1>2. \A i \in 1..Len(ready') : UpdateOK(ready[i])'
  <2> SUFFICES ASSUME NEW i \in 1..Len(ready') PROVE UpdateOK(ready[i])'
    OBVIOUS
  <2>1. PICK u \in OrderUpdate : u = ready'[i] /\ UpdateOK(u)
    BY <1>1
  <2>2. UpdateOK(u)'
    BY <2>1, UpdateOKStays
  <2> QED
    BY <2>1, <2>2 DEF UpdateOK
<1>3. ASSUME NEW u \in FilledUpdate, waiting'[u] > 0 PROVE UpdateOK(u)'
  <2>1. u \in OrderUpdate /\ UpdateOK(u)
    BY <1>3 DEF FilledUpdate, ExchangeInv, MessagesSound, QueueSound
  <2> QED
    BY <2>1, UpdateOKStays
<1>4. QueueSound'
  BY <1>2, <1>3 DEF QueueSound
<1>5. ready' \in Seq(OrderUpdate)
  <2>1. CASE ready' \in {ready, <<>>}
    <3>1. <<>> \in Seq(OrderUpdate)
      OBVIOUS
    <3>2. ready' = ready \/ ready' = <<>>
      BY <2>1
    <3> QED
      BY <1>0, <3>1, <3>2
  <2>2. CASE ready # <<>> /\ ready' = Tail(ready)
    BY <1>0, <2>2
  <2>3. ASSUME NEW u \in OrderUpdate, ready' = Append(ready, u) PROVE ready' \in Seq(OrderUpdate)
    BY <1>0, <2>3
  <2> QED
    BY <2>1, <2>2, <2>3
<1> QED
  BY <1>4, <1>5

-----------------------------------------------------------------------------
(* What each kind of step does to the orders. *)

(* What the poll may ask for are trades of the exchange. *)
AsksForTrades ==
  \A o \in Orders : /\ recent'[o] \subseteq trades[o]
                    /\ \A r \in Rounds : poll'[o][r].asked \subseteq trades[o]

ExchangeStill == UNCHANGED <<market, trades, request>>
StoreStill == UNCHANGED <<order, started, active, cached, events, fillEvents, saved, restarts>>

(* A step that leaves the exchange and the orders alone. *)
LEMMA OrdersStay ==
  ASSUME ExchangeInv, StoreStill, ExchangeStill, AsksForTrades
  PROVE  StoreTypeOK' /\ (\A o \in Orders : OrderSound(o)') /\ Moves
<1>1. StoreTypeOK' /\ Moves
  BY DEF StoreStill, ExchangeStill, StoreTypeOK, ExchangeInv, Moves
<1>2. ASSUME NEW o \in Orders PROVE OrderSound(o)'
  <2>1. OrderSound(o)
    BY DEF ExchangeInv
  <2>2. MarketSound(o)'
    BY <2>1 DEF OrderSound, MarketSound, Holds, Sums, StoreStill, ExchangeStill, AsksForTrades
  <2>3. StoreSound(o)' /\ ReportSound(o)'
    BY <2>1 DEF OrderSound, StoreSound, ReportSound, StoreStill, ExchangeStill
  <2> QED
    BY <2>2, <2>3 DEF OrderSound
<1> QED
  BY <1>1, <1>2

(* An order update reaches its order. *)
LEMMA UpdateSound ==
  ASSUME ExchangeInv, ExchangeStill, AsksForTrades, UNCHANGED <<started, fillEvents, restarts>>,
         NEW u \in OrderUpdate, UpdateOK(u), ApplyOrderUpdate(u),
         u.newState = "OPEN" => u.order \in AllOrders
  PROVE  StoreTypeOK' /\ (\A o \in Orders : OrderSound(o)') /\ Moves
<1> DEFINE o == u.order
<1>0. StoreTypeOK /\ StoreTypeOK' /\ o \in Orders
  BY ApplyKeepsType, OrderUpdateParts DEF ExchangeInv
<1>1. Moves
  BY DEF ExchangeStill, Moves
<1>2. OnlyOrder(o) /\ Updated(o, u) /\ (saved' = saved \/ saved' = TrackingStates(order'))
  BY <1>0, ApplyOutcome
<1>3. ASSUME NEW p \in Orders
      PROVE  /\ order'[p].fills = order[p].fills /\ order'[p].executed = order[p].executed
             /\ order'[p].amount = order[p].amount
  <2>1. CASE p = o
    BY <1>2, <2>1 DEF Updated
  <2>2. CASE p # o
    BY <1>2, <2>2 DEF OnlyOrder
  <2> QED
    BY <2>1, <2>2
<1>4. ASSUME NEW p \in Orders
      PROVE  /\ saved'[p] = saved[p] \/ saved'[p] = NotSaved \/ (p \in active /\ saved'[p] = order'[p])
             /\ saved' = TrackingStates(order') /\ p \in active /\ ~IsDone(order'[p]) => saved'[p] # NotSaved
  <2>1. order' \in [Orders -> Order]
    BY <1>0 DEF StoreTypeOK
  <2> QED
    BY <1>2, <2>1, TrackingStatesType, NotSavedAssumption
<1>5. ASSUME NEW p \in Orders PROVE MarketSound(p)'
  <2>1. MarketSound(p)
    BY DEF ExchangeInv, OrderSound
  <2> QED
    BY <1>3, <1>4, <2>1 DEF MarketSound, Holds, Sums, ExchangeStill, AsksForTrades
<1>6. ASSUME NEW p \in Orders, p # o PROVE StoreSound(p)' /\ ReportSound(p)'
  <2>1. StoreSound(p) /\ ReportSound(p)
    BY DEF ExchangeInv, OrderSound
  <2>2. /\ order'[p] = order[p] /\ (p \in active' <=> p \in active) /\ (p \in cached' <=> p \in cached)
        /\ \A k \in EventKinds : events'[p][k] = events[p][k]
    BY <1>2, <1>6 DEF OnlyOrder
  <2>3. p \in active => p \in started
    BY <1>0 DEF StoreTypeOK
  <2>4. StoreSound(p)'
    BY <1>2, <1>4, <2>1, <2>2, <2>3 DEF StoreSound, EventKinds
  <2>5. ReportSound(p)'
    BY <2>1, <2>2 DEF ReportSound, ExchangeStill, EventKinds
  <2> QED
    BY <2>4, <2>5
<1>7. StoreSound(o) /\ MarketSound(o) /\ ReportSound(o)
      /\ order[o] \in Order /\ order'[o] \in Order /\ trades[o] \in SUBSET Trades
      /\ \A k \in EventKinds : events[o][k] \in Nat
  BY <1>0 DEF ExchangeInv, OrderSound, StoreTypeOK, TasksTypeOK
<1>8. u.newState # "FAILED" => Confirmed(o, u.newState)
  BY DEF UpdateOK
<1>9. ASSUME UNCHANGED <<order, active, cached, events, saved>>
      PROVE  StoreSound(o)' /\ ReportSound(o)'
  BY <1>7, <1>9 DEF StoreSound, ReportSound, ExchangeStill
<1>10. ASSUME IsOpen(order'[o]), UNCHANGED <<active, cached, events, saved>>
       PROVE  StoreSound(o)' /\ ReportSound(o)'
  <2>1. o \in active => (IsDone(order'[o]) <=> IsDone(order[o]))
    BY <1>2, <1>7, <1>10 DEF StoreSound, IsDone, IsOpen, Updated
  <2> QED
    BY <1>7, <1>10, <2>1 DEF StoreSound, ReportSound, ExchangeStill
<1>11. ASSUME IsOpen(order'[o]), UNCHANGED <<active, cached>>, u.newState = "OPEN",
              Triggers(o, "Created"), saved' = TrackingStates(order')
       PROVE  StoreSound(o)' /\ ReportSound(o)'
  <2>1. market[o] # "ABSENT"
    BY <1>8, <1>11 DEF Confirmed
  <2>2. o \in started /\ o \notin request /\ o \in active \cup cached
    BY <1>7, <1>11, <2>1 DEF MarketSound, AllOrders
  <2>3. \A k \in {"Cancelled", "Completed", "Failure"} : events'[o][k] = events[o][k]
    BY <1>11 DEF Triggers, EventKinds
  <2>4. StoreSound(o)'
    BY <1>0, <1>4, <1>7, <1>11, <2>2 DEF StoreSound
  <2>5. ReportSound(o)'
    BY <1>7, <1>11, <2>1, <2>2, <2>3 DEF ReportSound, ExchangeStill
  <2> QED
    BY <2>4, <2>5
<1>12. ASSUME ~IsOpen(order'[o]), o \notin active',
              Triggers(o, CompletionKind(order'[o])), saved' = TrackingStates(order') \/ saved' = saved
       PROVE  StoreSound(o)' /\ ReportSound(o)'
  <2> DEFINE kind == CompletionKind(order'[o])
  <2>0. /\ kind \in EventKinds /\ kind # "Created"
        /\ kind = "Cancelled" => order'[o].state = "CANCELED"
        /\ kind = "Completed" => IsFilled(order'[o])
    BY CompletionKindType DEF CompletionKind, IsCancelled, TerminalKinds, EventKinds
  <2>1. kind = "Cancelled" => market[o] = "CANCELED"
    BY <1>2, <1>8, <2>0 DEF Updated, Confirmed
  <2>2. kind = "Completed" => market[o] = "FILLED"
    <3>1. CASE order'[o].state = "FILLED"
      BY <1>2, <1>8, <3>1 DEF Updated, Confirmed
    <3>2. CASE order'[o].amount # 0 /\ order'[o].executed >= order'[o].amount
      <4>0. order[o].amount \in Nat
        BY <1>7, AmountsAssumption DEF Order
      <4>1. /\ order[o].executed = FillAmount[order[o].fills] /\ order[o].fills \subseteq trades[o]
            /\ order[o].amount \in Nat \ {0} /\ order[o].executed >= order[o].amount
        BY <1>0, <1>3, <1>7, <3>2, <4>0 DEF MarketSound, Holds, Sums
      <4>2. /\ FillAmount[order[o].fills] <= FillAmount[trades[o]]
            /\ FillAmount[order[o].fills] \in Nat /\ FillAmount[trades[o]] \in Nat
        BY <1>7, <4>1, FillAmountMonotone
      <4>3. FillAmount[trades[o]] >= order[o].amount /\ FillAmount[trades[o]] > 0
        BY <4>1, <4>2
      <4>4. trades[o] # {}
        BY <4>3, FillAmountAssumption
      <4> QED
        BY <1>7, <4>1, <4>2, <4>3, <4>4 DEF MarketSound
    <3> QED
      BY <2>0, <3>1, <3>2 DEF IsFilled
  <2>3. \A k \in EventKinds : events'[o][k] = IF k = kind THEN events[o][k] + 1 ELSE events[o][k]
    BY <1>12 DEF Triggers
  <2> HIDE DEF kind
  <2>4. /\ events'[o]["Created"] = events[o]["Created"]
        /\ events'[o]["Cancelled"] > 0 => events[o]["Cancelled"] > 0 \/ kind = "Cancelled"
        /\ events'[o]["Completed"] > 0 => events[o]["Completed"] > 0 \/ kind = "Completed"
        /\ events'[o]["Failure"] > 0 <=> events[o]["Failure"] > 0 \/ kind = "Failure"
    BY <1>7, <2>0, <2>3 DEF EventKinds
  <2>5. StoreSound(o)'
    <3>1. o \in active => o \in started
      BY <1>0 DEF StoreTypeOK
    <3> QED
      BY <1>0, <1>4, <1>7, <1>12, <2>4, <3>1 DEF StoreSound
  <2>6. ReportSound(o)'
    <3>1. kind \in {"Cancelled", "Completed", "Failure"}
      BY <2>0 DEF EventKinds
    <3>2. market[o] = "NEW" \/ o \in request => kind = "Failure"
      BY <1>7, <2>1, <2>2, <3>1 DEF MarketSound
    <3> QED
      BY <1>7, <2>1, <2>2, <2>4, <3>2 DEF ReportSound, ExchangeStill
  <2> QED
    BY <2>5, <2>6
<1>13. StoreSound(o)' /\ ReportSound(o)'
  <2>1. \/ UNCHANGED <<order, active, cached, events, saved>>
        \/ IsOpen(order'[o]) /\ UNCHANGED <<active, cached, events, saved>>
        \/ /\ IsOpen(order'[o]) /\ UNCHANGED <<active, cached>> /\ u.newState = "OPEN"
           /\ Triggers(o, "Created") /\ saved' = TrackingStates(order')
        \/ /\ ~IsOpen(order'[o]) /\ o \notin active'
           /\ Triggers(o, CompletionKind(order'[o]))
           /\ saved' = TrackingStates(order') \/ saved' = saved
    BY <1>0, ApplyOutcome
  <2> QED
    BY <1>9, <1>10, <1>11, <1>12, <2>1
<1>14. ASSUME NEW p \in Orders PROVE OrderSound(p)'
  <2>1. CASE p = o
    BY <1>5, <1>13, <2>1 DEF OrderSound
  <2>2. CASE p # o
    BY <1>5, <1>6, <2>2 DEF OrderSound
  <2> QED
    BY <2>1, <2>2
<1> QED
  BY <1>0, <1>1, <1>14

(* The orders with the trades T of o, and what the recorder may save then:   *)
(* it has a transaction for each fill.                                      *)
WithTrades(o, T) == [order EXCEPT ![o] = UpdateWithTradeUpdates(order[o], T)]

SavesFills(o, T) ==
  \/ saved' = saved
  \/ saved' = TrackingStates(order')
  \/ order' = WithTrades(o, T) /\ \E done \in SUBSET T : saved' = TrackingStates(WithTrades(o, done))

(* Saving these orders is right. *)
SavesRight(ords) ==
  /\ ords \in [Orders -> Order]
  /\ \A p \in Orders :
       /\ ords[p].state = order'[p].state /\ ords[p].amount = order'[p].amount
       /\ Holds(p, ords[p])
       /\ IsDone(ords[p]) => IsDone(order'[p])

(* Trades of the exchange reach an order, or are reported past the tracker: *)
(* the order takes the new ones, and the recorder saves or does not.        *)
LEMMA FillsSound ==
  ASSUME ExchangeInv, ExchangeStill, AsksForTrades, UNCHANGED <<started, active, cached, events, restarts>>,
         fillEvents' \in [Orders -> [Trades -> Nat]],
         NEW o \in Orders, NEW T \in SUBSET trades[o],
         order' = order \/ order' = WithTrades(o, T), SavesFills(o, T)
  PROVE  StoreTypeOK' /\ (\A p \in Orders : OrderSound(p)') /\ Moves
<1> DEFINE new == UpdateWithTradeUpdates(order[o], T)
<1>0. /\ StoreTypeOK /\ order \in [Orders -> Order] /\ order[o] \in Order
      /\ trades[o] \in SUBSET Trades /\ T \in SUBSET Trades
      /\ \A p \in Orders : OrderSound(p)
  BY DEF ExchangeInv, StoreTypeOK, TasksTypeOK
<1>1. /\ new \in Order /\ new.state = order[o].state /\ new.amount = order[o].amount
      /\ new.fills = order[o].fills \cup T
      /\ new.executed = order[o].executed + FillAmount[T \ order[o].fills]
      /\ FillAmount[T \ order[o].fills] \in Nat
  BY <1>0, TradeUpdateType, FillAmountAssumption
<1>2. Sums(order[o]) => Sums(new)
  BY <1>0, TradeUpdateSums
<1> HIDE DEF new
<1>3. order' \in [Orders -> Order] /\ \A p \in Orders : order'[p] = order[p] \/ (p = o /\ order'[p] = new)
  BY <1>0, <1>1 DEF new, WithTrades
<1>4. ASSUME NEW p \in Orders
      PROVE  /\ order'[p].state = order[p].state /\ order'[p].amount = order[p].amount
             /\ Holds(p, order'[p])
             /\ IsDone(order[p]) => IsDone(order'[p])
  <2>1. CASE order'[p] = order[p]
    BY <1>0, <2>1 DEF OrderSound, MarketSound
  <2>2. CASE p = o /\ order'[p] = new
    <3>1. Holds(o, order[o]) /\ order[o].executed \in Nat /\ order[o].amount \in Nat
      BY <1>0, AmountsAssumption DEF OrderSound, MarketSound, Order
    <3>2. Holds(o, new)
      BY <1>0, <1>1, <1>2, <3>1 DEF Holds
    <3>3. IsDone(order[o]) => IsDone(new)
      BY <1>1, <3>1 DEF IsDone
    <3> QED
      BY <1>1, <2>2, <3>2, <3>3
  <2> QED
    BY <1>3, <2>1, <2>2
<1>5. ASSUME NEW done \in SUBSET T, order' = WithTrades(o, T)
      PROVE  SavesRight(WithTrades(o, done))
  <2> DEFINE part == UpdateWithTradeUpdates(order[o], done)
  <2>1. /\ part \in Order /\ part.state = order[o].state /\ part.amount = order[o].amount
        /\ part.fills = order[o].fills \cup done
        /\ part.executed = order[o].executed + FillAmount[done \ order[o].fills]
        /\ Sums(order[o]) => Sums(part)
    BY <1>0, TradeUpdateType, TradeUpdateSums
  <2>2. /\ FillAmount[done \ order[o].fills] \in Nat
        /\ FillAmount[done \ order[o].fills] <= FillAmount[T \ order[o].fills]
    BY <1>0, FillAmountMonotone
  <2>3. WithTrades(o, done)[o] = part /\ \A p \in Orders \ {o} : WithTrades(o, done)[p] = order[p]
    BY <1>0 DEF WithTrades
  <2>4. WithTrades(o, done) \in [Orders -> Order]
    BY <1>0, <2>1 DEF WithTrades
  <2>5. order'[o] = new /\ \A p \in Orders \ {o} : order'[p] = order[p]
    BY <1>0, <1>5 DEF new, WithTrades
  <2> HIDE DEF part
  <2>6. Holds(o, part)
    BY <1>0, <2>1 DEF Holds, OrderSound, MarketSound
  <2>7. IsDone(part) => IsDone(new)
    <3>1. order[o].executed \in Nat /\ order[o].amount \in Nat
      BY <1>0, AmountsAssumption DEF Order
    <3> QED
      BY <1>1, <2>1, <2>2, <3>1 DEF IsDone
  <2>8. ASSUME NEW p \in Orders
        PROVE  /\ WithTrades(o, done)[p].state = order'[p].state
               /\ WithTrades(o, done)[p].amount = order'[p].amount
               /\ Holds(p, WithTrades(o, done)[p])
               /\ IsDone(WithTrades(o, done)[p]) => IsDone(order'[p])
    <3>1. CASE p = o
      BY <1>1, <2>1, <2>3, <2>5, <2>6, <2>7, <3>1
    <3>2. CASE p # o
      BY <1>4, <2>3, <2>5, <3>2
    <3> QED
      BY <3>1, <3>2
  <2> QED
    BY <2>4, <2>8 DEF SavesRight
<1>6. SavesRight(order')
  BY <1>3, <1>4 DEF SavesRight
<1>7. saved' = saved \/ \E ords : SavesRight(ords) /\ saved' = TrackingStates(ords)
  BY <1>5, <1>6 DEF SavesFills
<1>8. ASSUME NEW p \in Orders
      PROVE  /\ \/ saved'[p] = saved[p]
                \/ saved'[p] = NotSaved
                \/ /\ p \in active /\ Holds(p, saved'[p]) /\ saved'[p].amount = order'[p].amount
                   /\ saved'[p].state = order'[p].state
             /\ p \in active /\ ~IsDone(order'[p]) /\ saved[p] # NotSaved => saved'[p] # NotSaved
  <2>1. CASE saved' = saved
    BY <2>1
  <2>2. ASSUME NEW ords, SavesRight(ords), saved' = TrackingStates(ords)
        PROVE  /\ \/ saved'[p] = NotSaved
                  \/ /\ p \in active /\ Holds(p, saved'[p]) /\ saved'[p].amount = order'[p].amount
                     /\ saved'[p].state = order'[p].state
               /\ p \in active /\ ~IsDone(order'[p]) => saved'[p] # NotSaved
    BY <2>2, TrackingStatesType, NotSavedAssumption DEF SavesRight
  <2> QED
    BY <1>7, <2>1, <2>2
<1>9. StoreTypeOK'
  <2>1. saved' \in [Orders -> Order \cup {NotSaved}]
    BY <1>0, <1>7, TrackingStatesType DEF StoreTypeOK, SavesRight
  <2> QED
    BY <1>0, <1>3, <2>1 DEF StoreTypeOK
<1>10. ASSUME NEW p \in Orders PROVE OrderSound(p)'
  <2>1. MarketSound(p) /\ StoreSound(p) /\ ReportSound(p) /\ (p \in active => p \in started)
    BY <1>0 DEF OrderSound, StoreTypeOK
  <2>2. /\ trades'[p] = trades[p] /\ Holds(p, order'[p])
        /\ saved'[p] # NotSaved => Holds(p, saved'[p]) /\ saved'[p].amount = order'[p].amount
    BY <1>4, <1>8, <2>1 DEF MarketSound, ExchangeStill
  <2>3. MarketSound(p)'
    BY <1>4, <2>1, <2>2 DEF MarketSound, Holds, ExchangeStill, AsksForTrades
  <2>4. StoreSound(p)'
    BY <1>4, <1>8, <2>1 DEF StoreSound, IsOpen
  <2>5. ReportSound(p)'
    BY <2>1 DEF ReportSound, ExchangeStill
  <2> QED
    BY <2>3, <2>4, <2>5 DEF OrderSound
<1>11. Moves
  BY DEF Moves, ExchangeStill
<1> QED
  BY <1>9, <1>10, <1>11

(* A fresh client id is tracked. *)
LEMMA StartSound ==
  ASSUME ExchangeInv, NEW o \in Orders, NEW amount \in Amounts, StartTrackingOrder(o, amount),
         UNCHANGED <<market, trades, recent, poll>>, UNCHANGED <<cached, events, fillEvents, saved, restarts>>,
         request' = request \/ (request' = request \cup {o} /\ amount > 0)
  PROVE  StoreTypeOK' /\ (\A p \in Orders : OrderSound(p)') /\ Moves
<1>0. /\ StoreTypeOK /\ TasksTypeOK /\ order \in [Orders -> Order]
      /\ \A p \in Orders : OrderSound(p)
  BY DEF ExchangeInv, StoreTypeOK
<1>1. /\ o \notin started /\ started' = started \cup {o} /\ active' = active \cup {o}
      /\ order' = [order EXCEPT ![o] = NewOrder(amount)]
  BY DEF StartTrackingOrder
<1>2. /\ NewOrder(amount) \in Order /\ IsOpen(NewOrder(amount))
      /\ NewOrder(amount).amount = amount /\ Holds(o, NewOrder(amount))
  BY NewOrderType, FillAmountAssumption DEF NewOrder, Holds, Sums
<1>3. StoreTypeOK' /\ Moves
  BY <1>0, <1>1, <1>2 DEF StoreTypeOK, Moves
<1>4. ASSUME NEW p \in Orders, p # o PROVE OrderSound(p)'
  <2>1. order'[p] = order[p] /\ (p \in active' <=> p \in active) /\ (p \in started' <=> p \in started)
        /\ (p \in request' <=> p \in request) /\ OrderSound(p)
    BY <1>0, <1>1, <1>4
  <2> QED
    BY <2>1 DEF OrderSound, MarketSound, StoreSound, ReportSound, Holds
<1>5. OrderSound(o)'
  <2>1. order'[o] = NewOrder(amount) /\ market[o] = "ABSENT" /\ trades[o] = {} /\ saved[o] = NotSaved
        /\ events[o]["Created"] = 0 /\ OrderSound(o)
    BY <1>0, <1>1 DEF OrderSound, MarketSound, StoreSound
  <2>2. MarketSound(o)'
    <3>1. o \notin request
      BY <1>0, <1>1 DEF TasksTypeOK
    <3> QED
      BY <1>1, <1>2, <2>1, <3>1 DEF OrderSound, MarketSound, Holds
  <2>3. StoreSound(o)' /\ ReportSound(o)'
    BY <1>1, <1>2, <2>1 DEF OrderSound, StoreSound, ReportSound
  <2> QED
    BY <2>2, <2>3 DEF OrderSound
<1> QED
  BY <1>3, <1>4, <1>5

(* A restart: an order that is live and that was reported as created is in  *)
(* the database, and open there.                                            *)
LEMMA RestartSound ==
  ASSUME ExchangeInv, ConnectorRestart
  PROVE  StoreTypeOK' /\ (\A o \in Orders : OrderSound(o)') /\ Moves
<1>0. /\ StoreTypeOK /\ TasksTypeOK /\ order \in [Orders -> Order] /\ saved \in [Orders -> Order \cup {NotSaved}]
      /\ \A o \in Orders : OrderSound(o)
      /\ restarts \in Nat
  BY DEF ExchangeInv, StoreTypeOK
<1>1. /\ order' = [o \in Orders |-> IF saved[o] # NotSaved THEN saved[o] ELSE order[o]]
      /\ active' = {o \in Orders : saved[o] # NotSaved /\ IsOpen(saved[o])}
      /\ restarts' = restarts + 1 /\ cached' = {}
      /\ UNCHANGED <<started, events, fillEvents, saved>>
      /\ UNCHANGED <<market, trades, request>>
      /\ recent' = trades /\ poll' = [o \in Orders |-> [r \in Rounds |-> Idle]]
  BY DEF ConnectorRestart, Restart, RestoreTrackingStates, history, exchange
<1>2. Moves
  BY <1>1 DEF Moves
<1>3. StoreTypeOK'
  <2>1. \A o \in Orders : saved[o] # NotSaved => o \in started
    BY <1>0 DEF OrderSound, StoreSound
  <2>2. order' \in [Orders -> Order]
    BY <1>0, <1>1
  <2> QED
    BY <1>0, <1>1, <2>1, <2>2 DEF StoreTypeOK
<1>4. ASSUME NEW o \in Orders PROVE OrderSound(o)'
  <2>1. /\ order'[o] = IF saved[o] # NotSaved THEN saved[o] ELSE order[o]
        /\ order[o] \in Order /\ trades[o] \in SUBSET Trades
        /\ MarketSound(o) /\ StoreSound(o) /\ ReportSound(o)
    BY <1>0, <1>1 DEF OrderSound, TasksTypeOK
  <2>2. \A r \in Rounds : poll'[o][r].asked = {}
    BY <1>1 DEF Idle
  <2>3. MarketSound(o)'
    BY <1>1, <2>1, <2>2 DEF MarketSound, Holds
  <2>4. StoreSound(o)'
    BY <1>1, <2>1 DEF StoreSound
  <2>5. market[o] = "NEW" /\ o \in active => ~IsDone(order[o])
    <3> SUFFICES ASSUME market[o] = "NEW", o \in active PROVE ~IsDone(order[o])
      OBVIOUS
    <3>1. /\ order[o].executed = FillAmount[order[o].fills] /\ order[o].fills \subseteq trades[o]
          /\ FillAmount[trades[o]] < order[o].amount /\ order[o].amount \in Nat
      BY <2>1, AmountsAssumption DEF MarketSound, Holds, Sums, Order
    <3>2. /\ FillAmount[order[o].fills] <= FillAmount[trades[o]]
          /\ FillAmount[order[o].fills] \in Nat /\ FillAmount[trades[o]] \in Nat
      BY <2>1, <3>1, FillAmountMonotone
    <3>3. ~(order[o].executed >= order[o].amount)
      BY <3>1, <3>2
    <3> QED
      BY <2>1, <3>3 DEF StoreSound, IsOpen, IsDone
  <2>6. restarts' > 0
    BY <1>0, <1>1
  <2>7. ASSUME o \in started, market[o] = "NEW" \/ o \in request, o \in active, o \notin active', events[o]["Created"] > 0
        PROVE  FALSE
    <3>1. market[o] = "NEW"
      BY <2>1, <2>7 DEF MarketSound, ReportSound
    <3> QED
      BY <1>1, <2>1, <2>5, <2>7, <3>1 DEF StoreSound
  <2>8. events[o]["Created"] \in Nat
    BY <1>0 DEF StoreTypeOK, EventKinds
  <2>9. ReportSound(o)'
    BY <1>1, <2>1, <2>6, <2>7, <2>8 DEF ReportSound
  <2> QED
    BY <2>3, <2>4, <2>9 DEF OrderSound
<1> QED
  BY <1>2, <1>3, <1>4

-----------------------------------------------------------------------------
(* The steps of the exchange. *)

(* The answers under way stay true, and new ones are. *)
PollMoves(o, p, q) ==
  /\ q.phase = "trades" => p.phase = "trades" \/ o \in started
  /\ q.status \in Status => q.status = p.status \/ Confirmed(o, q.status)

AnswersMove ==
  \A o \in Orders :
    /\ "cancelled" \in cancelling'[o] => "cancelled" \in cancelling[o] \/ market'[o] = "CANCELED"
    /\ \A r \in Rounds : PollMoves(o, poll[o][r], poll'[o][r])

(* They do in a step that does not touch them. *)
LEMMA AnswersRest ==
  ASSUME UNCHANGED <<cancelling, poll>>
  PROVE  AnswersMove
BY DEF AnswersMove, PollMoves

LEMMA AnswersStay ==
  ASSUME ExchangeInv, Moves, AnswersMove
  PROVE  AnswersSound'
<1> SUFFICES ASSUME NEW o \in Orders
             PROVE  /\ "cancelled" \in cancelling'[o] => market'[o] = "CANCELED"
                    /\ \A r \in Rounds : AnswerOK(o, poll[o][r])'
  BY DEF AnswersSound
<1>1. "cancelled" \in cancelling'[o] => market'[o] = "CANCELED"
  BY DEF ExchangeInv, MessagesSound, AnswersSound, AnswersMove, Moves
<1>2. ASSUME NEW r \in Rounds PROVE AnswerOK(o, poll[o][r])'
  <2>1. PICK q : q = poll'[o][r]
    OBVIOUS
  <2>2. /\ q.phase = "trades" => poll[o][r].phase = "trades" \/ o \in started
        /\ q.status \in Status => q.status = poll[o][r].status \/ Confirmed(o, q.status)
        /\ AnswerOK(o, poll[o][r])
    BY <2>1 DEF AnswersMove, PollMoves, ExchangeInv, MessagesSound, AnswersSound
  <2>3. q.phase = "trades" => o \in started'
    BY <2>2 DEF AnswerOK, Moves
  <2>4. q.status \in Status => Confirmed(o, q.status)'
    <3> SUFFICES ASSUME q.status \in Status PROVE Confirmed(o, q.status)'
      OBVIOUS
    <3>1. PICK status : status = q.status
      OBVIOUS
    <3>2. Confirmed(o, status)
      BY <2>2, <3>1 DEF AnswerOK
    <3>3. Confirmed(o, status)'
      BY <3>2, ConfirmedStays
    <3> QED
      BY <3>1, <3>3
  <2> QED
    BY <2>1, <2>3, <2>4 DEF AnswerOK, Confirmed
<1> QED
  BY <1>1, <1>2

(* A step of the exchange is about one order. *)
ExchangeStep(o) ==
  /\ StoreStill /\ UNCHANGED poll
  /\ \A p \in Orders \ {o} :
       /\ market'[p] = market[p] /\ trades'[p] = trades[p] /\ recent'[p] = recent[p]
       /\ p \in request' <=> p \in request

(* It confirms more of the order, and the order was live before. *)
LEMMA ExchangeSound ==
  ASSUME ExchangeInv, NEW o \in Orders, ExchangeStep(o), MarketSound(o)',
         market[o] # "ABSENT" => market'[o] # "ABSENT",
         market[o] \in {"CANCELED", "FILLED"} => market'[o] = market[o],
         trades[o] \subseteq trades'[o],
         market'[o] = "NEW" \/ o \in request' => market[o] = "NEW" \/ o \in request
  PROVE  StoreTypeOK' /\ (\A p \in Orders : OrderSound(p)') /\ Moves
<1>1. StoreTypeOK'
  BY DEF ExchangeInv, StoreTypeOK, ExchangeStep, StoreStill
<1>2. Moves
  BY DEF Moves, ExchangeStep, StoreStill
<1>3. ASSUME NEW p \in Orders PROVE OrderSound(p)'
  <2>1. MarketSound(p) /\ StoreSound(p) /\ ReportSound(p)
    BY DEF ExchangeInv, OrderSound
  <2>2. CASE p = o
    <3>1. StoreSound(o)'
      BY <2>1, <2>2 DEF StoreSound, ExchangeStep, StoreStill
    <3>2. ReportSound(o)'
      BY <2>1, <2>2 DEF ReportSound, ExchangeStep, StoreStill
    <3> QED
      BY <2>2, <3>1, <3>2 DEF OrderSound
  <2>3. CASE p # o
    <3>1. MarketSound(p)'
      BY <2>1, <2>3 DEF MarketSound, Holds, ExchangeStep, StoreStill
    <3>2. StoreSound(p)' /\ ReportSound(p)'
      BY <2>1, <2>3 DEF StoreSound, ReportSound, ExchangeStep, StoreStill
    <3> QED
      BY <3>1, <3>2 DEF OrderSound
  <2> QED
    BY <2>2, <2>3
<1> QED
  BY <1>1, <1>2, <1>3

(* The parts of the invariant, put together again. *)
LEMMA Parts ==
  ASSUME StoreTypeOK', QueueTypeOK', TasksTypeOK', \A o \in Orders : OrderSound(o)',
         StreamSound', QueueSound', AnswersSound'
  PROVE  ExchangeInv'
<1>1. (\A o \in Orders : OrderSound(o))'
  OBVIOUS
<1> QED
  BY <1>1 DEF ExchangeInv, MessagesSound

(* The order arrives at the exchange, or is rejected. *)
LEMMA AcceptKeeps ==
  ASSUME ExchangeInv, NEW o \in Orders, ExchangeAccepts(o) \/ ExchangeRejects(o)
  PROVE  ExchangeInv'
<1>1. /\ o \in request /\ request' = request \ {o}
      /\ \/ market' = [market EXCEPT ![o] = "NEW"] /\ stream' = Append(stream, Report(o, {}, "NEW"))
         \/ market' = market /\ stream' = stream
      /\ UNCHANGED <<order, started, active, cached, notFound, ready, waiting, events, fillEvents, saved, restarts>>
      /\ UNCHANGED <<trades, creating, cancelling, poll, recent, direct, faults>>
  BY DEF ExchangeAccepts, ExchangeRejects, vars, tracker, history, connector, network
<1>2. /\ TasksTypeOK /\ MarketSound(o) /\ market \in [Orders -> Status \cup {"ABSENT"}]
      /\ o \in started /\ market[o] = "ABSENT" /\ trades[o] = {} /\ order[o].amount > 0
  BY <1>1 DEF ExchangeInv, TasksTypeOK, OrderSound, MarketSound
<1>3. ExchangeStep(o)
  BY <1>1, <1>2 DEF ExchangeStep, StoreStill
<1>4. market'[o] = "NEW" \/ market'[o] = "ABSENT"
  BY <1>1, <1>2
<1>5. MarketSound(o)'
  BY <1>1, <1>2, <1>4, FillAmountAssumption DEF MarketSound, Holds
<1>6. StoreTypeOK' /\ (\A p \in Orders : OrderSound(p)') /\ Moves
  BY <1>1, <1>2, <1>3, <1>4, <1>5, ExchangeSound
<1>7. stream' \in Seq(Reports) /\ StreamSound'
  <2>1. CASE stream' = stream
    BY <1>6, <2>1, StreamStays
  <2>2. CASE market' = [market EXCEPT ![o] = "NEW"] /\ stream' = Append(stream, Report(o, {}, "NEW"))
    <3> DEFINE m == Report(o, {}, "NEW")
    <3>1. m \in Reports /\ m.order = o /\ m.trade = {} /\ m.status = "NEW"
      BY DEF Report, Reports, Status
    <3> HIDE DEF m
    <3>2. market'[o] = "NEW"
      BY <1>2, <2>2
    <3>3. ReportOK(m)'
      BY <1>1, <1>2, <3>1, <3>2 DEF ReportOK, Confirmed
    <3>4. stream' = Append(stream, m)
      BY <2>2 DEF m
    <3> QED
      BY <1>6, <3>1, <3>3, <3>4, StreamStays
  <2> QED
    BY <1>1, <2>1, <2>2
<1>8. ready' \in Seq(OrderUpdate) /\ QueueSound'
  BY <1>1, <1>6, QueueStays
<1>9. AnswersSound'
  BY <1>1, <1>6, AnswersStay, AnswersRest
<1>10. QueueTypeOK'
  BY <1>1 DEF ExchangeInv, QueueTypeOK
<1>11. TasksTypeOK'
  BY <1>1, <1>2, <1>7 DEF TasksTypeOK, Status
<1> QED
  BY <1>6, <1>7, <1>8, <1>9, <1>10, <1>11, Parts

(* A trade happens. *)
LEMMA TradeHappensKeeps ==
  ASSUME ExchangeInv, NEW o \in Orders, NEW t \in Trades, ExchangeFills(o, t)
  PROVE  ExchangeInv'
<1> DEFINE executed == FillAmount[trades[o] \cup {t}]
           status == IF executed = order[o].amount THEN "FILLED" ELSE "PARTIALLY_FILLED"
<1>1. /\ market[o] = "NEW" /\ executed <= order[o].amount
      /\ trades' = [trades EXCEPT ![o] = trades[o] \cup {t}]
      /\ market' = [market EXCEPT ![o] = IF executed = order[o].amount THEN "FILLED" ELSE "NEW"]
      /\ recent' = [recent EXCEPT ![o] = recent[o] \cup {t}]
      /\ stream' = Append(stream, Report(o, {t}, status))
      /\ UNCHANGED <<order, started, active, cached, notFound, ready, waiting, events, fillEvents, saved, restarts>>
      /\ UNCHANGED <<request, creating, cancelling, poll, direct, faults>>
  BY DEF ExchangeFills, vars, tracker, history
<1>2. /\ TasksTypeOK /\ MarketSound(o) /\ o \in started /\ o \notin request
      /\ order[o] \in Order /\ trades[o] \in SUBSET Trades
  BY <1>1 DEF ExchangeInv, TasksTypeOK, OrderSound, MarketSound, StoreTypeOK
<1>3. /\ trades'[o] = trades[o] \cup {t} /\ recent'[o] = recent[o] \cup {t}
      /\ market'[o] = IF executed = order[o].amount THEN "FILLED" ELSE "NEW"
  BY <1>1, <1>2 DEF TasksTypeOK
<1>4. ExchangeStep(o)
  BY <1>1, <1>2 DEF ExchangeStep, StoreStill, TasksTypeOK
<1>5. executed \in Nat /\ order[o].amount \in Nat
  BY <1>2, FillAmountAssumption, AmountsAssumption DEF Order
<1>6. market'[o] \notin {"ABSENT", "FILLED"} => FillAmount[trades'[o]] < order'[o].amount
  <2>1. order' = order /\ FillAmount[trades'[o]] = executed
    BY <1>1, <1>3
  <2> HIDE DEF executed
  <2>2. market'[o] # "FILLED" => executed < order[o].amount
    BY <1>1, <1>3, <1>5
  <2> QED
    BY <2>1, <2>2
<1>7. MarketSound(o)'
  BY <1>1, <1>2, <1>3, <1>6 DEF MarketSound, Holds
<1>8. StoreTypeOK' /\ (\A p \in Orders : OrderSound(p)') /\ Moves
  BY <1>1, <1>3, <1>4, <1>7, ExchangeSound
<1>9. stream' \in Seq(Reports) /\ StreamSound'
  <2>0. PICK shown : /\ shown = status
                     /\ shown = "PARTIALLY_FILLED" \/ (shown = "FILLED" /\ market'[o] = "FILLED")
    BY <1>3
  <2> DEFINE m == Report(o, {t}, shown)
  <2>1. m \in Reports /\ m.order = o /\ m.trade = {t} /\ m.status = shown
    BY <2>0 DEF Report, Reports, Status
  <2>2. stream' = Append(stream, m)
    BY <1>1, <2>0
  <2> HIDE DEF m
  <2>3. market'[o] # "ABSENT"
    BY <1>3
  <2>4. m.order \in started' /\ m.trade \subseteq trades'[o]
    BY <1>1, <1>2, <1>3, <2>1
  <2>5. ReportOK(m)'
    BY <2>0, <2>1, <2>3, <2>4 DEF ReportOK, Confirmed
  <2> QED
    BY <1>8, <2>1, <2>2, <2>5, StreamStays
<1>10. ready' \in Seq(OrderUpdate) /\ QueueSound'
  BY <1>1, <1>8, QueueStays
<1>11. AnswersSound'
  BY <1>1, <1>8, AnswersStay, AnswersRest
<1>12. QueueTypeOK'
  BY <1>1 DEF ExchangeInv, QueueTypeOK
<1>13. TasksTypeOK'
  BY <1>1, <1>2, <1>9 DEF TasksTypeOK, Status
<1> QED
  BY <1>8, <1>9, <1>10, <1>11, <1>12, <1>13, Parts

(* Where the cancel requests of an order are. *)
Cancels == SUBSET {"requested", "cancelled"}

LEMMA CancelsFields ==
  ASSUME TasksTypeOK, NEW o \in Orders, NEW c \in Cancels, cancelling' = [cancelling EXCEPT ![o] = c]
  PROVE  /\ cancelling' \in [Orders -> Cancels]
         /\ \A p \in Orders : cancelling'[p] = IF p = o THEN c ELSE cancelling[p]
BY DEF TasksTypeOK, Cancels

(* One of them is answered. *)
LEMMA LosesOne ==
  ASSUME NEW o \in Orders, cancelling[o] \in Cancels, NEW d \in cancelling[o],
         cancelling' = [cancelling EXCEPT ![o] = @ \ {d}]
  PROVE  \E c \in Cancels : /\ cancelling' = [cancelling EXCEPT ![o] = c]
                            /\ "cancelled" \in c => "cancelled" \in cancelling[o]
<1>1. PICK c : c = cancelling[o] \ {d}
  OBVIOUS
<1> QED
  BY <1>1 DEF Cancels

(* The order is closed, on a cancel request or not. *)
LEMMA CloseKeeps ==
  ASSUME ExchangeInv, NEW o \in Orders, NEW status \in {"CANCELED", "EXPIRED"}, Closes(o, status),
         \/ UNCHANGED cancelling
         \/ status = "CANCELED" /\ \E others \in SUBSET {"requested"} :
              cancelling' = [cancelling EXCEPT ![o] = others \cup {"cancelled"}]
  PROVE  ExchangeInv'
<1>1. /\ market[o] = "NEW"
      /\ market' = [market EXCEPT ![o] = status]
      /\ stream' = Append(stream, Report(o, {}, status))
      /\ UNCHANGED <<order, started, active, cached, notFound, ready, waiting, events, fillEvents, saved, restarts>>
      /\ UNCHANGED <<trades, request, creating, poll, recent, direct, faults>>
  BY DEF Closes, vars, tracker, history
<1>2. /\ TasksTypeOK /\ MarketSound(o) /\ o \in started /\ o \notin request
  BY <1>1 DEF ExchangeInv, TasksTypeOK, OrderSound, MarketSound
<1>3. market'[o] = status
  BY <1>1, <1>2 DEF TasksTypeOK
<1>4. /\ cancelling' \in [Orders -> Cancels]
      /\ \A p \in Orders : cancelling'[p] = cancelling[p] \/ (p = o /\ status = "CANCELED")
  <2>1. CASE UNCHANGED cancelling
    BY <1>2, <2>1 DEF TasksTypeOK, Cancels
  <2>2. CASE ~UNCHANGED cancelling
    <3>1. PICK c \in Cancels : status = "CANCELED" /\ cancelling' = [cancelling EXCEPT ![o] = c]
      <4>1. PICK others \in SUBSET {"requested"} :
              status = "CANCELED" /\ cancelling' = [cancelling EXCEPT ![o] = others \cup {"cancelled"}]
        BY <2>2
      <4>2. PICK c : c = others \cup {"cancelled"}
        OBVIOUS
      <4> QED
        BY <4>1, <4>2 DEF Cancels
    <3> QED
      BY <1>2, <3>1, CancelsFields
  <2> QED
    BY <2>1, <2>2
<1>5. ExchangeStep(o)
  BY <1>1, <1>2 DEF ExchangeStep, StoreStill, TasksTypeOK
<1>6. MarketSound(o)'
  BY <1>1, <1>2, <1>3 DEF MarketSound, Holds
<1>7. StoreTypeOK' /\ (\A p \in Orders : OrderSound(p)') /\ Moves
  BY <1>1, <1>3, <1>5, <1>6, ExchangeSound
<1>8. stream' \in Seq(Reports) /\ StreamSound'
  <2> DEFINE m == Report(o, {}, status)
  <2>1. m \in Reports /\ m.order = o /\ m.trade = {} /\ m.status = status
    BY DEF Report, Reports, Status
  <2>2. stream' = Append(stream, m)
    BY <1>1
  <2> HIDE DEF m
  <2>3. ReportOK(m)'
    BY <1>1, <1>2, <1>3, <2>1 DEF ReportOK, Confirmed
  <2> QED
    BY <1>7, <2>1, <2>2, <2>3, StreamStays
<1>9. ready' \in Seq(OrderUpdate) /\ QueueSound'
  BY <1>1, <1>7, QueueStays
<1>10. AnswersSound'
  <2>1. \A p \in Orders : "cancelled" \in cancelling'[p] => "cancelled" \in cancelling[p] \/ market'[p] = "CANCELED"
    BY <1>3, <1>4
  <2>2. AnswersMove
    BY <1>1, <2>1 DEF AnswersMove, PollMoves
  <2> QED
    BY <1>7, <2>2, AnswersStay
<1>11. QueueTypeOK'
  BY <1>1 DEF ExchangeInv, QueueTypeOK
<1>12. TasksTypeOK'
  BY <1>1, <1>2, <1>8, <1>4 DEF TasksTypeOK, Status, Cancels
<1> QED
  BY <1>7, <1>8, <1>9, <1>10, <1>11, <1>12, Parts


-----------------------------------------------------------------------------
(* The tasks that only ask, or that schedule an order update. *)

(* An update is scheduled that is true. *)
Queues == ready' = ready \/ \E u \in OrderUpdate : ready' = Append(ready, u) /\ UpdateOK(u)

LEMMA ScheduleSound ==
  ASSUME NEW o \in Orders, NEW newState, NEW hasId \in BOOLEAN,
         newState # "FAILED" => Confirmed(o, newState),
         ScheduleUpdate(ClientUpdate(o, newState, hasId))
  PROVE  Queues
<1> DEFINE u == ClientUpdate(o, newState, hasId)
<1>1. u.order = o /\ u.newState = newState
  BY DEF ClientUpdate
<1>2. ready' = Append(ready, u) /\ newState \in UpdateStates
  BY <1>1 DEF ScheduleUpdate, ProcessOrderUpdate
<1>3. u \in OrderUpdate
  BY <1>2 DEF ClientUpdate, OrderUpdate
<1> HIDE DEF u
<1> QED
  BY <1>1, <1>2, <1>3 DEF Queues, UpdateOK

(* ORDER_STATE of a status says no more than the status. *)
LEMMA StateOfSound ==
  ASSUME NEW o \in Orders, NEW status \in Status, Confirmed(o, status)
  PROVE  StateOf[status] # "FAILED" => Confirmed(o, StateOf[status])
BY DEF StateOf, Status, Confirmed

(* What the exchange shows of an order it has is true. *)
LEMMA ShownConfirmed ==
  ASSUME ExchangeInv, NEW o \in Orders, ShownStatus(o) \in Status
  PROVE  Confirmed(o, ShownStatus(o))
<1>1. market[o] = "ABSENT" => ShownStatus(o) = "ABSENT"
  BY DEF ShownStatus
<1> QED
  BY <1>1 DEF ShownStatus, Confirmed, Status

LEMMA FaultType ==
  ASSUME NEW part, ExchangeInv, Fault(part)
  PROVE  faults' \in 0..MaxFaults
BY FaultsAssumption DEF Fault, ExchangeInv, TasksTypeOK

TaskStep ==
  /\ StoreStill /\ ExchangeStill /\ AsksForTrades /\ Queues
  /\ UNCHANGED <<notFound, waiting, direct>>
  /\ stream' \in {stream, <<>>}
  /\ creating' \subseteq creating
  /\ cancelling' \in [Orders -> SUBSET {"requested", "cancelled"}]
  /\ poll' \in [Orders -> [Rounds -> Polls]]
  /\ recent' \in [Orders -> SUBSET Trades]
  /\ faults' \in 0..MaxFaults
  /\ AnswersMove

LEMMA TaskKeeps == ASSUME ExchangeInv, TaskStep PROVE ExchangeInv'
<1>1. StoreTypeOK' /\ (\A o \in Orders : OrderSound(o)') /\ Moves
  BY OrdersStay DEF TaskStep
<1>2. stream' \in Seq(Reports) /\ StreamSound'
  BY <1>1, StreamStays DEF TaskStep
<1>3. ready' \in Seq(OrderUpdate) /\ QueueSound'
  BY <1>1, QueueStays DEF TaskStep, Queues
<1>4. AnswersSound'
  BY <1>1, AnswersStay DEF TaskStep
<1>5. QueueTypeOK'
  BY <1>3 DEF ExchangeInv, QueueTypeOK, TaskStep
<1>6. TasksTypeOK'
  BY <1>2 DEF ExchangeInv, TasksTypeOK, TaskStep, ExchangeStill, StoreStill
<1> QED
  BY <1>1, <1>2, <1>3, <1>4, <1>5, <1>6, Parts

(* The answer to _place_order, or its absence. *)
LEMMA PlacementKeeps ==
  ASSUME ExchangeInv, NEW o \in Orders, OrderPlaced(o) \/ OrderPlacementFails(o)
  PROVE  ExchangeInv'
<1>1. /\ creating' = creating \ {o}
      /\ UNCHANGED <<order, started, active, cached, notFound, waiting, events, fillEvents, saved, restarts>>
      /\ UNCHANGED <<market, trades, request, cancelling, poll, recent, direct, stream>>
  BY DEF OrderPlaced, OrderPlacementFails, history, exchange, network
<1>2. Queues
  <2>1. CASE OrderPlaced(o)
    <3>1. Confirmed(o, "OPEN")
      BY <2>1 DEF OrderPlaced, Confirmed
    <3> QED
      BY <2>1, <3>1, ScheduleSound DEF OrderPlaced
  <2>2. CASE OrderPlacementFails(o)
    BY <2>2, ScheduleSound DEF OrderPlacementFails, FailsAtOnce
  <2> QED
    BY <2>1, <2>2
<1>3. faults' \in 0..MaxFaults
  <2>1. CASE UNCHANGED faults
    BY <2>1 DEF ExchangeInv, TasksTypeOK
  <2>2. CASE Fault("request")
    BY <2>2, FaultType
  <2> QED
    BY <2>1, <2>2 DEF OrderPlaced, OrderPlacementFails, network
<1>4. TaskStep
  BY <1>1, <1>2, <1>3, AnswersRest
  DEF TaskStep, StoreStill, ExchangeStill, AsksForTrades, ExchangeInv, TasksTypeOK, OrderSound, MarketSound
<1> QED
  BY <1>4, TaskKeeps

(* _execute_cancel, and what the exchange answers. *)
LEMMA CancelKeeps ==
  ASSUME ExchangeInv, NEW o \in Orders, ExecuteCancel(o) \/ CancelReturns(o) \/ CancelFails(o)
  PROVE  ExchangeInv'
<1>1. /\ \/ cancelling' = [cancelling EXCEPT ![o] = @ \cup {"requested"}]
         \/ \E c \in cancelling[o] : cancelling' = [cancelling EXCEPT ![o] = @ \ {c}]
      /\ UNCHANGED <<order, started, active, cached, notFound, waiting, events, fillEvents, saved, restarts>>
      /\ UNCHANGED <<market, trades, request, creating, poll, recent, direct, stream>>
  BY DEF ExecuteCancel, CancelReturns, CancelFails, vars, tracker, history, exchange, network
<1>2. Queues
  <2>1. CASE CancelReturns(o)
    <3>1. Confirmed(o, "CANCELED")
      BY <2>1 DEF CancelReturns, Confirmed, ExchangeInv, MessagesSound, AnswersSound
    <3> QED
      BY <2>1, <3>1, ScheduleSound DEF CancelReturns
  <2>2. CASE UNCHANGED ready
    BY <2>2 DEF Queues
  <2> QED
    BY <2>1, <2>2 DEF ExecuteCancel, CancelFails, vars, tracker
<1>3. /\ cancelling' \in [Orders -> SUBSET {"requested", "cancelled"}]
      /\ \A p \in Orders : "cancelled" \in cancelling'[p] => "cancelled" \in cancelling[p]
  <2>1. PICK c \in Cancels : /\ cancelling' = [cancelling EXCEPT ![o] = c]
                             /\ "cancelled" \in c => "cancelled" \in cancelling[o]
    <3>1. cancelling[o] \in Cancels
      BY DEF ExchangeInv, TasksTypeOK, Cancels
    <3>2. CASE cancelling' = [cancelling EXCEPT ![o] = @ \cup {"requested"}]
      <4>1. PICK c : c = cancelling[o] \cup {"requested"}
        OBVIOUS
      <4>2. c \in Cancels /\ ("cancelled" \in c => "cancelled" \in cancelling[o])
        BY <3>1, <4>1 DEF Cancels
      <4>3. cancelling' = [cancelling EXCEPT ![o] = c]
        BY <3>2, <4>1
      <4> QED
        BY <4>2, <4>3
    <3>3. ASSUME NEW d \in cancelling[o], cancelling' = [cancelling EXCEPT ![o] = @ \ {d}]
          PROVE  \E c \in Cancels : /\ cancelling' = [cancelling EXCEPT ![o] = c]
                                    /\ "cancelled" \in c => "cancelled" \in cancelling[o]
      BY <3>1, <3>3, LosesOne
    <3> QED
      BY <1>1, <3>2, <3>3
  <2> QED
    BY <2>1, CancelsFields DEF ExchangeInv, Cancels
<1>4. faults' \in 0..MaxFaults
  <2>1. CASE UNCHANGED faults
    BY <2>1 DEF ExchangeInv, TasksTypeOK
  <2>2. CASE Fault("request")
    BY <2>2, FaultType
  <2> QED
    BY <2>1, <2>2 DEF ExecuteCancel, CancelReturns, CancelFails, network
<1>5. AnswersMove
  BY <1>1, <1>3 DEF AnswersMove, PollMoves
<1>6. TaskStep
  BY <1>1, <1>2, <1>3, <1>4, <1>5
  DEF TaskStep, StoreStill, ExchangeStill, AsksForTrades, ExchangeInv, TasksTypeOK, OrderSound, MarketSound
<1> QED
  BY <1>6, TaskKeeps

(* The connection of the user stream drops. *)
LEMMA StreamLosesKeeps == ASSUME ExchangeInv, StreamLoses PROVE ExchangeInv'
<1>1. /\ stream' = <<>>
      /\ UNCHANGED <<order, started, active, cached, notFound, ready, waiting, events, fillEvents, saved, restarts>>
      /\ UNCHANGED <<market, trades, request, creating, cancelling, poll, recent, direct>>
  BY DEF StreamLoses, vars, tracker, history, exchange, connector
<1>2. faults' \in 0..MaxFaults
  BY FaultType DEF StreamLoses
<1>3. TaskStep
  BY <1>1, <1>2, AnswersRest
  DEF TaskStep, Queues, StoreStill, ExchangeStill, AsksForTrades, ExchangeInv, TasksTypeOK, OrderSound, MarketSound
<1> QED
  BY <1>3, TaskKeeps


(* A record of the polling loop after PollStep. *)
LEMMA PollFields ==
  ASSUME NEW fields \in Polls, NEW phase \in {"idle", "trades", "status"}
  PROVE  LET q == [fields EXCEPT !.phase = phase]
         IN  q \in Polls /\ q.phase = phase /\ q.asked = fields.asked /\ q.status = fields.status
BY DEF Polls

LEMMA IdleFields ==
  /\ Idle \in Polls /\ Idle.asked = {} /\ Idle.status = "none"
  /\ \A asked \in SUBSET Trades, mapped \in BOOLEAN :
       LET q == [Idle EXCEPT !.asked = asked, !.mapped = mapped]
       IN  q \in Polls /\ q.asked = asked /\ q.status = "none"
  /\ \A status \in Status \cup {"ABSENT"} :
       LET q == [Idle EXCEPT !.status = status]
       IN  q \in Polls /\ q.asked = {} /\ q.status = status
BY DEF Idle, Polls

(* It is the only one that changes. *)
OnlyPoll(o, r, q) ==
  \A p \in Orders, i \in Rounds : poll'[p][i] = IF p = o /\ i = r THEN q ELSE poll[p][i]

LEMMA PollStepFields ==
  ASSUME poll \in [Orders -> [Rounds -> Polls]], NEW o \in Orders, NEW r \in Rounds, NEW q \in Polls,
         poll' = [poll EXCEPT ![o][r] = q]
  PROVE  poll' \in [Orders -> [Rounds -> Polls]] /\ OnlyPoll(o, r, q)
<1>1. [poll[o] EXCEPT ![r] = q] \in [Rounds -> Polls]
  OBVIOUS
<1>2. poll' = [poll EXCEPT ![o] = [poll[o] EXCEPT ![r] = q]]
  OBVIOUS
<1> QED
  BY <1>1, <1>2 DEF OnlyPoll

(* A step of the polling loop that leaves its order alone. *)
LEMMA PollStepKeeps ==
  ASSUME ExchangeInv, NEW o \in Orders, NEW r \in Rounds, NEW q \in Polls,
         poll' = [poll EXCEPT ![o][r] = q],
         q.asked \subseteq trades[o], q.phase = "trades" => o \in started,
         q.status \in Status => Confirmed(o, q.status),
         recent' = recent \/ recent' = [recent EXCEPT ![o] = {}],
         Queues, faults' \in 0..MaxFaults,
         StoreStill, ExchangeStill, UNCHANGED <<notFound, waiting, creating, cancelling, direct, stream>>
  PROVE  ExchangeInv'
<1>1. poll' \in [Orders -> [Rounds -> Polls]] /\ OnlyPoll(o, r, q)
  BY PollStepFields DEF ExchangeInv, TasksTypeOK
<1>2. /\ recent' \in [Orders -> SUBSET Trades]
      /\ \A p \in Orders : recent'[p] \subseteq recent[p]
  BY DEF ExchangeInv, TasksTypeOK
<1>3. AsksForTrades
  <2>1. ASSUME NEW p \in Orders PROVE recent'[p] \subseteq trades[p]
    BY <1>2 DEF ExchangeInv, OrderSound, MarketSound
  <2>2. ASSUME NEW p \in Orders, NEW i \in Rounds PROVE poll'[p][i].asked \subseteq trades[p]
    <3>1. poll[p][i].asked \subseteq trades[p]
      BY DEF ExchangeInv, OrderSound, MarketSound
    <3> QED
      BY <1>1, <3>1 DEF OnlyPoll
  <2> QED
    BY <2>1, <2>2 DEF AsksForTrades
<1>4. AnswersMove
  <2> SUFFICES ASSUME NEW p \in Orders, NEW i \in Rounds PROVE PollMoves(p, poll[p][i], poll'[p][i])
    BY DEF AnswersMove
  <2> QED
    BY <1>1 DEF OnlyPoll, PollMoves
<1>5. TaskStep
  BY <1>1, <1>2, <1>3, <1>4 DEF TaskStep, ExchangeInv, TasksTypeOK
<1> QED
  BY <1>5, TaskKeeps

(* The question for trades, and its failure. *)
LEMMA AskTradesKeeps ==
  ASSUME ExchangeInv, NEW o \in Orders, NEW r \in Rounds, PollTrades(o, r) \/ PollTradesFails(o, r)
  PROVE  ExchangeInv'
<1>0. StoreStill /\ ExchangeStill /\ UNCHANGED <<ready, notFound, waiting, creating, cancelling, direct, stream>>
  BY DEF PollTrades, PollTradesFails, StoreStill, ExchangeStill, vars, tracker, history, exchange, network
<1>1. /\ recent[o] \subseteq trades[o] /\ recent[o] \in SUBSET Trades
      /\ Queues
  BY <1>0 DEF Queues, ExchangeInv, OrderSound, MarketSound, TasksTypeOK
<1>2. CASE PollTrades(o, r)
  <2>1. PICK asked \in SUBSET Trades, mapped \in BOOLEAN :
          asked = recent[o] /\ PollStep(o, r, "trades", [Idle EXCEPT !.asked = asked, !.mapped = mapped])
    BY <1>1, <1>2 DEF PollTrades
  <2> DEFINE fields == [Idle EXCEPT !.asked = asked, !.mapped = mapped]
             q == [fields EXCEPT !.phase = "trades"]
  <2>2. poll' = [poll EXCEPT ![o][r] = q]
    BY <2>1 DEF PollStep
  <2>3. fields \in Polls /\ fields.asked = asked /\ fields.status = "none"
    BY IdleFields
  <2> HIDE DEF fields
  <2>4. q \in Polls /\ q.asked \subseteq trades[o] /\ q.status \notin Status
    BY <1>1, <2>1, <2>3, PollFields DEF Status
  <2>5. o \in started /\ recent' = [recent EXCEPT ![o] = {}]
    BY <1>2 DEF PollTrades
  <2>6. faults' \in 0..MaxFaults
    <3>1. CASE UNCHANGED faults
      BY <3>1 DEF ExchangeInv, TasksTypeOK
    <3>2. CASE Fault("balances")
      BY <3>2, FaultType
    <3> QED
      BY <1>2, <3>1, <3>2 DEF PollTrades, RoundStarts
  <2> HIDE DEF q
  <2> QED
    BY <1>0, <1>1, <2>2, <2>4, <2>5, <2>6, PollStepKeeps
<1>3. CASE PollTradesFails(o, r)
  <2> DEFINE q == [Idle EXCEPT !.phase = "status"]
  <2>1. poll' = [poll EXCEPT ![o][r] = q]
    BY <1>3 DEF PollTradesFails, PollStep
  <2>2. q \in Polls /\ q.asked = {} /\ q.phase # "trades" /\ q.status \notin Status
    BY IdleFields, PollFields DEF Status
  <2>3. recent' = recent /\ faults' \in 0..MaxFaults
    BY <1>3, FaultType DEF PollTradesFails
  <2> HIDE DEF q
  <2> QED
    BY <1>0, <1>1, <2>1, <2>2, <2>3, PollStepKeeps
<1> QED
  BY <1>2, <1>3

(* The question for the status: the exchange looks at the order now. *)
LEMMA AskStatusKeeps ==
  ASSUME ExchangeInv, NEW o \in Orders, NEW r \in Rounds, PollStatus(o, r)
  PROVE  ExchangeInv'
<1>0. /\ StoreStill /\ ExchangeStill
      /\ UNCHANGED <<ready, notFound, waiting, creating, cancelling, recent, direct, stream>>
  BY DEF PollStatus, StoreStill, ExchangeStill, vars, tracker, history, exchange
<1>1. Queues
  BY <1>0 DEF Queues
<1>2. faults' \in 0..MaxFaults
  <2>1. CASE UNCHANGED faults
    BY <2>1 DEF ExchangeInv, TasksTypeOK
  <2>2. CASE Fault("request")
    BY <2>2, FaultType
  <2> QED
    BY <2>1, <2>2 DEF PollStatus
<1>3. ShownStatus(o) \in Status \cup {"ABSENT"}
  BY DEF ShownStatus, Status, ExchangeInv, TasksTypeOK
<1>4. PICK a \in Polls : /\ poll' = [poll EXCEPT ![o][r] = a]
                         /\ a.asked = {} /\ a.phase # "trades"
                         /\ a.status \in Status => a.status = ShownStatus(o)
  <2>1. PICK fields \in Polls, phase \in {"idle", "status"} :
          /\ PollStep(o, r, phase, fields)
          /\ fields.asked = {}
          /\ fields.status \in Status => fields.status = ShownStatus(o)
    <3>1. CASE PollStep(o, r, "idle", Idle)
      BY <3>1, IdleFields DEF Status
    <3>2. CASE PollStep(o, r, "status", [Idle EXCEPT !.status = ShownStatus(o)])
      <4>1. PICK status \in Status \cup {"ABSENT"} : status = ShownStatus(o)
        BY <1>3
      <4> DEFINE fields == [Idle EXCEPT !.status = status]
      <4>2. fields \in Polls /\ fields.asked = {} /\ fields.status = status
        BY IdleFields
      <4>3. PollStep(o, r, "status", fields)
        BY <3>2, <4>1
      <4> HIDE DEF fields
      <4> QED
        BY <4>1, <4>2, <4>3
    <3>3. CASE PollStep(o, r, "status", [Idle EXCEPT !.status = "ABSENT"])
      <4> DEFINE fields == [Idle EXCEPT !.status = "ABSENT"]
      <4>1. fields \in Polls /\ fields.asked = {} /\ fields.status = "ABSENT"
        BY IdleFields
      <4>2. PollStep(o, r, "status", fields)
        BY <3>3
      <4> HIDE DEF fields
      <4> QED
        BY <4>1, <4>2 DEF Status
    <3> QED
      BY <3>1, <3>2, <3>3 DEF PollStatus
  <2> DEFINE q == [fields EXCEPT !.phase = phase]
  <2>2. q \in Polls /\ q.phase = phase /\ q.asked = fields.asked /\ q.status = fields.status
    BY PollFields
  <2>3. poll' = [poll EXCEPT ![o][r] = q]
    BY <2>1 DEF PollStep
  <2> HIDE DEF q
  <2> QED
    BY <2>1, <2>2, <2>3
<1>5. a.status \in Status => Confirmed(o, a.status)
  <2> SUFFICES ASSUME a.status \in Status PROVE Confirmed(o, a.status)
    OBVIOUS
  <2>1. Confirmed(o, ShownStatus(o))
    BY <1>4, ShownConfirmed
  <2> QED
    BY <1>4, <2>1 DEF Confirmed
<1> QED
  BY <1>0, <1>1, <1>2, <1>4, <1>5, PollStepKeeps

(* A status arrives. *)
LEMMA StatusArrivesKeeps ==
  ASSUME ExchangeInv, NEW o \in Orders, NEW r \in Rounds, PollStatusReturns(o, r)
  PROVE  ExchangeInv'
<1>0. /\ StoreStill /\ ExchangeStill
      /\ UNCHANGED <<notFound, waiting, creating, cancelling, recent, direct, stream, faults>>
  BY DEF PollStatusReturns, StoreStill, ExchangeStill, vars, tracker, history, exchange, network
<1> DEFINE q == [Idle EXCEPT !.phase = "idle"]
<1>1. poll' = [poll EXCEPT ![o][r] = q]
  BY DEF PollStatusReturns, PollStep
<1>2. /\ q \in Polls /\ q.asked = {} /\ q.phase # "trades" /\ q.status \notin Status
  BY IdleFields, PollFields DEF Status
<1>3. faults' \in 0..MaxFaults
  BY <1>0 DEF ExchangeInv, TasksTypeOK
<1>4. Queues
  <2>1. CASE UNCHANGED ready
    BY <2>1 DEF Queues
  <2>2. CASE ScheduleUpdate(ClientUpdate(o, StateOf[poll[o][r].status], TRUE))
    <3>1. PICK status \in Status : status = poll[o][r].status
      BY DEF PollStatusReturns
    <3>2. Confirmed(o, status)
      BY <3>1 DEF ExchangeInv, MessagesSound, AnswersSound, AnswerOK
    <3>3. StateOf[status] # "FAILED" => Confirmed(o, StateOf[status])
      BY <3>2, StateOfSound
    <3> QED
      BY <2>2, <3>1, <3>3, ScheduleSound
  <2> QED
    BY <2>1, <2>2 DEF PollStatusReturns
<1> HIDE DEF q
<1> QED
  BY <1>0, <1>1, <1>2, <1>3, <1>4, PollStepKeeps


-----------------------------------------------------------------------------
(* New orders and fills. *)

(* The exchange's side, the stream and the answers rest. *)
TasksStill == UNCHANGED <<market, trades, cancelling, poll, recent, direct, stream, faults>>

LEMMA CreateKeeps ==
  ASSUME ExchangeInv, NEW o \in Orders, NEW amount \in Amounts,
         CreateOrder(o, amount) \/ RefuseOrder(o, amount)
  PROVE  ExchangeInv'
<1>1. /\ StartTrackingOrder(o, amount)
      /\ started' = started \cup {o}
      /\ UNCHANGED <<cached, notFound, waiting, events, fillEvents, saved, restarts>>
      /\ TasksStill
  BY DEF CreateOrder, RefuseOrder, StartTrackingOrder, history, exchange, network, TasksStill
<1>2. /\ \/ request' = request
         \/ request' = request \cup {o} /\ amount > 0
      /\ creating' \subseteq creating \cup {o}
  BY DEF CreateOrder, RefuseOrder, exchange
<1>3. StoreTypeOK' /\ (\A p \in Orders : OrderSound(p)') /\ Moves
  BY <1>1, <1>2, StartSound DEF TasksStill
<1>4. Queues
  <2>1. CASE CreateOrder(o, amount)
    BY <2>1 DEF CreateOrder, Queues
  <2>2. CASE RefuseOrder(o, amount)
    BY <2>2, ScheduleSound DEF RefuseOrder, FailsAtOnce
  <2> QED
    BY <2>1, <2>2
<1>5. stream' \in Seq(Reports) /\ StreamSound'
  BY <1>1, <1>3, StreamStays DEF TasksStill
<1>6. ready' \in Seq(OrderUpdate) /\ QueueSound'
  BY <1>1, <1>3, <1>4, QueueStays DEF Queues
<1>7. AnswersSound'
  BY <1>1, <1>3, AnswersStay, AnswersRest DEF TasksStill
<1>8. QueueTypeOK'
  BY <1>1, <1>6 DEF ExchangeInv, QueueTypeOK
<1>9. TasksTypeOK'
  BY <1>1, <1>2, <1>5 DEF ExchangeInv, TasksTypeOK, TasksStill
<1> QED
  BY <1>3, <1>5, <1>6, <1>7, <1>8, <1>9, Parts

(* What process_trade_update does, whether the recorder can store all fills *)
(* or fails on one that is stored already.                                  *)
LEMMA RecordFillsOutcome ==
  ASSUME StoreTypeOK, NEW o \in Orders, NEW T \in SUBSET Trades, RecordFills(o, T)
  PROVE  /\ fillEvents' \in [Orders -> [Trades -> Nat]]
         /\ order' = order \/ order' = WithTrades(o, T)
         /\ SavesFills(o, T)
<1>1. CASE AddsNoFill(o, T)
  BY <1>1 DEF AddsNoFill, StoreTypeOK, SavesFills
<1>2. CASE AddFills(o, T) /\ SavesFills(o, T)
  <2>1. fillEvents' \in [Orders -> [Trades -> Nat]]
    <3>1. [t \in Trades |-> IF t \in T \ order[o].fills THEN fillEvents[o][t] + 1 ELSE fillEvents[o][t]]
            \in [Trades -> Nat]
      BY DEF StoreTypeOK
    <3> QED
      BY <1>2, <3>1 DEF AddFills, StoreTypeOK
  <2> QED
    BY <1>2, <2>1 DEF AddFills, WithTrades
<1>3. AddFills(o, T) => order' = WithTrades(o, T)
  BY DEF AddFills, WithTrades
<1> QED
  BY <1>1, <1>2, <1>3 DEF RecordFills, SavesFills, WithTrades

(* A message of the user stream. *)
LEMMA StreamEventKeeps == ASSUME ExchangeInv, UserStreamEvent PROVE ExchangeInv'
<1>0. StoreTypeOK /\ TasksTypeOK /\ stream \in Seq(Reports) /\ stream # <<>>
  BY DEF ExchangeInv, TasksTypeOK, UserStreamEvent
<1>1. PICK m \in Reports : m = Head(stream)
  BY <1>0
<1>2. PICK o \in Orders, T \in SUBSET Trades : o = m.order /\ T = m.trade
  BY DEF Reports
<1>3. ReportOK(m)
  <2>1. 1 \in 1..Len(stream) /\ stream[1] = m
    BY <1>0, <1>1
  <2> QED
    BY <2>1 DEF ExchangeInv, MessagesSound, StreamSound
<1>4. T \subseteq trades[o] /\ Confirmed(o, m.status) /\ m.status \in Status
  BY <1>2, <1>3 DEF ReportOK, Reports
<1>5. /\ RecordFills(o, T) \/ UNCHANGED <<order, fillEvents, saved>>
      /\ \/ ScheduleUpdate(ClientUpdate(o, StateOf[m.status], TRUE))
         \/ ready' = ready
      /\ stream' = Tail(stream)
      /\ UNCHANGED <<started, active, cached, notFound, waiting, events, restarts>>
      /\ UNCHANGED <<market, trades, request, creating, cancelling, poll, recent, direct, faults>>
  BY <1>1, <1>2 DEF UserStreamEvent, exchange, connector
<1>6. /\ fillEvents' \in [Orders -> [Trades -> Nat]]
      /\ order' = order \/ order' = WithTrades(o, T)
      /\ SavesFills(o, T)
  <2>1. CASE RecordFills(o, T)
    BY <1>0, <2>1, RecordFillsOutcome
  <2>2. CASE UNCHANGED <<order, fillEvents, saved>>
    BY <1>0, <2>2 DEF StoreTypeOK, SavesFills
  <2> QED
    BY <1>5, <2>1, <2>2
<1>7. AsksForTrades /\ ExchangeStill
  BY <1>5 DEF AsksForTrades, ExchangeStill, ExchangeInv, OrderSound, MarketSound
<1>8. StoreTypeOK' /\ (\A p \in Orders : OrderSound(p)') /\ Moves
  BY <1>4, <1>5, <1>6, <1>7, FillsSound
<1>9. Queues
  <2>1. StateOf[m.status] # "FAILED" => Confirmed(o, StateOf[m.status])
    BY <1>4, StateOfSound
  <2> QED
    BY <1>5, <2>1, ScheduleSound DEF Queues
<1>10. stream' \in Seq(Reports) /\ StreamSound'
  BY <1>0, <1>5, <1>8, StreamStays
<1>11. ready' \in Seq(OrderUpdate) /\ QueueSound'
  BY <1>5, <1>8, <1>9, QueueStays DEF Queues
<1>12. AnswersSound'
  BY <1>5, <1>8, AnswersStay, AnswersRest
<1>13. QueueTypeOK'
  BY <1>5, <1>11 DEF ExchangeInv, QueueTypeOK
<1>14. TasksTypeOK'
  BY <1>0, <1>5, <1>10 DEF TasksTypeOK
<1> QED
  BY <1>8, <1>10, <1>11, <1>12, <1>13, <1>14, Parts

(* The answer to the question for trades. *)
LEMMA TradesArriveKeeps ==
  ASSUME ExchangeInv, NEW o \in Orders, NEW r \in Rounds, PollTradesReturn(o, r)
  PROVE  ExchangeInv'
<1>0. /\ StoreTypeOK /\ TasksTypeOK /\ recent[o] \cup poll[o][r].asked \subseteq trades[o]
      /\ trades[o] \in SUBSET Trades
  BY DEF ExchangeInv, TasksTypeOK, OrderSound, MarketSound
<1>1. PICK T \in SUBSET trades[o] :
        \/ RecordFills(o, T) /\ UNCHANGED direct
        \/ ReportDirectly(o, T) /\ UNCHANGED <<order, fillEvents>>
  BY <1>0 DEF PollTradesReturn
<1>2. T \in SUBSET Trades
  BY <1>0
<1>3. /\ UNCHANGED <<started, active, cached, notFound, ready, waiting, events, restarts>>
      /\ UNCHANGED <<market, trades, request, creating, cancelling, recent, stream, faults>>
  BY DEF PollTradesReturn, exchange, network
<1> DEFINE q == [Idle EXCEPT !.phase = "status"]
<1>4. poll' = [poll EXCEPT ![o][r] = q]
  BY DEF PollTradesReturn, PollStep
<1>5. /\ q \in Polls /\ q.asked = {} /\ q.phase # "trades" /\ q.status \notin Status
  BY IdleFields, PollFields DEF Status
<1> HIDE DEF q
<1>6. /\ fillEvents' \in [Orders -> [Trades -> Nat]]
      /\ order' = order \/ order' = WithTrades(o, T)
      /\ SavesFills(o, T)
      /\ direct' \in [Orders -> [Trades -> Nat]]
  <2>1. CASE RecordFills(o, T) /\ UNCHANGED direct
    BY <1>0, <1>2, <2>1, RecordFillsOutcome DEF TasksTypeOK
  <2>2. CASE ReportDirectly(o, T) /\ UNCHANGED <<order, fillEvents>>
    <3> DEFINE new == {t \in T : IsConfirmedNew(o, t)}
               counts == [t \in Trades |-> IF t \in new THEN direct[o][t] + 1 ELSE direct[o][t]]
    <3>1. direct' = [direct EXCEPT ![o] = counts]
      BY <2>2 DEF ReportDirectly
    <3>2. SavesFills(o, T)
      BY <2>2 DEF ReportDirectly, SavesFills
    <3> HIDE DEF new
    <3>3. counts \in [Trades -> Nat]
      BY <1>0 DEF TasksTypeOK
    <3> HIDE DEF counts
    <3>4. direct' \in [Orders -> [Trades -> Nat]]
      BY <1>0, <3>1, <3>3 DEF TasksTypeOK
    <3> QED
      BY <1>0, <2>2, <3>2, <3>4 DEF StoreTypeOK
  <2> QED
    BY <1>1, <2>1, <2>2
<1>7. poll' \in [Orders -> [Rounds -> Polls]] /\ OnlyPoll(o, r, q)
  BY <1>0, <1>4, <1>5, PollStepFields DEF TasksTypeOK
<1>8. AsksForTrades /\ ExchangeStill
  <2>1. ASSUME NEW p \in Orders, NEW i \in Rounds
        PROVE  recent'[p] \subseteq trades[p] /\ poll'[p][i].asked \subseteq trades[p]
    BY <1>3, <1>5, <1>7 DEF OnlyPoll, ExchangeInv, OrderSound, MarketSound
  <2>2. ASSUME NEW p \in Orders PROVE recent'[p] \subseteq trades[p]
    BY <1>3 DEF ExchangeInv, OrderSound, MarketSound
  <2> QED
    BY <1>3, <2>1, <2>2 DEF AsksForTrades, ExchangeStill
<1>9. StoreTypeOK' /\ (\A p \in Orders : OrderSound(p)') /\ Moves
  BY <1>3, <1>6, <1>8, FillsSound
<1>10. stream' \in Seq(Reports) /\ StreamSound'
  BY <1>3, <1>9, StreamStays
<1>11. ready' \in Seq(OrderUpdate) /\ QueueSound'
  BY <1>3, <1>9, QueueStays
<1>12. AnswersSound'
  <2>1. ASSUME NEW p \in Orders, NEW i \in Rounds PROVE PollMoves(p, poll[p][i], poll'[p][i])
    BY <1>5, <1>7 DEF OnlyPoll, PollMoves
  <2>2. AnswersMove
    BY <1>3, <2>1 DEF AnswersMove
  <2> QED
    BY <1>9, <2>2, AnswersStay
<1>13. QueueTypeOK'
  BY <1>3, <1>11 DEF ExchangeInv, QueueTypeOK
<1>14. TasksTypeOK'
  BY <1>0, <1>3, <1>6, <1>7, <1>10 DEF TasksTypeOK
<1> QED
  BY <1>9, <1>10, <1>11, <1>12, <1>13, <1>14, Parts


-----------------------------------------------------------------------------
(* Order updates that run, and errors that count. *)

(* A true order update is applied, or none is. *)
MayApply ==
  \/ UNCHANGED <<order, active, cached, events, saved>>
  \/ \E u \in OrderUpdate : /\ UpdateOK(u) /\ ApplyOrderUpdate(u)
                            /\ u.newState = "OPEN" => u.order \in AllOrders

LEMMA MayApplySound ==
  ASSUME ExchangeInv, ExchangeStill, AsksForTrades, UNCHANGED <<started, fillEvents, restarts>>, MayApply
  PROVE  StoreTypeOK' /\ (\A o \in Orders : OrderSound(o)') /\ Moves
<1>1. CASE UNCHANGED <<order, active, cached, events, saved>>
  BY <1>1, OrdersStay DEF StoreStill
<1>2. ASSUME NEW u \in OrderUpdate, UpdateOK(u), ApplyOrderUpdate(u), u.newState = "OPEN" => u.order \in AllOrders
      PROVE  StoreTypeOK' /\ (\A o \in Orders : OrderSound(o)') /\ Moves
  BY <1>2, UpdateSound
<1> QED
  BY <1>1, <1>2 DEF MayApply

(* The tracker's own tasks. *)
LEMMA TrackerTaskKeeps ==
  ASSUME ExchangeInv, UNCHANGED <<exchange, connector, network>>,
         RunOrderUpdate \/ ParkOrderUpdate \/ \E u \in FilledUpdate : Resume(u)
  PROVE  ExchangeInv'
<1>0. /\ ready \in Seq(OrderUpdate) /\ waiting \in [FilledUpdate -> Nat] /\ notFound \in [Orders -> Nat]
      /\ UNCHANGED <<market, trades, request, creating, cancelling, poll, recent, direct, stream, faults>>
  BY DEF ExchangeInv, QueueTypeOK, exchange, connector, network
<1>1. AsksForTrades /\ ExchangeStill
  BY <1>0 DEF AsksForTrades, ExchangeStill, ExchangeInv, OrderSound, MarketSound
<1>2. ASSUME ready # <<>>
      PROVE  \E u \in OrderUpdate : u = Head(ready) /\ UpdateOK(u)
  <2>1. 1 \in 1..Len(ready) /\ ready[1] = Head(ready) /\ Head(ready) \in OrderUpdate
    BY <1>0, <1>2
  <2> QED
    BY <2>1 DEF ExchangeInv, MessagesSound, QueueSound
<1>3. /\ MayApply
      /\ UNCHANGED <<started, notFound, fillEvents, restarts>>
      /\ ready' = ready \/ (ready # <<>> /\ ready' = Tail(ready))
      /\ waiting' \in [FilledUpdate -> Nat]
      /\ \A u \in FilledUpdate : waiting'[u] > 0 => waiting[u] > 0 \/ UpdateOK(u)
  <2>1. CASE RunOrderUpdate
    <3>1. PICK u \in OrderUpdate : u = Head(ready) /\ UpdateOK(u)
      BY <1>2, <2>1 DEF RunOrderUpdate
    <3>2. \/ Fetches(u) /\ ApplyOrderUpdate(u)
          \/ UNCHANGED <<order, active, cached, events, saved>>
      BY <2>1, <3>1 DEF RunOrderUpdate
    <3>3. MayApply
      BY <3>1, <3>2 DEF MayApply, Fetches
    <3> QED
      BY <1>0, <2>1, <3>3 DEF RunOrderUpdate
  <2>2. CASE ParkOrderUpdate
    <3>1. PICK u \in OrderUpdate : u = Head(ready) /\ UpdateOK(u)
      BY <1>2, <2>2 DEF ParkOrderUpdate
    <3>2. u \in FilledUpdate /\ waiting' = [waiting EXCEPT ![u] = waiting[u] + 1]
      BY <2>2, <3>1 DEF ParkOrderUpdate, MustWait, FilledUpdate
    <3>3. /\ UNCHANGED <<order, started, active, cached, notFound, events, fillEvents, saved, restarts>>
          /\ ready # <<>> /\ ready' = Tail(ready)
      BY <2>2 DEF ParkOrderUpdate, history
    <3>4. MayApply
      BY <3>3 DEF MayApply
    <3>5. /\ waiting' \in [FilledUpdate -> Nat]
          /\ \A v \in FilledUpdate : v # u => waiting'[v] = waiting[v]
      BY <1>0, <3>2
    <3> QED
      BY <3>1, <3>3, <3>4, <3>5
  <2>3. ASSUME NEW u \in FilledUpdate, Resume(u)
        PROVE  /\ MayApply
               /\ UNCHANGED <<started, notFound, fillEvents, restarts>>
               /\ ready' = ready
               /\ waiting' \in [FilledUpdate -> Nat]
               /\ \A v \in FilledUpdate : waiting'[v] > 0 => waiting[v] > 0
    <3>1. u \in OrderUpdate /\ u.newState = "FILLED"
      BY DEF FilledUpdate
    <3>2. UpdateOK(u) /\ ApplyOrderUpdate(u) /\ waiting[u] > 0
      BY <2>3 DEF Resume, ExchangeInv, MessagesSound, QueueSound
    <3>3. MayApply
      BY <3>1, <3>2 DEF MayApply
    <3>4. waiting' = [waiting EXCEPT ![u] = waiting[u] - 1]
      BY <2>3 DEF Resume
    <3>5. /\ waiting' \in [FilledUpdate -> Nat]
          /\ \A v \in FilledUpdate : waiting'[v] > 0 => waiting[v] > 0
      BY <1>0, <3>2, <3>4
    <3> QED
      BY <2>3, <3>3, <3>5 DEF Resume
  <2> QED
    BY <2>1, <2>2, <2>3
<1>4. StoreTypeOK' /\ (\A o \in Orders : OrderSound(o)') /\ Moves
  BY <1>1, <1>3, MayApplySound
<1>5. stream' \in Seq(Reports) /\ StreamSound'
  BY <1>0, <1>4, StreamStays
<1>6. ready' \in Seq(OrderUpdate) /\ QueueSound'
  BY <1>3, <1>4, QueueStays
<1>7. AnswersSound'
  BY <1>0, <1>4, AnswersStay, AnswersRest
<1>8. QueueTypeOK'
  BY <1>0, <1>3, <1>6 DEF QueueTypeOK
<1>9. TasksTypeOK'
  BY <1>0, <1>3 DEF ExchangeInv, TasksTypeOK
<1> QED
  BY <1>4, <1>5, <1>6, <1>7, <1>8, <1>9, Parts

(* An error that counts as not found: a cancel without an answer, or a      *)
(* status that does not come.                                               *)
LEMMA NotFoundKeepsInv ==
  ASSUME ExchangeInv, NEW o \in Orders, CancelTimesOut(o) \/ \E r \in Rounds : PollStatusFails(o, r)
  PROVE  ExchangeInv'
<1>0. /\ UNCHANGED <<started, ready, waiting, fillEvents, restarts>>
      /\ UNCHANGED <<market, trades, request, creating, recent, direct, stream>>
      /\ OrderNotFound(o)
  BY DEF CancelTimesOut, PollStatusFails, exchange, network
<1>1. /\ cancelling' \in [Orders -> SUBSET {"requested", "cancelled"}]
      /\ \A p \in Orders : "cancelled" \in cancelling'[p] => "cancelled" \in cancelling[p]
  <2>0. TasksTypeOK /\ cancelling[o] \in Cancels
    BY DEF ExchangeInv, TasksTypeOK, Cancels
  <2>1. cancelling' = cancelling \/ \E d \in cancelling[o] : cancelling' = [cancelling EXCEPT ![o] = @ \ {d}]
    BY DEF CancelTimesOut, PollStatusFails
  <2>2. CASE cancelling' = cancelling
    BY <2>0, <2>2 DEF TasksTypeOK
  <2>3. ASSUME NEW d \in cancelling[o], cancelling' = [cancelling EXCEPT ![o] = @ \ {d}]
        PROVE  \E c \in Cancels : /\ cancelling' = [cancelling EXCEPT ![o] = c]
                                  /\ "cancelled" \in c => "cancelled" \in cancelling[o]
    BY <2>0, <2>3, LosesOne
  <2> QED
    BY <2>0, <2>1, <2>2, <2>3, CancelsFields DEF Cancels
<1>2. /\ poll' \in [Orders -> [Rounds -> Polls]]
      /\ \A p \in Orders, i \in Rounds :
           \/ poll'[p][i] = poll[p][i]
           \/ /\ poll'[p][i].asked = {} /\ poll'[p][i].phase # "trades"
              /\ poll'[p][i].status \notin Status
  <2> DEFINE q == [Idle EXCEPT !.phase = "idle"]
  <2>1. /\ q \in Polls /\ q.asked = {} /\ q.phase # "trades" /\ q.status \notin Status
    BY IdleFields, PollFields DEF Status
  <2>2. poll' = poll \/ \E r \in Rounds : poll' = [poll EXCEPT ![o][r] = q]
    BY DEF CancelTimesOut, PollStatusFails, PollStep
  <2> HIDE DEF q
  <2>3. poll \in [Orders -> [Rounds -> Polls]]
    BY DEF ExchangeInv, TasksTypeOK
  <2>4. CASE poll' = poll
    BY <2>3, <2>4
  <2>5. ASSUME NEW r \in Rounds, poll' = [poll EXCEPT ![o][r] = q]
        PROVE  poll' \in [Orders -> [Rounds -> Polls]] /\ OnlyPoll(o, r, q)
    BY <2>1, <2>3, <2>5, PollStepFields
  <2> QED
    BY <2>1, <2>2, <2>4, <2>5 DEF OnlyPoll
<1>3. faults' \in 0..MaxFaults
  <2>1. CASE CancelTimesOut(o)
    BY <2>1, FaultType DEF CancelTimesOut
  <2>2. CASE \E r \in Rounds : PollStatusFails(o, r)
    BY <2>2 DEF PollStatusFails, network, ExchangeInv, TasksTypeOK
  <2> QED
    BY <2>1, <2>2
<1>4. MayApply /\ notFound' \in [Orders -> Nat]
  <2>1. CASE ProcessOrderNotFound(o)
    <3> DEFINE u == ClientUpdate(o, "FAILED", FALSE)
    <3>1. u \in OrderUpdate /\ u.newState = "FAILED"
      BY DEF ClientUpdate, OrderUpdate
    <3>2. ApplyOrderUpdate(u) \/ UNCHANGED <<order, active, cached, events, saved>>
      BY <2>1 DEF ProcessOrderNotFound
    <3> HIDE DEF u
    <3>3. MayApply
      BY <3>1, <3>2 DEF MayApply, UpdateOK
    <3>4. notFound' \in [Orders -> Nat]
      BY <2>1 DEF ProcessOrderNotFound, ExchangeInv, QueueTypeOK
    <3> QED
      BY <3>3, <3>4
  <2>2. CASE UNCHANGED <<order, active, cached, notFound, events, saved>>
    BY <2>2 DEF MayApply, ExchangeInv, QueueTypeOK
  <2> QED
    BY <1>0, <2>1, <2>2 DEF OrderNotFound
<1>5. AsksForTrades /\ ExchangeStill
  <2>1. ASSUME NEW p \in Orders
        PROVE  recent'[p] \subseteq trades[p] /\ \A i \in Rounds : poll[p][i].asked \subseteq trades[p]
    BY <1>0 DEF ExchangeInv, OrderSound, MarketSound
  <2> QED
    BY <1>0, <1>2, <2>1 DEF AsksForTrades, ExchangeStill
<1>6. StoreTypeOK' /\ (\A p \in Orders : OrderSound(p)') /\ Moves
  BY <1>0, <1>4, <1>5, MayApplySound
<1>7. stream' \in Seq(Reports) /\ StreamSound'
  BY <1>0, <1>6, StreamStays
<1>8. ready' \in Seq(OrderUpdate) /\ QueueSound'
  BY <1>0, <1>6, QueueStays
<1>9. AnswersSound'
  <2>1. AnswersMove
    BY <1>1, <1>2 DEF AnswersMove, PollMoves
  <2> QED
    BY <1>6, <2>1, AnswersStay
<1>10. QueueTypeOK'
  BY <1>0, <1>4 DEF ExchangeInv, QueueTypeOK
<1>11. TasksTypeOK'
  BY <1>0, <1>1, <1>2, <1>3 DEF ExchangeInv, TasksTypeOK
<1> QED
  BY <1>6, <1>7, <1>8, <1>9, <1>10, <1>11, Parts


(* The cache drops an order: it is no longer reachable for a trade. *)
LEMMA EvictKeepsInv ==
  ASSUME ExchangeInv, NEW o \in Orders, Evict(o), UNCHANGED <<exchange, connector, network>>
  PROVE  ExchangeInv'
<1>1. /\ cached' = cached \ {o}
      /\ UNCHANGED <<order, started, active, notFound, ready, waiting, events, fillEvents, saved, restarts>>
      /\ UNCHANGED <<market, trades, request, creating, cancelling, poll, recent, direct, stream, faults>>
  BY DEF Evict, history, exchange, connector, network
<1>2. StoreTypeOK' /\ Moves
  BY <1>1 DEF ExchangeInv, StoreTypeOK, Moves
<1>3. ASSUME NEW p \in Orders PROVE OrderSound(p)'
  <2>1. OrderSound(p)
    BY DEF ExchangeInv
  <2>2. MarketSound(p)' /\ StoreSound(p)'
    BY <1>1, <2>1 DEF OrderSound, MarketSound, Holds, StoreSound
  <2>3. ReportSound(p)'
    BY <1>1, <2>1 DEF OrderSound, ReportSound
  <2> QED
    BY <2>2, <2>3 DEF OrderSound
<1>4. stream' \in Seq(Reports) /\ StreamSound'
  BY <1>1, <1>2, StreamStays
<1>5. ready' \in Seq(OrderUpdate) /\ QueueSound'
  BY <1>1, <1>2, QueueStays
<1>6. AnswersSound'
  BY <1>1, <1>2, AnswersStay, AnswersRest
<1>7. QueueTypeOK' /\ TasksTypeOK'
  BY <1>1 DEF ExchangeInv, QueueTypeOK, TasksTypeOK
<1> QED
  BY <1>2, <1>3, <1>4, <1>5, <1>6, <1>7, Parts

LEMMA ConnectorRestartKeeps == ASSUME ExchangeInv, ConnectorRestart PROVE ExchangeInv'
<1>1. /\ notFound' = [o \in Orders |-> 0] /\ ready' = <<>> /\ waiting' = [u \in FilledUpdate |-> 0]
      /\ creating' = {} /\ cancelling' = [o \in Orders |-> {}]
      /\ poll' = [o \in Orders |-> [r \in Rounds |-> Idle]]
      /\ recent' = trades /\ stream' = <<>>
      /\ UNCHANGED <<started, market, trades, request, direct, faults>>
  BY DEF ConnectorRestart, Restart, exchange
<1>2. Idle \in Polls /\ Idle.phase = "idle" /\ Idle.status \notin Status
  BY DEF Idle, Polls, Status
<1>3. StoreTypeOK' /\ (\A o \in Orders : OrderSound(o)') /\ Moves
  BY RestartSound
<1>4. stream' \in Seq(Reports) /\ StreamSound'
  BY <1>1, <1>3, StreamStays
<1>5. ready' \in Seq(OrderUpdate) /\ QueueSound'
  BY <1>1, <1>3, QueueStays
<1>6. AnswersSound'
  <2>1. AnswersMove
    BY <1>1, <1>2 DEF AnswersMove, PollMoves
  <2> QED
    BY <1>3, <2>1, AnswersStay
<1>7. QueueTypeOK'
  BY <1>1, <1>5 DEF QueueTypeOK
<1>8. TasksTypeOK'
  BY <1>1, <1>2, <1>4 DEF ExchangeInv, TasksTypeOK
<1> QED
  BY <1>3, <1>4, <1>5, <1>6, <1>7, <1>8, Parts

-----------------------------------------------------------------------------
(* The theorems. *)

LEMMA InitExchange == ASSUME ConnectorInit PROVE ExchangeInv
<1>1. IInv /\ ExecutedInv
  BY InitIInv, InitSums DEF ConnectorInit
<1>2. StoreTypeOK /\ QueueTypeOK
  BY <1>1 DEF IInv, StoreInv
<1>3. /\ started = {} /\ active = {} /\ ready = <<>>
      /\ waiting = [u \in FilledUpdate |-> 0] /\ restarts = 0
      /\ events = [o \in Orders |-> [k \in EventKinds |-> 0]]
      /\ saved = [o \in Orders |-> NotSaved]
      /\ order = [o \in Orders |-> NewOrder(CHOOSE a \in Amounts : TRUE)]
  BY DEF ConnectorInit, Init
<1>4. /\ market = [o \in Orders |-> "ABSENT"] /\ trades = [o \in Orders |-> {}]
      /\ request = {} /\ stream = <<>> /\ creating = {}
      /\ cancelling = [o \in Orders |-> {}] /\ poll = [o \in Orders |-> [r \in Rounds |-> Idle]]
      /\ recent = [o \in Orders |-> {}] /\ faults = 0
      /\ direct = [o \in Orders |-> [t \in Trades |-> 0]]
  BY DEF ConnectorInit
<1>5. Idle \in Polls /\ Idle.phase = "idle" /\ Idle.status \notin Status /\ Idle.asked = {}
  BY DEF Idle, Polls, Status
<1>6. TasksTypeOK
  BY <1>4, <1>5, FaultsAssumption DEF TasksTypeOK
<1>7. ASSUME NEW o \in Orders PROVE OrderSound(o)
  <2>1. Holds(o, order[o])
    BY <1>3, <1>4, FillAmountAssumption DEF Holds, Sums, NewOrder
  <2>2. MarketSound(o)
    BY <1>3, <1>4, <1>5, <2>1 DEF MarketSound
  <2>3. StoreSound(o) /\ ReportSound(o)
    BY <1>3, <1>4 DEF StoreSound, ReportSound, EventKinds
  <2> QED
    BY <2>2, <2>3 DEF OrderSound
<1>8. MessagesSound
  BY <1>3, <1>4, <1>5 DEF MessagesSound, StreamSound, QueueSound, AnswersSound, AnswerOK
<1> QED
  BY <1>2, <1>6, <1>7, <1>8 DEF ExchangeInv

LEMMA NextExchange == ASSUME ExchangeInv, [ConnectorNext]_connectorVars PROVE ExchangeInv'
<1>1. CASE \E o \in Orders, amount \in Amounts : CreateOrder(o, amount) \/ RefuseOrder(o, amount)
  BY <1>1, CreateKeeps
<1>2. CASE \E o \in Orders : OrderPlaced(o) \/ OrderPlacementFails(o)
  BY <1>2, PlacementKeeps
<1>3. CASE \E o \in Orders : ExecuteCancel(o) \/ CancelReturns(o) \/ CancelFails(o)
  BY <1>3, CancelKeeps
<1>4. CASE \/ \E o \in Orders : CancelTimesOut(o)
           \/ \E o \in Orders, r \in Rounds : PollStatusFails(o, r)
  BY <1>4, NotFoundKeepsInv
<1>5. CASE UserStreamEvent
  BY <1>5, StreamEventKeeps
<1>6. CASE \E o \in Orders, r \in Rounds : PollTrades(o, r) \/ PollTradesFails(o, r)
  BY <1>6, AskTradesKeeps
<1>7. CASE \E o \in Orders, r \in Rounds : PollTradesReturn(o, r)
  BY <1>7, TradesArriveKeeps
<1>8. CASE \E o \in Orders, r \in Rounds : PollStatus(o, r)
  BY <1>8, AskStatusKeeps
<1>9. CASE \E o \in Orders, r \in Rounds : PollStatusReturns(o, r)
  BY <1>9, StatusArrivesKeeps
<1>10. CASE \E o \in Orders : ExchangeAccepts(o) \/ ExchangeRejects(o)
  BY <1>10, AcceptKeeps
<1>11. CASE \E o \in Orders, t \in Trades : ExchangeFills(o, t)
  BY <1>11, TradeHappensKeeps
<1>12. CASE \/ \E o \in Orders : ExchangeCancels(o)
            \/ \E o \in Orders, status \in {"CANCELED", "EXPIRED"} : ExchangeCloses(o, status)
  BY <1>12, CloseKeeps DEF ExchangeCancels, ExchangeCloses
<1>13. CASE StreamLoses
  BY <1>13, StreamLosesKeeps
<1>14. CASE TrackerStep
  BY <1>14, TrackerTaskKeeps, EvictKeepsInv DEF TrackerStep, FillsArrived, WaitTimesOut
<1>15. CASE ConnectorRestart
  BY <1>15, ConnectorRestartKeeps
<1>16. CASE UNCHANGED connectorVars
  <2>1. /\ StoreStill /\ ExchangeStill
        /\ UNCHANGED <<notFound, ready, waiting, creating, cancelling, poll, recent, direct, stream, faults>>
    BY <1>16 DEF connectorVars, vars, tracker, history, exchange, connector, network, StoreStill, ExchangeStill
  <2>2. AsksForTrades
    BY <2>1 DEF AsksForTrades, ExchangeInv, OrderSound, MarketSound
  <2>3. TaskStep
    BY <2>1, <2>2, AnswersRest DEF TaskStep, Queues, ExchangeInv, TasksTypeOK
  <2> QED
    BY <2>3, TaskKeeps
<1> QED
  BY <1>1, <1>2, <1>3, <1>4, <1>5, <1>6, <1>7, <1>8, <1>9, <1>10, <1>11, <1>12, <1>13, <1>14, <1>15, <1>16
  DEF ConnectorNext

(* The inductive invariant of the connector: what the client holds, stores  *)
(* and is still to learn of an order is true of the exchange.               *)
THEOREM ConnectorInvariant == ConnectorSpec => []ExchangeInv
<1>1. ConnectorInit => ExchangeInv
  BY InitExchange
<1>2. ExchangeInv /\ [ConnectorNext]_connectorVars => ExchangeInv'
  BY NextExchange
<1> QED
  BY <1>1, <1>2, PTL DEF ConnectorSpec

(* The variables of the connector, its tracker and the exchange keep their  *)
(* types.                                                                   *)
THEOREM ConnectorTypeCorrect == ConnectorSpec => []ConnectorTypeOK
<1>1. ExchangeInv => ConnectorTypeOK
  <2> SUFFICES ASSUME ExchangeInv PROVE ConnectorTypeOK
    OBVIOUS
  <2>1. \A i \in 1..Len(stream) : stream[i].order \in started
    BY DEF ExchangeInv, MessagesSound, StreamSound, ReportOK
  <2> QED
    BY <2>1 DEF ExchangeInv, StoreTypeOK, QueueTypeOK, TasksTypeOK, TypeOK, ConnectorTypeOK, Polls
<1> QED
  BY <1>1, ConnectorInvariant, PTL

(* An order is reported as cancelled or completed only if the exchange      *)
(* cancelled or filled it, in spite of stale answers and lost messages.     *)
THEOREM ReportedEndReal == ConnectorSpec => []ReportedEndIsReal
<1>1. ExchangeInv => ReportedEndIsReal
  BY DEF ExchangeInv, OrderSound, ReportSound, ReportedEndIsReal
<1> QED
  BY <1>1, ConnectorInvariant, PTL

(* An order that is live at the exchange is tracked, was reported as        *)
(* failed, or was lost in a restart before its creation was reported.       *)
THEOREM NoOrphan == ConnectorSpec => []NoSilentOrphan
<1>1. ExchangeInv => NoSilentOrphan
  BY DEF ExchangeInv, OrderSound, ReportSound, NoSilentOrphan
<1> QED
  BY <1>1, ConnectorInvariant, PTL


-----------------------------------------------------------------------------
(* The connector implements the tracker as long as nothing is reported past *)
(* it.                                                                      *)

(* An update that is scheduled is one that may come at any time. *)
LEMMA ScheduleIsUpdate ==
  ASSUME ready \in Seq(OrderUpdate), NEW o \in Orders, NEW newState, NEW hasId \in BOOLEAN,
         ScheduleUpdate(ClientUpdate(o, newState, hasId))
  PROVE  MaySchedule /\ ready' # ready
<1> DEFINE u == ClientUpdate(o, newState, hasId)
<1>1. u \in OrderUpdate
  BY DEF ScheduleUpdate, ClientUpdate, OrderUpdate
<1> HIDE DEF u
<1>2. ScheduleUpdate(u)
  BY DEF u
<1>3. ready' = Append(ready, u)
  BY <1>2 DEF ScheduleUpdate, ProcessOrderUpdate
<1>4. Len(ready') = Len(ready) + 1 /\ Len(ready) \in Nat
  BY <1>1, <1>3
<1> QED
  BY <1>1, <1>2, <1>4 DEF MaySchedule

(* Fills that the recorder holds no record of are processed as the tracker  *)
(* does.                                                                    *)
LEMMA RecordFillsTracks ==
  ASSUME TasksTypeOK, NoneDirect', UNCHANGED direct,
         NEW o \in Orders, NEW T \in SUBSET Trades, RecordFills(o, T)
  PROVE  ProcessTradeUpdates(o, T)
<1>1. {t \in Trades : direct[o][t] > 0} = {}
  BY DEF NoneDirect
<1>2. CASE AddsNoFill(o, T)
  BY <1>2 DEF ProcessTradeUpdates
<1>3. CASE ~AddsNoFill(o, T)
  <2>1. AddFills(o, T) /\ T \ order[o].fills # {}
    BY <1>3 DEF RecordFills, AddFills
  <2>2. PICK done \in SUBSET T :
          T \ order[o].fills \subseteq done /\ saved' = TrackingStates(WithTrades(o, done))
    BY <1>1, <1>3, <2>1 DEF RecordFills, WithTrades
  <2>3. done \ order[o].fills = T \ order[o].fills /\ order[o].fills \cup done = order[o].fills \cup T
    BY <2>2
  <2>4. UpdateWithTradeUpdates(order[o], done) = UpdateWithTradeUpdates(order[o], T)
    BY <2>3 DEF UpdateWithTradeUpdates
  <2>5. order' = WithTrades(o, done)
    BY <2>1, <2>4 DEF AddFills, WithTrades
  <2> QED
    BY <2>1, <2>2, <2>5 DEF ProcessTradeUpdates
<1> QED
  BY <1>2, <1>3

(* Nothing is reported past the tracker in a step after which nothing was. *)
LEMMA ReportsNothing ==
  ASSUME TasksTypeOK, NoneDirect', NEW o \in Orders, NEW T \in SUBSET Trades, ReportDirectly(o, T)
  PROVE  saved' = saved
<1> DEFINE new == {t \in T : IsConfirmedNew(o, t)}
<1>1. direct' = [direct EXCEPT ![o] =
        [t \in Trades |-> IF t \in new THEN direct[o][t] + 1 ELSE direct[o][t]]]
  BY DEF ReportDirectly
<1>2. saved' = IF new = {} THEN saved ELSE TrackingStates(order)
  BY DEF ReportDirectly
<1>3. new \subseteq Trades
  OBVIOUS
<1> HIDE DEF new
<1>4. ASSUME NEW t \in new PROVE FALSE
  <2>1. direct'[o][t] = direct[o][t] + 1
    BY <1>1, <1>3 DEF TasksTypeOK
  <2>2. direct[o][t] \in Nat /\ direct'[o][t] = 0
    BY <1>3 DEF TasksTypeOK, NoneDirect
  <2> QED
    BY <2>1, <2>2
<1> QED
  BY <1>2, <1>4

LEMMA ConnectorTracks ==
  ASSUME ExchangeInv, [ConnectorNext]_connectorVars, NoneDirect'
  PROVE  [Next]_vars
<1>0. ready \in Seq(OrderUpdate) /\ TasksTypeOK /\ StoreTypeOK
  BY DEF ExchangeInv, QueueTypeOK
<1>1. ASSUME NEW o \in Orders, NEW amount \in Amounts, CreateOrder(o, amount) \/ RefuseOrder(o, amount)
      PROVE  Next
  <2>1. MaySchedule
    <3>1. CASE CreateOrder(o, amount)
      BY <3>1 DEF CreateOrder, MaySchedule
    <3>2. CASE RefuseOrder(o, amount)
      BY <1>0, <3>2, ScheduleIsUpdate DEF RefuseOrder, FailsAtOnce
    <3> QED
      BY <1>1, <3>1, <3>2
  <2>2. Start(o, amount)
    BY <1>1, <2>1 DEF CreateOrder, RefuseOrder, Start
  <2> QED
    BY <2>2 DEF Next
<1>2. ASSUME NEW o \in Orders, NEW newState, NEW hasId \in BOOLEAN,
             ScheduleUpdate(ClientUpdate(o, newState, hasId)),
             UNCHANGED <<order, started, active, cached, notFound, waiting, history, saved, restarts>>
      PROVE  Next
  <2>1. Update
    BY <1>0, <1>2, ScheduleIsUpdate DEF Update
  <2> QED
    BY <2>1 DEF Next
<1>3. ASSUME NEW o \in Orders,
             \/ OrderPlaced(o) \/ OrderPlacementFails(o) \/ CancelReturns(o)
             \/ \E r \in Rounds : PollStatusReturns(o, r)
      PROVE  [Next]_vars
  <2>2. CASE OrderPlaced(o)
    BY <1>2, <2>2 DEF OrderPlaced
  <2>3. CASE OrderPlacementFails(o)
    BY <1>2, <2>3 DEF OrderPlacementFails, FailsAtOnce
  <2>4. CASE CancelReturns(o)
    BY <1>2, <2>4 DEF CancelReturns
  <2>5. ASSUME NEW r \in Rounds, PollStatusReturns(o, r) PROVE [Next]_vars
    <3>1. CASE UNCHANGED ready
      BY <2>5, <3>1 DEF PollStatusReturns, vars, tracker
    <3>2. CASE ScheduleUpdate(ClientUpdate(o, StateOf[poll[o][r].status], TRUE))
      <4>1. PICK newState : newState = StateOf[poll[o][r].status]
        OBVIOUS
      <4> QED
        BY <1>2, <2>5, <3>2, <4>1 DEF PollStatusReturns
    <3> QED
      BY <2>5, <3>1, <3>2 DEF PollStatusReturns
  <2> QED
    BY <1>3, <2>2, <2>3, <2>4, <2>5
<1>4. CASE \/ \E o \in Orders : CancelTimesOut(o)
           \/ \E o \in Orders, r \in Rounds : PollStatusFails(o, r)
  <2>1. PICK o \in Orders : /\ OrderNotFound(o)
                            /\ UNCHANGED <<started, ready, waiting, fillEvents, restarts>>
    BY <1>4 DEF CancelTimesOut, PollStatusFails
  <2>2. CASE ProcessOrderNotFound(o)
    BY <2>1, <2>2 DEF NotFound, Next
  <2>3. CASE UNCHANGED <<order, active, cached, notFound, events, saved>>
    BY <2>1, <2>3 DEF vars, tracker, history
  <2> QED
    BY <2>1, <2>2, <2>3 DEF OrderNotFound
<1>5. ASSUME NEW o \in started, NEW T \in SUBSET Trades, ProcessTradeUpdates(o, T), MaySchedule,
             UNCHANGED <<started, active, cached, notFound, waiting, events, restarts>>
      PROVE  Next
  <2>1. Trade(o, T) /\ o \in Orders
    BY <1>0, <1>5 DEF Trade, StoreTypeOK
  <2> QED
    BY <2>1 DEF Next
<1>6. CASE UserStreamEvent
  <2>0. stream \in Seq(Reports) /\ stream # <<>>
    BY <1>0, <1>6 DEF TasksTypeOK, UserStreamEvent
  <2>1. PICK m \in Reports : m = Head(stream)
    BY <2>0
  <2>1a. PICK newState : newState = StateOf[m.status]
    OBVIOUS
  <2>2. PICK o \in Orders, T \in SUBSET Trades :
          o = m.order /\ T = m.trade /\ newState = StateOf[m.status]
    BY <2>1a DEF Reports
  <2>3. o \in started
    <3>1. 1 \in 1..Len(stream) /\ stream[1] = m
      BY <2>0, <2>1
    <3> QED
      BY <2>2, <3>1 DEF ExchangeInv, MessagesSound, StreamSound, ReportOK
  <2>4. /\ RecordFills(o, T) \/ UNCHANGED <<order, fillEvents, saved>>
        /\ ScheduleUpdate(ClientUpdate(o, newState, TRUE)) \/ UNCHANGED ready
        /\ UNCHANGED <<started, active, cached, notFound, waiting, events, restarts>> /\ UNCHANGED direct
    BY <1>6, <2>1, <2>2 DEF UserStreamEvent, connector
  <2>5. MaySchedule
    BY <1>0, <2>4, ScheduleIsUpdate DEF MaySchedule
  <2>6. CASE RecordFills(o, T)
    BY <1>0, <1>5, <2>3, <2>4, <2>5, <2>6, RecordFillsTracks
  <2>7. CASE UNCHANGED <<order, fillEvents, saved>>
    <3>1. CASE UNCHANGED ready
      BY <2>4, <2>7, <3>1 DEF vars, tracker, history
    <3>2. CASE ScheduleUpdate(ClientUpdate(o, newState, TRUE))
      BY <1>2, <2>4, <2>7, <3>2 DEF history
    <3> QED
      BY <2>4, <3>1, <3>2
  <2> QED
    BY <2>4, <2>6, <2>7
<1>7. ASSUME NEW o \in Orders, NEW r \in Rounds, PollTradesReturn(o, r) PROVE [Next]_vars
  <2>1. poll[o][r] \in Polls /\ recent[o] \in SUBSET Trades
    BY <1>0 DEF TasksTypeOK
  <2>2. /\ recent[o] \cup poll[o][r].asked \in SUBSET Trades /\ o \in started
    BY <1>7, <2>1 DEF Polls, PollTradesReturn, ExchangeInv, MessagesSound, AnswersSound, AnswerOK
  <2>3. PICK T \in SUBSET Trades :
          \/ RecordFills(o, T) /\ UNCHANGED direct
          \/ ReportDirectly(o, T) /\ UNCHANGED <<order, fillEvents>>
    BY <1>7, <2>2 DEF PollTradesReturn
  <2>4. UNCHANGED <<started, active, cached, notFound, ready, waiting, events, restarts>>
    BY <1>7 DEF PollTradesReturn
  <2>5. CASE RecordFills(o, T) /\ UNCHANGED direct
    BY <1>0, <1>5, <2>2, <2>4, <2>5, RecordFillsTracks DEF MaySchedule
  <2>6. CASE ReportDirectly(o, T) /\ UNCHANGED <<order, fillEvents>>
    <3>1. saved' = saved
      BY <1>0, <2>6, ReportsNothing
    <3> QED
      BY <2>4, <2>6, <3>1 DEF vars, tracker, history
  <2> QED
    BY <2>3, <2>5, <2>6
<1>8. CASE TrackerStep
  BY <1>8 DEF TrackerStep, Next
<1>9. CASE ConnectorRestart
  BY <1>9 DEF ConnectorRestart, Next
<1>10. CASE \/ \E o \in Orders, r \in Rounds : PollTrades(o, r) \/ PollTradesFails(o, r) \/ PollStatus(o, r)
            \/ \E o \in Orders : \/ ExecuteCancel(o) \/ CancelFails(o)
                                 \/ ExchangeAccepts(o) \/ ExchangeRejects(o) \/ ExchangeCancels(o)
            \/ \E o \in Orders, t \in Trades : ExchangeFills(o, t)
            \/ \E o \in Orders, status \in {"CANCELED", "EXPIRED"} : ExchangeCloses(o, status)
            \/ StreamLoses
            \/ UNCHANGED connectorVars
  BY <1>10 DEF ExecuteCancel, CancelFails, PollTrades, PollTradesFails, PollStatus,
               ExchangeAccepts, ExchangeRejects, ExchangeCancels, ExchangeFills, ExchangeCloses, Closes,
               StreamLoses, connectorVars
<1> QED
  BY <1>1, <1>3, <1>4, <1>6, <1>7, <1>8, <1>9, <1>10 DEF ConnectorNext

(* Every step of the connector up to the first fill that is reported past   *)
(* the tracker is a step of the tracker's specification, so the tracker's   *)
(* theorems hold in the connector up to there.                              *)
THEOREM ConnectorImplementsTracker == ConnectorSpec => ImplementsTracker
<1>1. ConnectorInit => Init
  BY DEF ConnectorInit
<1>2. ExchangeInv /\ [ConnectorNext]_connectorVars => [NoneDirect' => Next]_vars
  BY ConnectorTracks
<1> QED
  BY <1>1, <1>2, ConnectorInvariant, PTL DEF ConnectorSpec, ImplementsTracker


(* Nothing that was reported past the tracker is forgotten. *)
LEMMA DirectGrows ==
  ASSUME ExchangeInv, [ConnectorNext]_connectorVars, NoneDirect'
  PROVE  NoneDirect
<1>0. direct \in [Orders -> [Trades -> Nat]]
  BY DEF ExchangeInv, TasksTypeOK
<1>1. CASE UNCHANGED direct
  BY <1>1 DEF NoneDirect
<1>2. ASSUME NEW o \in Orders, NEW r \in Rounds, PollTradesReturn(o, r) PROVE NoneDirect
  <2>2. CASE \E T : ReportDirectly(o, T)
    <3>1. PICK T : ReportDirectly(o, T)
      BY <2>2
    <3> DEFINE new == {t \in T : IsConfirmedNew(o, t)}
    <3>2. direct' = [direct EXCEPT ![o] =
            [t \in Trades |-> IF t \in new THEN direct[o][t] + 1 ELSE direct[o][t]]]
      BY <3>1 DEF ReportDirectly
    <3> HIDE DEF new
    <3>3. ASSUME NEW p \in Orders, NEW t \in Trades PROVE direct[p][t] = 0
      <4>1. direct[p][t] \in Nat /\ direct'[p][t] = 0
        BY <1>0 DEF NoneDirect
      <4>2. direct'[p][t] = direct[p][t] \/ direct'[p][t] = direct[p][t] + 1
        BY <1>0, <3>2
      <4> QED
        BY <4>1, <4>2
    <3> QED
      BY <3>3 DEF NoneDirect
  <2> QED
    BY <1>1, <1>2, <2>2 DEF PollTradesReturn
<1>3. CASE TrackerStep \/ ConnectorRestart \/ UserStreamEvent \/ StreamLoses \/ UNCHANGED connectorVars
  BY <1>1, <1>3 DEF TrackerStep, ConnectorRestart, UserStreamEvent, StreamLoses, connectorVars, connector
<1>4. ASSUME NEW o \in Orders,
             \/ \E amount \in Amounts : CreateOrder(o, amount) \/ RefuseOrder(o, amount)
             \/ OrderPlaced(o) \/ OrderPlacementFails(o)
             \/ ExecuteCancel(o) \/ CancelReturns(o) \/ CancelFails(o) \/ CancelTimesOut(o)
             \/ \E r \in Rounds : \/ PollTrades(o, r) \/ PollTradesFails(o, r) \/ PollStatus(o, r)
                                 \/ PollStatusReturns(o, r) \/ PollStatusFails(o, r)
             \/ ExchangeAccepts(o) \/ ExchangeRejects(o) \/ ExchangeCancels(o)
             \/ \E t \in Trades : ExchangeFills(o, t)
             \/ \E status \in {"CANCELED", "EXPIRED"} : ExchangeCloses(o, status)
      PROVE  UNCHANGED direct
  BY <1>4 DEF CreateOrder, RefuseOrder, OrderPlaced, OrderPlacementFails, ExecuteCancel, CancelReturns,
              CancelFails, CancelTimesOut, PollTrades, PollTradesFails, PollStatus, PollStatusReturns,
              PollStatusFails, ExchangeAccepts, ExchangeRejects, ExchangeCancels,
              ExchangeFills, ExchangeCloses, Closes, connector
<1> QED
  BY <1>1, <1>2, <1>3, <1>4 DEF ConnectorNext

(* So the tracker's inductive invariant holds up to there, restarts, stale  *)
(* answers and lost messages included: in particular each trade is reported *)
(* once and the database holds every trade that was.                        *)
THEOREM TrackerHolds == ConnectorSpec => [](NoneDirect => IInv)
<1>1. ConnectorInit => IInv
  BY InitIInv DEF ConnectorInit
<1>2. ExchangeInv /\ (NoneDirect => IInv) /\ [ConnectorNext]_connectorVars => (NoneDirect => IInv)'
  BY ConnectorTracks, DirectGrows, NextIInv
<1> QED
  BY <1>1, <1>2, ConnectorInvariant, PTL DEF ConnectorSpec


=============================================================================
