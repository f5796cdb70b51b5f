------------------------- MODULE GatewayEVMAMM_proofs -------------------------
(***************************************************************************)
(* Proofs about GatewayEVMAMM, for any sets of orders and trades and any   *)
(* bounds.                                                                 *)
(*                                                                         *)
(* The connector implements the specification of the order tracker, so the *)
(* tracker's invariant IInv holds in it.  The connector's own invariants   *)
(* rest on what an update in the queue and an answer under way stand for:  *)
(* one that opens or fails an order finds it as it was submitted, one that *)
(* cancels it has the chain behind it, one that fills it finds it executed *)
(* or out of reach.                                                        *)
(***************************************************************************)
EXTENDS GatewayEVMAMM, ClientOrderTracker_proofs

-----------------------------------------------------------------------------
(* The inductive invariant. *)

TasksTypeOK ==
  /\ slot \in [Orders -> Slots]
  /\ cancelsSent \in [Orders -> 0..MaxCancels]
  /\ minedCancel \in [Orders -> 0..MaxCancels]
  /\ cancelHash \in [Orders -> 0..MaxCancels]
  /\ request \subseteq started
  /\ creating \subseteq started
  /\ cancelling \in [Orders -> {"none", "asked", "sent"}]
  /\ sentHash \in [Orders -> 0..MaxCancels]
  /\ lateCancels \in [Orders -> 0..MaxCancels]
  /\ status \in [Orders -> [Rounds -> PollStates]]
  /\ confirmed \subseteq started \X Rounds
  /\ restored \subseteq started
  /\ faults \in 0..MaxFaults

(* Nothing was ever reported of the order and no answer has reached it. *)
AsSubmitted(o) ==
  /\ o \in active
  /\ order[o].state = "PENDING_CREATE"
  /\ ~order[o].idKnown
  /\ order[o].executed = 0
  /\ \A k \in EventKinds : events[o][k] = 0

(* The chain, as far as the order of its transactions goes. *)
ChainInv ==
  \A o \in Orders :
    /\ o \notin started \/ o \in request => slot[o] = "unused"
    /\ minedCancel[o] # 0 => slot[o] = "cancelled"
    /\ cancelHash[o] # 0 \/ sentHash[o] # 0 => cancelsSent[o] > 0
    /\ cancelling[o] = "sent" => sentHash[o] # 0

(* A client that knows the hash of a transaction has reported the creation *)
(* of its order, and only then has anything else under way for the order.  *)
HashKnown(o) ==
  /\ order[o].idKnown => slot[o] # "unused" /\ events[o]["Created"] > 0
  /\ order[o].state \in {"OPEN", "PENDING_CANCEL"} => order[o].idKnown
  /\ saved[o] # NotSaved =>
       /\ saved[o].idKnown => order[o].idKnown
       /\ saved[o].state \in {"OPEN", "PENDING_CANCEL"} => saved[o].idKnown
  /\ cancelling[o] # "none" => order[o].idKnown

HashInv == \A o \in Orders : HashKnown(o)

(* What the answers under way stand for. *)
AnswersInv ==
  /\ \A o \in Orders, r \in Rounds :
       /\ status[o][r] \in Answers => order[o].idKnown
       /\ status[o][r] = "success"  => slot[o] = "mined"
       /\ status[o][r] = "reverted" => slot[o] = "reverted"
       /\ status[o][r] = "unknown"  => slot[o] \in {"cancelled", "dropped"} \/ cancelsSent[o] > 0
  /\ \A c \in confirmed : order[c[1]].idKnown /\ minedCancel[c[1]] # 0

(* An answer to the submission of an order. *)
Submission(u) == u.newState \in {"OPEN", "FAILED"}

(* What an update in the queue stands for. *)
Grounded(u) ==
  LET o == u.order
  IN  /\ o \in started
      /\ u.hasExchangeId <=> u.newState = "OPEN"
      /\ u.newState \in {"OPEN", "FAILED", "PENDING_CANCEL", "CANCELED", "FILLED"}
      /\ Submission(u) => AsSubmitted(o) /\ o \notin creating
      /\ ~Submission(u) => order[o].idKnown
      /\ u.newState = "OPEN" => slot[o] # "unused"
      /\ u.newState = "PENDING_CANCEL" => cancelHash[o] # 0
      /\ u.newState = "CANCELED" => minedCancel[o] # 0
      /\ u.newState = "FILLED" =>
           /\ slot[o] = "mined"
           /\ events[o]["Failure"] = 0
           /\ o \in AllOrders => order[o].executed >= order[o].amount

UpdatesInv ==
  /\ \A i \in 1..Len(ready) : Grounded(ready[i])
  /\ \A i, j \in 1..Len(ready) :
       Submission(ready[i]) /\ Submission(ready[j]) /\ ready[i].order = ready[j].order => i = j
  /\ \A o \in creating : AsSubmitted(o)

(* What was reported of an order, against the chain and the database. *)
Accounted(o) ==
  /\ events[o]["Failure"] > 0 /\ slot[o] \in {"pending", "mined"} =>
       ~order[o].idKnown \/ cancelsSent[o] > 0
  /\ events[o]["Created"] > 0 =>
       /\ o \in active => saved[o] # NotSaved /\ IsOpen(saved[o])
       /\ Terminals(o) > 0 => o \notin active /\ (saved[o] # NotSaved => ~IsOpen(saved[o]))
  /\ o \in started => o \in active \/ Terminals(o) > 0 \/ (restarts > 0 /\ events[o]["Created"] = 0)
  /\ events[o]["Completed"] > 0 =>
       /\ events[o]["Created"] > 0
       /\ saved[o] # NotSaved => saved[o].state = "FILLED"
       /\ order[o].state # "FILLED" =>
            cancelsSent[o] > 0 /\ (cancelHash[o] # 0 \/ restarts > 0)

ReportsInv == \A o \in Orders : Accounted(o)

(* EndIsReal and CompletedOrFailed, order by order. *)
EndReal(o) ==
  /\ events[o]["Cancelled"] > 0 => minedCancel[o] # 0
  /\ events[o]["Completed"] > 0 => slot[o] = "mined"
  /\ \A t \in Trades : fillEvents[o][t] > 0 => slot[o] = "mined"

OneEnd(o) ==
  /\ events[o]["Completed"] = 0 \/ events[o]["Failure"] = 0
  /\ events[o]["Failure"] <= 1
  /\ events[o]["Completed"] > 1 => cancelsSent[o] > 0 /\ (cancelHash[o] # 0 \/ restarts > 0)

ReportedInv == ReportsInv /\ EndIsReal /\ CompletedOrFailed

(* The connector's part, and with it the tracker's. *)
ConnectorInv == TasksTypeOK /\ ChainInv /\ HashInv /\ AnswersInv /\ UpdatesInv /\ ReportedInv

GatewayInv == IInv /\ ExecutedInv /\ ConnectorInv

-----------------------------------------------------------------------------
(* Every step of the connector is one of the tracker's, or none. *)

(* What the connector schedules is an order update by client id. *)
LEMMA ScheduleAppends ==
  ASSUME NEW o \in Orders, NEW newState, NEW hasId \in BOOLEAN, ready \in Seq(OrderUpdate),
         Schedule(o, newState, hasId)
  PROVE  LET u == ClientUpdate(o, newState, hasId)
         IN  /\ u \in OrderUpdate
             /\ ready' = Append(ready, u)
             /\ ready' # ready
             /\ MaySchedule
<1> DEFINE u == ClientUpdate(o, newState, hasId)
<1>1. ScheduleUpdate(u) /\ u.newState = newState
  BY DEF Schedule, ClientUpdate
<1>2. u \in OrderUpdate
  BY <1>1 DEF ClientUpdate, OrderUpdate, ScheduleUpdate
<1>3. ready' = Append(ready, u)
  BY <1>1 DEF ScheduleUpdate, ProcessOrderUpdate
<1>4. Len(ready') = Len(ready) + 1 /\ Len(ready) \in Nat
  BY <1>2, <1>3
<1>5. MaySchedule
  BY <1>1, <1>2 DEF MaySchedule
<1> QED
  BY <1>2, <1>3, <1>4, <1>5

(* The answers under way are about orders that were created. *)
LEMMA AnswersAreTracked ==
  ASSUME GatewayInv, NEW o \in Orders, NEW r \in Rounds, status[o][r] \in Answers
  PROVE  o \in started
<1>1. events[o]["Created"] > 0
  BY DEF GatewayInv, ConnectorInv, AnswersInv, HashInv, HashKnown
<1>2. o \notin started => events[o]["Created"] = 0
  BY DEF GatewayInv, IInv, StoreInv, UntrackedHaveNoHistory, EventKinds
<1> QED
  BY <1>1, <1>2

(* The status of a transaction is used as the tracker allows. *)
LEMMA StatusReturnsTracks ==
  ASSUME GatewayInv, NEW o \in Orders, NEW r \in Rounds, StatusReturns(o, r)
  PROVE  [Next]_vars
<1>1. UNCHANGED <<started, waiting, restarts>>
  BY DEF StatusReturns
<1>2. o \in started
  BY AnswersAreTracked DEF StatusReturns
<1>3. CASE status[o][r] = "success" /\ TransactionSucceeded(o)
  <2>1. CASE GasPriceKnown(o)
    <3>1. ProcessTradeUpdates(o, Trades) /\ Schedule(o, "FILLED", FALSE)
          /\ UNCHANGED <<active, cached, notFound, events>>
      BY <1>3, <2>1 DEF TransactionSucceeded
    <3>2. MaySchedule
      BY <3>1, ScheduleAppends DEF GatewayInv, IInv, QueueTypeOK
    <3>3. Trade(o, Trades)
      BY <1>1, <1>2, <3>1, <3>2 DEF Trade
    <3> QED
      BY <3>3 DEF Next
  <2>2. CASE ~GasPriceKnown(o)
    BY <1>1, <1>3, <2>2 DEF TransactionSucceeded, vars, tracker, history
  <2> QED
    BY <2>1, <2>2
<1>4. CASE OrderNotFound(o)
  <2>1. CASE ProcessOrderNotFound(o)
    <3>1. NotFound(o)
      BY <1>1, <1>4, <2>1 DEF NotFound, OrderNotFound
    <3> QED
      BY <3>1 DEF Next
  <2>2. CASE UNCHANGED <<order, active, cached, notFound, events, saved>>
    BY <1>1, <1>4, <2>2 DEF OrderNotFound, vars, tracker, history
  <2> QED
    BY <1>4, <2>1, <2>2 DEF OrderNotFound
<1> QED
  BY <1>3, <1>4 DEF StatusReturns

(* One case per action. *)
LEMMA NextTracks == ASSUME GatewayInv, [GatewayNext]_gatewayVars PROVE [Next]_vars
<1>0. ready \in Seq(OrderUpdate)
  BY DEF GatewayInv, IInv, QueueTypeOK
<1>1. ASSUME NEW o \in Orders, NEW amount \in Amounts, CreateOrder(o, amount) PROVE [Next]_vars
  <2>1. Start(o, amount)
    BY <1>1 DEF CreateOrder, Start, MaySchedule
  <2> QED
    BY <2>1 DEF Next
<1>2. ASSUME NEW o \in Orders, NEW newState, NEW hasId \in BOOLEAN, Schedule(o, newState, hasId),
             UNCHANGED <<order, started, active, cached, notFound, waiting, history, saved, restarts>>
      PROVE  [Next]_vars
  <2>1. Update
    BY <1>0, <1>2, ScheduleAppends DEF Update
  <2> QED
    BY <2>1 DEF Next
<1>3. CASE \E o \in Orders : OrderSubmitted(o)
  BY <1>2, <1>3 DEF OrderSubmitted
<1>4. CASE \E o \in Orders : OrderSubmissionFails(o)
  BY <1>2, <1>4 DEF OrderSubmissionFails
<1>5. CASE \E o \in Orders : CancelReturns(o)
  BY <1>2, <1>5 DEF CancelReturns
<1>6. CASE \E o \in Orders, r \in Rounds : CancelConfirmed(o, r)
  <2>1. PICK o \in Orders, r \in Rounds : CancelConfirmed(o, r)
    BY <1>6
  <2>2. CASE Schedule(o, "CANCELED", FALSE)
    BY <1>2, <2>1, <2>2 DEF CancelConfirmed
  <2>3. CASE UNCHANGED ready
    BY <2>1, <2>3 DEF CancelConfirmed, vars, tracker
  <2> QED
    BY <2>1, <2>2, <2>3 DEF CancelConfirmed
<1>7. CASE \E o \in Orders, r \in Rounds : StatusReturns(o, r)
  BY <1>7, StatusReturnsTracks
<1>8. CASE TrackerStep
  BY <1>8 DEF TrackerStep, Next
<1>9. CASE GatewayRestart
  BY <1>9 DEF GatewayRestart, Next
<1>10. CASE \/ \E o \in Orders : ExecuteCancel(o)
            \/ \E o \in Orders : CancelFails(o)
            \/ \E r \in Rounds : ListOrders(r) \/ RoundFails(r)
            \/ \E o \in Orders, r \in Rounds : AskStatus(o, r)
            \/ \E o \in Orders, r \in Rounds : AskCancel(o, r)
            \/ \E o \in Orders : GatewaySends(o)
            \/ \E o \in Orders : GatewayRefuses(o)
            \/ \E o \in Orders, outcome \in {"mined", "reverted", "outOfGas", "dropped"} :
                 TransactionEnds(o, outcome)
            \/ \E o \in Orders, k \in 1..MaxCancels : CancelMined(o, k)
            \/ \E o \in Orders : GatewaySendsCancel(o)
            \/ UNCHANGED gatewayVars
  BY <1>10 DEF ExecuteCancel, CancelFails, ListOrders, RoundFails, AskStatus, AskCancel, GatewaySends, GatewayRefuses,
               TransactionEnds, CancelMined, GatewaySendsCancel, gatewayVars
<1> QED
  BY <1>1, <1>3, <1>4, <1>5, <1>6, <1>7, <1>8, <1>9, <1>10 DEF GatewayNext

-----------------------------------------------------------------------------
(* What an order update does, for this connector. *)

(* The recorder saves every active order as it is, done or not. *)
SavesActive ==
  \A p \in Orders : saved'[p] = IF p \in active THEN order'[p] ELSE NotSaved

LEMMA SavesActiveOrders ==
  ASSUME saved' = TrackingStates(order')
  PROVE  SavesActive
BY TrackingStatesAssumption DEF TrackingStates, SavesActive

LEMMA ApplyEffect ==
  ASSUME StoreTypeOK, NEW u \in OrderUpdate, ApplyOrderUpdate(u)
  PROVE  LET o == u.order
         IN  /\ OnlyOrder(o)
             /\ Updated(o, u)
             /\ \/ /\ order' = order /\ UNCHANGED <<active, cached, events, saved>>
                \/ /\ IsOpen(order'[o])
                   /\ UNCHANGED <<active, cached>>
                   /\ \/ /\ order[o].state = "PENDING_CREATE" /\ u.newState = "OPEN"
                         /\ Triggers(o, "Created") /\ SavesActive
                      \/ /\ ~(order[o].state = "PENDING_CREATE" /\ u.newState = "OPEN")
                         /\ UNCHANGED <<events, saved>>
                \/ /\ order' # order
                   /\ ~IsOpen(order'[o])
                   /\ o \notin active'
                   /\ o \in active \/ o \in cached <=> o \in cached'
                   /\ Triggers(o, CompletionKind(order'[o]))
                   /\ \/ events[o]["Created"] > 0 /\ SavesActive
                      \/ events[o]["Created"] = 0 /\ saved' = saved
BY ApplyOutcome, SavesActiveOrders

-----------------------------------------------------------------------------
(* Steps of the chain and of tasks that touch no order. *)

(* How the chain may go on. *)
ChainMoves ==
  \A o \in Orders :
    /\ slot[o] = "mined" => slot'[o] = "mined"
    /\ slot[o] # "unused" => slot'[o] # "unused"
    /\ slot'[o] \in {"pending", "mined"} =>
         slot[o] \in {"unused", "pending", "mined"} \/ cancelsSent'[o] > 0
    /\ cancelsSent[o] > 0 => cancelsSent'[o] > 0
    /\ minedCancel[o] # 0 => minedCancel'[o] # 0

(* Then what is queued and what was reported keeps its ground. *)
LEMMA ChainMovesKeep ==
  ASSUME GatewayInv, ChainMoves, UNCHANGED <<vars, creating, cancelHash>>
  PROVE  UpdatesInv' /\ ReportedInv'
<1>0. UNCHANGED <<order, started, active, cached, ready, events, fillEvents, saved, restarts>>
  BY DEF vars, tracker, history
<1>1. ASSUME NEW i \in 1..Len(ready) PROVE Grounded(ready[i])'
  <2>1. ready[i] \in OrderUpdate /\ ready[i].order \in Orders
    BY OrderUpdateParts DEF GatewayInv, IInv, QueueTypeOK
  <2>2. Grounded(ready[i])
    BY DEF GatewayInv, ConnectorInv, UpdatesInv
  <2> QED
    BY <1>0, <2>1, <2>2 DEF Grounded, Submission, AsSubmitted, AllOrders, ChainMoves
<1>2. UpdatesInv'
  BY <1>0, <1>1 DEF GatewayInv, ConnectorInv, UpdatesInv, Submission, AsSubmitted
<1>3. ReportsInv'
  <2> SUFFICES ASSUME NEW o \in Orders PROVE Accounted(o)'
    BY DEF ReportsInv
  <2> QED
    BY <1>0 DEF GatewayInv, ConnectorInv, ReportedInv, ReportsInv, Accounted, HashInv, HashKnown, ChainMoves, Terminals
<1>4. EndIsReal' /\ CompletedOrFailed'
  BY <1>0 DEF GatewayInv, ConnectorInv, ReportedInv, EndIsReal, CompletedOrFailed, ChainMoves
<1> QED
  BY <1>2, <1>3, <1>4 DEF ReportedInv

(* The chain's own steps and the gateway's. *)
LEMMA ChainStepKeeps ==
  ASSUME GatewayInv, NEW o \in Orders,
         \/ GatewaySends(o)
         \/ GatewayRefuses(o)
         \/ \E outcome \in {"mined", "reverted", "outOfGas", "dropped"} : TransactionEnds(o, outcome)
         \/ \E k \in 1..MaxCancels : CancelMined(o, k)
         \/ GatewaySendsCancel(o)
  PROVE  ConnectorInv'
<1>0. /\ UNCHANGED <<vars, creating, cancelHash, status, confirmed, restored, faults>>
      /\ UNCHANGED <<order, started, active, events, saved>>
      /\ TasksTypeOK
  BY DEF GatewaySends, GatewayRefuses, TransactionEnds, CancelMined, GatewaySendsCancel, tasks,
         vars, tracker, history, GatewayInv, ConnectorInv
<1>1. CASE GatewaySends(o) \/ GatewayRefuses(o)
  <2>1. /\ o \in request /\ request' = request \ {o}
        /\ slot' = slot \/ slot' = [slot EXCEPT ![o] = "pending"]
        /\ UNCHANGED <<cancelsSent, minedCancel, cancelling, sentHash, lateCancels>>
    BY <1>1 DEF GatewaySends, GatewayRefuses, tasks, cancels
  <2>2. slot[o] = "unused" /\ o \in started
    BY <2>1 DEF GatewayInv, ConnectorInv, TasksTypeOK, ChainInv
  <2>3. TasksTypeOK'
    BY <1>0, <2>1 DEF TasksTypeOK, Slots
  <2>4. ChainMoves /\ ChainInv'
    BY <1>0, <2>1, <2>2 DEF GatewayInv, ConnectorInv, TasksTypeOK, ChainInv, ChainMoves
  <2>5. HashInv' /\ AnswersInv'
    BY <1>0, <2>1, <2>2 DEF GatewayInv, ConnectorInv, TasksTypeOK, HashInv, HashKnown, AnswersInv
  <2> QED
    BY <1>0, <2>3, <2>4, <2>5, ChainMovesKeep DEF ConnectorInv
<1>2. CASE \E outcome \in {"mined", "reverted", "outOfGas", "dropped"} : TransactionEnds(o, outcome)
  <2>1. PICK outcome \in {"mined", "reverted", "outOfGas", "dropped"} :
          /\ slot[o] = "pending"
          /\ slot' = [slot EXCEPT ![o] = outcome]
          /\ UNCHANGED <<request, cancelsSent, minedCancel, cancelling, sentHash, lateCancels>>
    BY <1>2 DEF TransactionEnds, tasks, cancels
  <2>3. TasksTypeOK'
    BY <1>0, <2>1 DEF TasksTypeOK, Slots
  <2>4. ChainMoves /\ ChainInv'
    BY <1>0, <2>1 DEF GatewayInv, ConnectorInv, TasksTypeOK, ChainInv, ChainMoves
  <2>5. HashInv' /\ AnswersInv'
    BY <1>0, <2>1 DEF GatewayInv, ConnectorInv, TasksTypeOK, HashInv, HashKnown, AnswersInv
  <2> QED
    BY <1>0, <2>3, <2>4, <2>5, ChainMovesKeep DEF ConnectorInv
<1>3. CASE \E k \in 1..MaxCancels : CancelMined(o, k)
  <2>1. PICK k \in 1..MaxCancels :
          /\ slot[o] = "pending" /\ k <= cancelsSent[o]
          /\ slot' = [slot EXCEPT ![o] = "cancelled"]
          /\ minedCancel' = [minedCancel EXCEPT ![o] = k]
          /\ UNCHANGED <<request, cancelsSent, cancelling, sentHash, lateCancels>>
    BY <1>3 DEF CancelMined, tasks, cancels
  <2>2. k \in 0..MaxCancels /\ k # 0
    BY BoundsAssumption
  <2>3. TasksTypeOK'
    BY <1>0, <2>1, <2>2 DEF TasksTypeOK, Slots
  <2>4. ChainMoves /\ ChainInv'
    BY <1>0, <2>1, <2>2 DEF GatewayInv, ConnectorInv, TasksTypeOK, ChainInv, ChainMoves
  <2>5. HashInv' /\ AnswersInv'
    BY <1>0, <2>1, <2>2 DEF GatewayInv, ConnectorInv, TasksTypeOK, HashInv, HashKnown, AnswersInv
  <2> QED
    BY <1>0, <2>3, <2>4, <2>5, ChainMovesKeep DEF ConnectorInv
<1>4. CASE GatewaySendsCancel(o)
  <2> DEFINE n == cancelsSent[o] + 1
  <2>1. /\ slot[o] \in {"pending", "dropped"} /\ cancelsSent[o] < MaxCancels
        /\ slot' = [slot EXCEPT ![o] = "pending"]
        /\ cancelsSent' = [cancelsSent EXCEPT ![o] = n]
        /\ UNCHANGED <<request, minedCancel>>
    BY <1>4 DEF GatewaySendsCancel
  <2>2. n \in 0..MaxCancels /\ n > 0 /\ cancelsSent'[o] = n
    BY <1>0, <2>1, BoundsAssumption DEF TasksTypeOK
  <2>3. \/ /\ cancelling[o] = "asked"
           /\ cancelling' = [cancelling EXCEPT ![o] = "sent"]
           /\ sentHash' = [sentHash EXCEPT ![o] = n]
           /\ lateCancels' = lateCancels
        \/ /\ lateCancels[o] > 0
           /\ lateCancels' = [lateCancels EXCEPT ![o] = lateCancels[o] - 1]
           /\ UNCHANGED <<cancelling, sentHash>>
    BY <1>4, <2>2 DEF GatewaySendsCancel
  <2> HIDE DEF n
  <2>4. lateCancels' \in [Orders -> 0..MaxCancels]
    BY <1>0, <2>3, BoundsAssumption DEF TasksTypeOK
  <2>5. TasksTypeOK'
    <3>1. sentHash' \in [Orders -> 0..MaxCancels]
      BY <1>0, <2>2, <2>3 DEF TasksTypeOK
    <3>2. cancelling' \in [Orders -> {"none", "asked", "sent"}]
      BY <1>0, <2>3 DEF TasksTypeOK
    <3>3. cancelsSent' \in [Orders -> 0..MaxCancels] /\ slot' \in [Orders -> Slots]
      BY <1>0, <2>1, <2>2 DEF TasksTypeOK, Slots
    <3> QED
      BY <1>0, <2>1, <2>4, <3>1, <3>2, <3>3 DEF TasksTypeOK
  <2>6. ChainMoves /\ ChainInv'
    BY <1>0, <2>1, <2>2, <2>3 DEF GatewayInv, ConnectorInv, TasksTypeOK, ChainInv, ChainMoves
  <2>7. HashInv' /\ AnswersInv'
    BY <1>0, <2>1, <2>2, <2>3 DEF GatewayInv, ConnectorInv, TasksTypeOK, HashInv, HashKnown, AnswersInv
  <2> QED
    BY <1>0, <2>5, <2>6, <2>7, ChainMovesKeep DEF ConnectorInv
<1> QED
  BY <1>1, <1>2, <1>3, <1>4

(* The cancel requests that travel on stay within their bound. *)
LEMMA LateBounded == ASSUME TasksTypeOK, NEW o \in Orders PROVE Late(o) \in 0..MaxCancels
BY BoundsAssumption DEF TasksTypeOK, Late

(* A round lists the open orders, or is over. *)
LEMMA RoundKeeps ==
  ASSUME GatewayInv, NEW r \in Rounds, ListOrders(r) \/ RoundFails(r)
  PROVE  ConnectorInv'
<1>0. /\ UNCHANGED <<vars, chain, creating, cancelling, sentHash, lateCancels, cancelHash>>
      /\ UNCHANGED <<confirmed, restored, faults>>
      /\ UNCHANGED <<order, started, active, events, saved, slot, cancelsSent, minedCancel, request>>
      /\ TasksTypeOK
  BY DEF ListOrders, RoundFails, cancels, vars, tracker, history, chain, GatewayInv, ConnectorInv
<1>1. ChainMoves
  BY <1>0 DEF ChainMoves
<1>2. UpdatesInv' /\ ReportedInv'
  BY <1>0, <1>1, ChainMovesKeep
<1>3. PICK f \in [Orders -> PollStates] :
        /\ \A o \in Orders : f[o] \in {"none", "listed", status[o][r]}
        /\ status' = [o \in Orders |-> [status[o] EXCEPT ![r] = f[o]]]
  <2>1. CASE ListOrders(r)
    <3> DEFINE f == [o \in Orders |-> IF o \in active THEN "listed" ELSE status[o][r]]
    <3>1. f \in [Orders -> PollStates] /\ \A o \in Orders : f[o] \in {"none", "listed", status[o][r]}
      BY <1>0 DEF TasksTypeOK, PollStates
    <3>2. status' = [o \in Orders |-> [status[o] EXCEPT ![r] = f[o]]]
      BY <2>1 DEF ListOrders
    <3> QED
      BY <3>1, <3>2
  <2>2. CASE RoundFails(r)
    <3> DEFINE f == [o \in Orders |-> IF status[o][r] = "listed" THEN "none" ELSE status[o][r]]
    <3>1. f \in [Orders -> PollStates] /\ \A o \in Orders : f[o] \in {"none", "listed", status[o][r]}
      BY <1>0 DEF TasksTypeOK, PollStates
    <3>2. status' = [o \in Orders |-> [status[o] EXCEPT ![r] = f[o]]]
      BY <2>2 DEF RoundFails
    <3> QED
      BY <3>1, <3>2
  <2> QED
    BY <2>1, <2>2
<1>4. \A o \in Orders, q \in Rounds : status'[o][q] \in Answers => status'[o][q] = status[o][q]
  BY <1>0, <1>3 DEF TasksTypeOK, Answers
<1>5. TasksTypeOK'
  BY <1>0, <1>3 DEF TasksTypeOK
<1>6. ChainInv' /\ HashInv'
  BY <1>0 DEF GatewayInv, ConnectorInv, ChainInv, HashInv, HashKnown
<1>7. AnswersInv'
  BY <1>0, <1>4 DEF GatewayInv, ConnectorInv, AnswersInv, Answers
<1> QED
  BY <1>2, <1>5, <1>6, <1>7 DEF ConnectorInv

(* The tasks, as long as they only ask or give up. *)
LEMMA TaskStepKeeps ==
  ASSUME GatewayInv, NEW o \in Orders,
         \/ ExecuteCancel(o)
         \/ CancelFails(o)
         \/ \E r \in Rounds : AskStatus(o, r)
         \/ \E r \in Rounds : AskCancel(o, r)
  PROVE  ConnectorInv'
<1>0. /\ UNCHANGED <<vars, chain, creating, cancelHash, restored>>
      /\ UNCHANGED <<order, started, active, events, saved, slot, cancelsSent, minedCancel, request>>
      /\ TasksTypeOK
  BY DEF ExecuteCancel, CancelFails, AskStatus, AskCancel, vars, tracker, history, chain, GatewayInv, ConnectorInv
<1>1. ChainMoves
  BY <1>0 DEF ChainMoves
<1>2. UpdatesInv' /\ ReportedInv'
  BY <1>0, <1>1, ChainMovesKeep
<1>3. CASE ExecuteCancel(o) \/ CancelFails(o)
  <2>1. /\ \/ /\ cancelling' = [cancelling EXCEPT ![o] = "asked"] /\ order[o].state = "OPEN"
              /\ UNCHANGED <<sentHash, lateCancels>>
           \/ /\ cancelling' = [cancelling EXCEPT ![o] = "none"]
              /\ sentHash' = [sentHash EXCEPT ![o] = 0]
              /\ lateCancels' = lateCancels \/ lateCancels' = [lateCancels EXCEPT ![o] = Late(o)]
        /\ UNCHANGED <<status, confirmed, faults>>
    BY <1>3 DEF ExecuteCancel, CancelFails, CancelEnds
  <2>2. TasksTypeOK'
    <3>1. 0 \in 0..MaxCancels /\ Late(o) \in 0..MaxCancels
      BY <1>0, LateBounded, BoundsAssumption
    <3>2. cancelling' \in [Orders -> {"none", "asked", "sent"}]
      BY <1>0, <2>1 DEF TasksTypeOK
    <3>3. sentHash' \in [Orders -> 0..MaxCancels]
      BY <1>0, <2>1, <3>1 DEF TasksTypeOK
    <3>4. lateCancels' \in [Orders -> 0..MaxCancels]
      BY <1>0, <2>1, <3>1 DEF TasksTypeOK
    <3> QED
      BY <1>0, <2>1, <3>2, <3>3, <3>4 DEF TasksTypeOK
  <2>3. ChainInv' /\ HashInv'
    BY <1>0, <2>1 DEF GatewayInv, ConnectorInv, TasksTypeOK, ChainInv, HashInv, HashKnown
  <2>4. AnswersInv'
    BY <1>0, <2>1 DEF GatewayInv, ConnectorInv, AnswersInv
  <2> QED
    BY <1>2, <2>2, <2>3, <2>4 DEF ConnectorInv
<1>4. CASE \E r \in Rounds : AskStatus(o, r)
  <2>1. PICK r \in Rounds : AskStatus(o, r)
    BY <1>4
  <2>2. PICK answer \in NodeAnswers(o) \cup {"error"} :
          status' = [status EXCEPT ![o][r] =
                       IF answer \in NotFoundAnswers \cup {"success"} THEN answer ELSE "none"]
    BY <2>1 DEF AskStatus
  <2>3. PICK kept \in PollStates :
          /\ status' = [status EXCEPT ![o][r] = kept]
          /\ kept \in {"none", "success", "reverted", "unknown"}
          /\ kept = answer \/ kept = "none"
    BY <2>2 DEF NotFoundAnswers, PollStates, Answers
  <2>4. order[o].idKnown /\ UNCHANGED <<cancelling, sentHash, lateCancels, confirmed, faults>>
    BY <2>1 DEF AskStatus, HashesKnown, Listed, cancels
  <2>5. /\ kept = "success" => slot[o] = "mined"
        /\ kept = "reverted" => slot[o] = "reverted"
        /\ kept = "unknown" => slot[o] \in {"cancelled", "dropped"} \/ cancelsSent[o] > 0
    <3>1. slot[o] # "unused" /\ slot[o] \in Slots
      BY <1>0, <2>4 DEF GatewayInv, ConnectorInv, HashInv, HashKnown, TasksTypeOK
    <3> QED
      BY <2>2, <2>3, <3>1 DEF NodeAnswers, Slots
  <2>6. TasksTypeOK'
    BY <1>0, <2>3, <2>4 DEF TasksTypeOK
  <2>7. ChainInv' /\ HashInv'
    BY <1>0, <2>4 DEF GatewayInv, ConnectorInv, ChainInv, HashInv, HashKnown
  <2>8. AnswersInv'
    BY <1>0, <2>3, <2>4, <2>5 DEF GatewayInv, ConnectorInv, TasksTypeOK, AnswersInv, Answers
  <2> QED
    BY <1>2, <2>6, <2>7, <2>8 DEF ConnectorInv
<1>5. CASE \E r \in Rounds : AskCancel(o, r)
  <2>1. PICK r \in Rounds :
          /\ o \in active
          /\ order[o].state = "PENDING_CANCEL" /\ cancelHash[o] # 0 /\ minedCancel[o] = cancelHash[o]
          /\ confirmed' = confirmed \cup {<<o, r>>}
          /\ UNCHANGED <<cancelling, sentHash, lateCancels, status, faults>>
    BY <1>5 DEF AskCancel, cancels
  <2>2. o \in started
    BY <2>1 DEF GatewayInv, IInv, StoreInv, StoreTypeOK
  <2>3. TasksTypeOK'
    BY <1>0, <2>1, <2>2 DEF TasksTypeOK
  <2>4. ChainInv' /\ HashInv'
    BY <1>0, <2>1 DEF GatewayInv, ConnectorInv, ChainInv, HashInv, HashKnown
  <2>5. AnswersInv'
    BY <1>0, <2>1 DEF GatewayInv, ConnectorInv, AnswersInv, HashInv, HashKnown
  <2> QED
    BY <1>2, <2>3, <2>4, <2>5 DEF ConnectorInv
<1> QED
  BY <1>3, <1>4, <1>5

-----------------------------------------------------------------------------
(* Steps that schedule an order update. *)

(* One more update in the queue, with grounds of its own. *)
LEMMA ScheduleKeeps ==
  ASSUME GatewayInv, NEW u \in OrderUpdate, ready' = Append(ready, u), Grounded(u)',
         UNCHANGED <<order, started, active, cached, events, fillEvents, saved, restarts>>,
         UNCHANGED <<chain>>,
         creating' \subseteq creating,
         \A p \in Orders : cancelHash[p] # 0 => cancelHash'[p] # 0,
         Submission(u) => u.order \in creating
  PROVE  UpdatesInv' /\ ReportedInv'
<1>0. /\ UNCHANGED <<slot, cancelsSent, minedCancel, request>>
      /\ ready \in Seq(OrderUpdate)
  BY DEF chain, GatewayInv, IInv, QueueTypeOK
<1>1. /\ Len(ready') = Len(ready) + 1
      /\ \A i \in 1..Len(ready) : ready'[i] = ready[i]
      /\ ready'[Len(ready) + 1] = u
      /\ Len(ready) \in Nat
  BY <1>0
<1>2. ASSUME NEW i \in 1..Len(ready) PROVE Grounded(ready[i])' /\ (Submission(ready[i]) => ready[i].order \notin creating)
  <2>1. ready[i] \in OrderUpdate /\ ready[i].order \in Orders
    BY <1>0, OrderUpdateParts
  <2>2. Grounded(ready[i])
    BY DEF GatewayInv, ConnectorInv, UpdatesInv
  <2> QED
    BY <1>0, <1>1, <2>1, <2>2 DEF Grounded, Submission, AsSubmitted, AllOrders
<1>3. \A i \in 1..Len(ready') : Grounded(ready[i])' 
  BY <1>1, <1>2
<1>4. \A i, j \in 1..Len(ready') :
        Submission(ready'[i]) /\ Submission(ready'[j]) /\ ready'[i].order = ready'[j].order => i = j
  BY <1>1, <1>2 DEF GatewayInv, ConnectorInv, UpdatesInv
<1>5. \A p \in creating' : AsSubmitted(p)'
  BY DEF GatewayInv, ConnectorInv, UpdatesInv, AsSubmitted
<1>6. UpdatesInv'
  BY <1>3, <1>4, <1>5 DEF UpdatesInv, Submission
<1>7. ReportsInv'
  <2> SUFFICES ASSUME NEW p \in Orders PROVE Accounted(p)'
    BY DEF ReportsInv
  <2> QED
    BY <1>0 DEF GatewayInv, ConnectorInv, ReportedInv, ReportsInv, Accounted, Terminals
<1>8. EndIsReal' /\ CompletedOrFailed'
  BY <1>0 DEF GatewayInv, ConnectorInv, ReportedInv, EndIsReal, CompletedOrFailed
<1> QED
  BY <1>6, <1>7, <1>8 DEF ReportedInv

(* The submission of an order is answered, or its answer is lost. *)
LEMMA SubmissionKeeps ==
  ASSUME GatewayInv, NEW o \in Orders, OrderSubmitted(o) \/ OrderSubmissionFails(o)
  PROVE  ConnectorInv'
<1>1. /\ o \in creating /\ creating' = creating \ {o}
      /\ UNCHANGED <<order, started, active, cached, events, fillEvents, saved, restarts>>
      /\ UNCHANGED chain
      /\ UNCHANGED <<cancelling, sentHash, lateCancels, cancelHash, status, confirmed, restored>>
      /\ UNCHANGED <<slot, cancelsSent, minedCancel, request>>
  BY DEF OrderSubmitted, OrderSubmissionFails, history, chain, cancels
<1>2. PICK newState \in {"OPEN", "FAILED"} :
        /\ Schedule(o, newState, newState = "OPEN")
        /\ newState = "OPEN" => slot[o] # "unused"
  <2>1. CASE OrderSubmitted(o)
    <3>1. Schedule(o, "OPEN", TRUE) /\ slot[o] # "unused"
      BY <2>1 DEF OrderSubmitted
    <3> QED
      BY <3>1, Zenon
  <2>2. CASE OrderSubmissionFails(o)
    <3>1. Schedule(o, "FAILED", FALSE) /\ ("FAILED" = "OPEN") = FALSE
      BY <2>2 DEF OrderSubmissionFails
    <3>2. Schedule(o, "FAILED", "FAILED" = "OPEN")
      BY <3>1
    <3> QED
      BY <3>1, <3>2
  <2> QED
    BY <2>1, <2>2
<1> DEFINE u == ClientUpdate(o, newState, newState = "OPEN")
<1>3. u \in OrderUpdate /\ ready' = Append(ready, u)
  BY <1>2, ScheduleAppends DEF GatewayInv, IInv, QueueTypeOK
<1>4. u.order = o /\ u.newState = newState /\ (u.hasExchangeId <=> u.newState = "OPEN")
  BY DEF ClientUpdate
<1> HIDE DEF u
<1>5. AsSubmitted(o) /\ o \in started
  BY <1>1 DEF GatewayInv, ConnectorInv, UpdatesInv, TasksTypeOK
<1>6. Grounded(u)'
  BY <1>1, <1>2, <1>4, <1>5 DEF Grounded, Submission, AsSubmitted
<1>7. UpdatesInv' /\ ReportedInv'
  BY <1>1, <1>3, <1>4, <1>6, ScheduleKeeps
<1>8. faults' \in 0..MaxFaults
  <2>1. faults \in 0..MaxFaults
    BY DEF GatewayInv, ConnectorInv, TasksTypeOK
  <2>2. faults' = faults \/ (faults < MaxFaults /\ faults' = faults + 1)
    BY DEF OrderSubmitted, OrderSubmissionFails, Fault
  <2> QED
    BY <2>1, <2>2, BoundsAssumption
<1>9. TasksTypeOK'
  BY <1>1, <1>8 DEF GatewayInv, ConnectorInv, TasksTypeOK
<1>10. ChainInv' /\ HashInv' /\ AnswersInv'
  BY <1>1 DEF GatewayInv, ConnectorInv, ChainInv, HashInv, HashKnown, AnswersInv
<1> QED
  BY <1>7, <1>9, <1>10 DEF ConnectorInv

(* The answer to a cancel brings the hash of its transaction. *)
LEMMA CancelReturnsKeeps ==
  ASSUME GatewayInv, NEW o \in Orders, CancelReturns(o)
  PROVE  ConnectorInv'
<1> DEFINE u == ClientUpdate(o, "PENDING_CANCEL", FALSE)
<1>1. /\ cancelling[o] = "sent"
      /\ cancelling' = [cancelling EXCEPT ![o] = "none"]
      /\ sentHash' = [sentHash EXCEPT ![o] = 0] /\ lateCancels' = lateCancels
      /\ cancelHash' = [cancelHash EXCEPT ![o] = sentHash[o]]
      /\ Schedule(o, "PENDING_CANCEL", FALSE)
      /\ UNCHANGED <<order, started, active, cached, events, fillEvents, saved, restarts>>
      /\ UNCHANGED <<chain, creating, status, confirmed, restored, faults>>
      /\ UNCHANGED <<slot, cancelsSent, minedCancel, request>>
  BY DEF CancelReturns, CancelEnds, history, chain
<1>2. u \in OrderUpdate /\ ready' = Append(ready, u)
  BY <1>1, ScheduleAppends DEF GatewayInv, IInv, QueueTypeOK
<1>3. u.order = o /\ u.newState = "PENDING_CANCEL" /\ u.hasExchangeId = FALSE
  BY DEF ClientUpdate
<1> HIDE DEF u
<1>4. TasksTypeOK /\ sentHash[o] # 0 /\ cancelsSent[o] > 0 /\ order[o].idKnown
  BY <1>1 DEF GatewayInv, ConnectorInv, ChainInv, HashInv, HashKnown
<1>5. sentHash[o] \in 0..MaxCancels /\ cancelHash'[o] = sentHash[o] /\ cancelHash'[o] # 0
      /\ \A p \in Orders : cancelHash[p] # 0 => cancelHash'[p] # 0
  BY <1>1, <1>4, BoundsAssumption DEF TasksTypeOK
<1>6. o \in started
  BY <1>4 DEF GatewayInv, ConnectorInv, HashInv, HashKnown, IInv, StoreInv, UntrackedHaveNoHistory, EventKinds
<1>7. Grounded(u)'
  BY <1>1, <1>3, <1>4, <1>5, <1>6 DEF Grounded, Submission
<1>8. UpdatesInv' /\ ReportedInv'
  BY <1>1, <1>2, <1>3, <1>5, <1>7, ScheduleKeeps DEF Submission
<1>9. TasksTypeOK'
  <2>1. 0 \in 0..MaxCancels
    BY BoundsAssumption
  <2>2. cancelling' \in [Orders -> {"none", "asked", "sent"}]
    BY <1>1, <1>4 DEF TasksTypeOK
  <2>3. sentHash' \in [Orders -> 0..MaxCancels] /\ cancelHash' \in [Orders -> 0..MaxCancels]
    BY <1>1, <1>4, <1>5, <2>1 DEF TasksTypeOK
  <2> QED
    BY <1>1, <1>4, <2>2, <2>3 DEF TasksTypeOK
<1>10. ChainInv' /\ HashInv' /\ AnswersInv'
  BY <1>1, <1>4 DEF GatewayInv, ConnectorInv, TasksTypeOK, ChainInv, HashInv, HashKnown, AnswersInv
<1> QED
  BY <1>8, <1>9, <1>10 DEF ConnectorInv

(* The answer that a cancel transaction is on the chain. *)
LEMMA CancelConfirmedKeeps ==
  ASSUME GatewayInv, NEW o \in Orders, NEW r \in Rounds, CancelConfirmed(o, r)
  PROVE  ConnectorInv'
<1> DEFINE u == ClientUpdate(o, "CANCELED", FALSE)
<1>1. /\ <<o, r>> \in confirmed /\ confirmed' = confirmed \ {<<o, r>>}
      /\ Schedule(o, "CANCELED", FALSE) \/ ready' = ready
      /\ UNCHANGED <<order, started, active, cached, notFound, waiting, events, fillEvents, saved, restarts>>
      /\ UNCHANGED <<chain, creating, cancelling, sentHash, lateCancels, cancelHash, status, restored, faults>>
      /\ UNCHANGED <<slot, cancelsSent, minedCancel, request>>
  BY DEF CancelConfirmed, history, chain, cancels
<1>2. order[o].idKnown /\ minedCancel[o] # 0 /\ o \in started
  BY <1>1 DEF GatewayInv, ConnectorInv, AnswersInv, TasksTypeOK
<1>3. TasksTypeOK' /\ ChainInv' /\ HashInv' /\ AnswersInv'
  BY <1>1 DEF GatewayInv, ConnectorInv, TasksTypeOK, ChainInv, HashInv, HashKnown, AnswersInv
<1>4. CASE Schedule(o, "CANCELED", FALSE)
  <2>1. u \in OrderUpdate /\ ready' = Append(ready, u)
    BY <1>4, ScheduleAppends DEF GatewayInv, IInv, QueueTypeOK
  <2>2. u.order = o /\ u.newState = "CANCELED" /\ u.hasExchangeId = FALSE
    BY DEF ClientUpdate
  <2> HIDE DEF u
  <2>3. Grounded(u)'
    BY <1>1, <1>2, <2>2 DEF Grounded, Submission
  <2>4. UpdatesInv' /\ ReportedInv'
    BY <1>1, <2>1, <2>2, <2>3, ScheduleKeeps DEF Submission
  <2> QED
    BY <1>3, <2>4 DEF ConnectorInv
<1>5. CASE ready' = ready
  <2>1. UNCHANGED <<vars, creating, cancelHash>>
    BY <1>1, <1>5 DEF vars, tracker, history
  <2>2. ChainMoves
    BY <1>1 DEF ChainMoves
  <2> QED
    BY <1>3, <2>1, <2>2, ChainMovesKeep DEF ConnectorInv
<1> QED
  BY <1>1, <1>4, <1>5

-----------------------------------------------------------------------------
(* A new order, and an order that leaves the cache. *)

LEMMA CreateKeeps ==
  ASSUME GatewayInv, IInv', NEW o \in Orders, NEW amount \in Amounts, CreateOrder(o, amount)
  PROVE  ConnectorInv'
<1>1. /\ o \notin started
      /\ order' = [order EXCEPT ![o] = NewOrder(amount)]
      /\ started' = started \cup {o}
      /\ active' = active \cup {o}
      /\ request' = request \cup {o}
      /\ creating' = creating \cup {o}
      /\ UNCHANGED <<cached, ready, events, fillEvents, saved, restarts>>
      /\ UNCHANGED <<slot, cancelsSent, minedCancel>>
      /\ UNCHANGED <<cancelling, sentHash, lateCancels, cancelHash, status, confirmed, restored, faults>>
  BY DEF CreateOrder, StartTrackingOrder, history, cancels
<1>2. /\ TasksTypeOK /\ ChainInv /\ HashInv /\ AnswersInv /\ UpdatesInv /\ ReportedInv
      /\ order \in [Orders -> Order] /\ started \subseteq Orders /\ cached \subseteq started /\ active \subseteq started
  BY DEF GatewayInv, ConnectorInv, IInv, StoreInv, StoreTypeOK
<1>3. /\ \A k \in EventKinds : events[o][k] = 0
      /\ saved[o] = NotSaved
  BY <1>1 DEF GatewayInv, IInv, StoreInv, UntrackedHaveNoHistory
<1>4. /\ order'[o] = NewOrder(amount)
      /\ \A p \in Orders \ {o} : order'[p] = order[p]
  BY <1>1, <1>2
<1>5. /\ order'[o].state = "PENDING_CREATE"
      /\ order'[o].idKnown = FALSE /\ order'[o].executed = 0
  BY <1>4 DEF NewOrder
<1>6. AsSubmitted(o)'
  BY <1>1, <1>3, <1>5 DEF AsSubmitted
<1>7. ~order[o].idKnown
  BY <1>2, <1>3 DEF HashInv, HashKnown, EventKinds
<1>8. TasksTypeOK'
  BY <1>1, <1>2 DEF TasksTypeOK
<1>9. ChainInv'
  BY <1>1, <1>2 DEF ChainInv
<1>10. HashInv'
  BY <1>1, <1>2, <1>3, <1>4, <1>5, <1>7 DEF HashInv, HashKnown
<1>11. AnswersInv'
  BY <1>1, <1>2, <1>4, <1>7 DEF AnswersInv, TasksTypeOK, Answers
<1>12. ASSUME NEW v \in OrderUpdate, Grounded(v) PROVE Grounded(v)'
  <2>1. v.order # o /\ v.order \in Orders
    BY <1>1, <1>2, <1>12 DEF Grounded
  <2> QED
    BY <1>1, <1>4, <1>12, <2>1 DEF Grounded, Submission, AsSubmitted, AllOrders
<1>13. UpdatesInv'
  <2>0. \A i \in 1..Len(ready) : ready[i] \in OrderUpdate /\ Grounded(ready[i])
    BY <1>2 DEF UpdatesInv, GatewayInv, IInv, QueueTypeOK
  <2>1. \A i \in 1..Len(ready) : Grounded(ready[i])'
    BY <1>1, <1>12, <2>0
  <2>2. \A p \in creating' : AsSubmitted(p)'
    BY <1>1, <1>2, <1>4, <1>6 DEF UpdatesInv, AsSubmitted, TasksTypeOK
  <2> QED
    BY <1>1, <1>2, <2>1, <2>2 DEF UpdatesInv, Submission
<1>14. ReportsInv'
  <2> SUFFICES ASSUME NEW p \in Orders PROVE Accounted(p)'
    BY DEF ReportsInv
  <2>1. CASE p = o
    BY <1>1, <1>3, <2>1 DEF Accounted, EventKinds
  <2>2. CASE p # o
    BY <1>1, <1>2, <1>4, <2>2 DEF ReportedInv, ReportsInv, Accounted, Terminals
  <2> QED
    BY <2>1, <2>2
<1>15. EndIsReal' /\ CompletedOrFailed'
  BY <1>1, <1>2 DEF ReportedInv, EndIsReal, CompletedOrFailed
<1> QED
  BY <1>8, <1>9, <1>10, <1>11, <1>13, <1>14, <1>15 DEF ConnectorInv, ReportedInv

LEMMA EvictKeeps ==
  ASSUME GatewayInv, NEW o \in Orders, Evict(o), UNCHANGED <<chain, tasks, faults>>
  PROVE  ConnectorInv'
<1>1. /\ cached' = cached \ {o}
      /\ UNCHANGED <<order, started, active, ready, events, fillEvents, saved, restarts>>
      /\ UNCHANGED <<slot, cancelsSent, minedCancel, request>>
      /\ UNCHANGED <<creating, cancelling, sentHash, lateCancels, cancelHash, status, confirmed, restored, faults>>
  BY DEF Evict, history, chain, tasks, cancels
<1>2. TasksTypeOK' /\ ChainInv' /\ HashInv' /\ AnswersInv'
  BY <1>1 DEF GatewayInv, ConnectorInv, TasksTypeOK, ChainInv, HashInv, HashKnown, AnswersInv
<1>3. \A i \in 1..Len(ready) : Grounded(ready[i])'
  BY <1>1 DEF GatewayInv, ConnectorInv, UpdatesInv, Grounded, Submission, AsSubmitted, AllOrders
<1>4. UpdatesInv'
  BY <1>1, <1>3 DEF GatewayInv, ConnectorInv, UpdatesInv, Submission, AsSubmitted
<1>5. ReportsInv' /\ EndIsReal' /\ CompletedOrFailed'
  BY <1>1 DEF GatewayInv, ConnectorInv, ReportedInv, ReportsInv, Accounted, EndIsReal, CompletedOrFailed, Terminals
<1> QED
  BY <1>2, <1>4, <1>5 DEF ConnectorInv, ReportedInv

-----------------------------------------------------------------------------
(* A restart. *)

(* The tasks and the queue are gone; what is restored was open when it was  *)
(* saved, so nothing was reported as its end.                               *)
LEMMA RestartKeeps ==
  ASSUME GatewayInv, IInv', GatewayRestart
  PROVE  ConnectorInv'
<1>1. /\ order' = [o \in Orders |-> IF saved[o] # NotSaved THEN saved[o] ELSE order[o]]
      /\ active' = {o \in Orders : saved[o] # NotSaved /\ IsOpen(saved[o])}
      /\ restarts' = restarts + 1
      /\ ready' = <<>>
      /\ UNCHANGED <<started, events, fillEvents, saved>>
      /\ UNCHANGED <<slot, cancelsSent, minedCancel, request, faults>>
      /\ creating' = {}
      /\ cancelling' = [o \in Orders |-> "none"]
      /\ sentHash' = [o \in Orders |-> 0]
      /\ lateCancels' = [o \in Orders |-> Late(o)]
      /\ cancelHash' = [o \in Orders |-> 0]
      /\ status' = [o \in Orders |-> [r \in Rounds |-> "none"]]
      /\ confirmed' = {}
      /\ restored' = active'
  BY DEF GatewayRestart, Restart, RestoreTrackingStates, history, chain
<1>2. /\ TasksTypeOK /\ ChainInv /\ HashInv /\ ReportedInv
      /\ restarts \in Nat /\ active' \subseteq started'
      /\ \A o \in Orders, k \in EventKinds : events[o][k] \in Nat
  BY DEF GatewayInv, ConnectorInv, IInv, StoreInv, StoreTypeOK
<1>3. \A o \in Orders : order'[o] = IF saved[o] # NotSaved THEN saved[o] ELSE order[o]
  BY <1>1
<1>4. TasksTypeOK'
  <2>1. lateCancels' \in [Orders -> 0..MaxCancels]
    BY <1>1, <1>2, LateBounded
  <2> QED
    BY <1>1, <1>2, <2>1, BoundsAssumption DEF TasksTypeOK, PollStates
<1>5. ChainInv'
  BY <1>1, <1>2 DEF ChainInv
<1>6. HashInv'
  BY <1>1, <1>2, <1>3 DEF HashInv, HashKnown
<1>7. AnswersInv'
  BY <1>1 DEF AnswersInv, Answers
<1>8. UpdatesInv'
  BY <1>1 DEF UpdatesInv
<1>9. ReportsInv'
  <2> SUFFICES ASSUME NEW o \in Orders PROVE Accounted(o)'
    BY DEF ReportsInv
  <2>1. Accounted(o) /\ Terminals(o)' = Terminals(o)
    BY <1>1, <1>2 DEF ReportedInv, ReportsInv, Terminals
  <2>2. order'[o].idKnown => order[o].idKnown
    BY <1>2, <1>3 DEF HashInv, HashKnown
  <2>3. events[o]["Completed"] > 0 /\ order'[o].state # "FILLED" => order[o].state # "FILLED"
    BY <1>3, <2>1 DEF Accounted
  <2>4. o \in started => o \in active' \/ Terminals(o) > 0 \/ events[o]["Created"] = 0
    BY <1>1, <1>2, <2>1 DEF Accounted, EventKinds
  <2>5. restarts' > 0
    BY <1>1, <1>2
  <2> QED
    BY <1>1, <2>1, <2>2, <2>3, <2>4, <2>5 DEF Accounted
<1>10. EndIsReal'
  BY <1>1, <1>2 DEF ReportedInv, EndIsReal
<1>11. CompletedOrFailed'
  BY <1>1, <1>2 DEF ReportedInv, CompletedOrFailed
<1> QED
  BY <1>4, <1>5, <1>6, <1>7, <1>8, <1>9, <1>10, <1>11 DEF ConnectorInv, ReportedInv

-----------------------------------------------------------------------------
(* An order update reaches its order. *)

Linked(o) == HashKnown(o) /\ Accounted(o) /\ EndReal(o) /\ OneEnd(o)

(* The steps below leave the chain and the connector's tasks alone. *)
ConnectorStill ==
  UNCHANGED <<started, restarts, slot, cancelsSent, minedCancel, request,
              creating, cancelling, cancelHash>>
TasksStill == ConnectorStill /\ UNCHANGED fillEvents

LEMMA AllLinked == ASSUME GatewayInv, NEW o \in Orders PROVE Linked(o)
BY DEF GatewayInv, ConnectorInv, ReportedInv, ReportsInv, HashInv, EndIsReal, CompletedOrFailed,
       Linked, EndReal, OneEnd

LEMMA LinkedNext ==
  ASSUME \A o \in Orders : Linked(o)'
  PROVE  HashInv' /\ ReportedInv'
BY DEF ReportedInv, ReportsInv, HashInv, EndIsReal, CompletedOrFailed, Linked, EndReal, OneEnd

(* The other orders keep their links, whether or not the recorder saves. *)
LEMMA OthersLinked ==
  ASSUME GatewayInv, IInv', ConnectorStill, NEW o \in Orders, OnlyOrder(o),
         saved' = saved \/ SavesActive, NEW p \in Orders \ {o}, fillEvents'[p] = fillEvents[p]
  PROVE  Linked(p)'
<1>1. /\ order'[p] = order[p]
      /\ p \in active' <=> p \in active
      /\ \A k \in EventKinds : events'[p][k] = events[p][k]
  BY DEF OnlyOrder
<1>2. Linked(p) /\ Terminals(p)' = Terminals(p)
  BY <1>1, AllLinked DEF Terminals, EventKinds
<1>3. \/ saved'[p] = saved[p]
      \/ saved'[p] = IF p \in active THEN order[p] ELSE NotSaved
  BY <1>1 DEF SavesActive
<1>4. p \in active => IsOpen(order[p])
  BY DEF GatewayInv, IInv, StoreInv, ActiveOrdersAreOpen
<1>5. HashKnown(p)'
  BY <1>1, <1>2, <1>3 DEF Linked, HashKnown, ConnectorStill, EventKinds
<1>6. Accounted(p)'
  <2>1. Accounted(p)
    BY <1>2 DEF Linked
  <2>2. events'[p]["Created"] = events[p]["Created"] /\ events'[p]["Completed"] = events[p]["Completed"]
        /\ events'[p]["Failure"] = events[p]["Failure"]
    BY <1>1 DEF EventKinds
  <2>3. p \in active /\ events[p]["Created"] > 0 => saved'[p] # NotSaved /\ IsOpen(saved'[p])
    <3>1. order[p] \in Order
      BY DEF GatewayInv, IInv, StoreInv, StoreTypeOK
    <3> QED
      BY <1>3, <1>4, <2>1, <3>1, NotSavedAssumption DEF Accounted
  <2>4. events[p]["Created"] > 0 /\ Terminals(p) > 0 => p \notin active /\ (saved'[p] # NotSaved => ~IsOpen(saved'[p]))
    BY <1>3, <2>1 DEF Accounted
  <2>5. events[p]["Completed"] > 0 => (saved'[p] # NotSaved => saved'[p].state = "FILLED")
    <3>1. events[p]["Completed"] > 0 => events[p]["Created"] > 0 /\ Terminals(p) > 0
      BY <2>1 DEF Accounted, Terminals, GatewayInv, IInv, StoreInv, StoreTypeOK, EventKinds
    <3> QED
      BY <1>3, <2>1, <2>4, <3>1 DEF Accounted
  <2> QED
    BY <1>1, <1>2, <2>1, <2>2, <2>3, <2>4, <2>5 DEF Accounted, ConnectorStill
<1>7. EndReal(p)' /\ OneEnd(p)'
  BY <1>1, <1>2 DEF Linked, EndReal, OneEnd, ConnectorStill, EventKinds
<1> QED
  BY <1>5, <1>6, <1>7 DEF Linked

(* The grounds of updates for other orders stay. *)
LEMMA OthersGrounded ==
  ASSUME ConnectorStill, NEW o \in Orders, OnlyOrder(o),
         NEW v \in OrderUpdate, Grounded(v), v.order # o
  PROVE  Grounded(v)'
<1>1. v.order \in Orders \ {o}
  BY OrderUpdateParts
<1>2. /\ order'[v.order] = order[v.order]
      /\ v.order \in active' <=> v.order \in active
      /\ v.order \in cached' <=> v.order \in cached
      /\ \A k \in EventKinds : events'[v.order][k] = events[v.order][k]
  BY <1>1 DEF OnlyOrder
<1> QED
  BY <1>2 DEF Grounded, Submission, AsSubmitted, AllOrders, ConnectorStill, EventKinds

(* What a step on an order has to keep: its links, and the grounds of the    *)
(* updates for it that are left.                                            *)
KeepsOrder(u) ==
  /\ Linked(u.order)'
  /\ \A v \in OrderUpdate :
       v.order = u.order /\ Grounded(v) /\ ~(Submission(u) /\ Submission(v)) => Grounded(v)'

(* The update that opens an order as it was submitted. *)
LEMMA OpeningKeeps ==
  ASSUME GatewayInv, IInv', TasksStill, NEW u \in OrderUpdate, ApplyOrderUpdate(u), Grounded(u),
         u.newState = "OPEN"
  PROVE  KeepsOrder(u)
<1> DEFINE o == u.order
<1>0. o \in Orders /\ StoreTypeOK /\ StoreTypeOK' /\ o \in started
  BY OrderUpdateParts DEF GatewayInv, IInv, StoreInv, Grounded
<1>1. /\ AsSubmitted(o) /\ o \notin creating /\ slot[o] # "unused" /\ u.hasExchangeId
      /\ Linked(o)
  BY <1>0, AllLinked DEF Grounded, Submission, StoreTypeOK
<1>2. /\ Updated(o, u) /\ UNCHANGED <<active, cached>>
      /\ Triggers(o, "Created") /\ SavesActive
  BY <1>0, <1>1, ApplyEffect DEF AsSubmitted, Updated, IsOpen
<1>3. /\ order'[o].state = "OPEN" /\ order'[o].idKnown /\ saved'[o] = order'[o] /\ o \in active'
      /\ events'[o]["Created"] = 1 /\ events'[o]["Completed"] = 0
      /\ events'[o]["Cancelled"] = 0 /\ events'[o]["Failure"] = 0
  BY <1>0, <1>1, <1>2 DEF AsSubmitted, Updated, Triggers, SavesActive, EventKinds
<1>4. Terminals(o)' = 0 /\ saved'[o] # NotSaved /\ IsOpen(saved'[o])
  BY <1>0, <1>3, NotSavedAssumption DEF Terminals, IsOpen, StoreTypeOK
<1>5. Linked(o)'
  <2>1. HashKnown(o)'
    BY <1>1, <1>3 DEF HashKnown, TasksStill, ConnectorStill
  <2>2. Accounted(o)'
    BY <1>3, <1>4 DEF Accounted
  <2>3. EndReal(o)'
    <3>0. slot' = slot /\ fillEvents' = fillEvents
      BY DEF TasksStill, ConnectorStill
    <3>1. EndReal(o)
      BY <1>1 DEF Linked
    <3>2. ~(events'[o]["Cancelled"] > 0) /\ ~(events'[o]["Completed"] > 0)
      BY <1>3
    <3> QED
      BY <3>0, <3>1, <3>2 DEF EndReal
  <2>4. OneEnd(o)'
    BY <1>3 DEF OneEnd
  <2> QED
    BY <2>1, <2>2, <2>3, <2>4 DEF Linked
<1>6. \A v \in OrderUpdate : v.order = o /\ Grounded(v) => Submission(v)
  BY <1>1 DEF Grounded, AsSubmitted
<1> QED
  BY <1>5, <1>6 DEF KeepsOrder, Submission

(* The update that fails an order as it was submitted. *)
LEMMA FailingKeeps ==
  ASSUME GatewayInv, IInv', TasksStill, NEW u \in OrderUpdate, ApplyOrderUpdate(u), Grounded(u),
         u.newState = "FAILED"
  PROVE  KeepsOrder(u)
<1> DEFINE o == u.order
<1>0. o \in Orders /\ StoreTypeOK /\ StoreTypeOK' /\ o \in started
  BY OrderUpdateParts DEF GatewayInv, IInv, StoreInv, Grounded
<1>1. /\ AsSubmitted(o) /\ o \notin creating /\ ~u.hasExchangeId
      /\ Linked(o) /\ order[o] \in Order
  BY <1>0, AllLinked DEF Grounded, Submission, StoreTypeOK
<1>2. /\ Updated(o, u) /\ o \notin active' /\ ~IsOpen(order'[o])
      /\ Triggers(o, CompletionKind(order'[o])) /\ saved' = saved
  BY <1>0, <1>1, ApplyEffect DEF AsSubmitted, Updated, IsOpen, EventKinds
<1>3. order'[o].state = "FAILED" /\ ~order'[o].idKnown /\ order'[o].executed = 0 /\ order'[o].amount = order[o].amount
      /\ order[o].amount \in Nat
  BY <1>1, <1>2, AmountsAssumption DEF Updated, AsSubmitted, Order
<1>4. CompletionKind(order'[o]) = "Failure"
  BY <1>3 DEF CompletionKind, IsCancelled, IsFilled
<1>5. /\ events'[o]["Created"] = 0 /\ events'[o]["Completed"] = 0
      /\ events'[o]["Cancelled"] = 0 /\ events'[o]["Failure"] = 1
  BY <1>1, <1>2, <1>4 DEF AsSubmitted, Triggers, EventKinds
<1>6. Terminals(o)' = 1
  BY <1>5 DEF Terminals
<1>7. Linked(o)'
  <2>1. HashKnown(o)'
    BY <1>1, <1>2, <1>3 DEF HashKnown, Linked, AsSubmitted, TasksStill, ConnectorStill
  <2>2. Accounted(o)'
    BY <1>3, <1>5, <1>6 DEF Accounted
  <2>3. EndReal(o)' /\ OneEnd(o)'
    BY <1>1, <1>5 DEF EndReal, OneEnd, Linked, TasksStill, ConnectorStill
  <2> QED
    BY <2>1, <2>2, <2>3 DEF Linked
<1>8. \A v \in OrderUpdate : v.order = o /\ Grounded(v) => Submission(v)
  BY <1>1 DEF Grounded, AsSubmitted
<1> QED
  BY <1>7, <1>8 DEF KeepsOrder, Submission

(* The update to PENDING_CANCEL finds an order whose hash is known. *)
LEMMA PendingCancelKeeps ==
  ASSUME GatewayInv, IInv', TasksStill, NEW u \in OrderUpdate, ApplyOrderUpdate(u), Grounded(u),
         u.newState = "PENDING_CANCEL"
  PROVE  KeepsOrder(u)
<1> DEFINE o == u.order
<1>0. o \in Orders /\ StoreTypeOK /\ StoreTypeOK' /\ o \in started
  BY OrderUpdateParts DEF GatewayInv, IInv, StoreInv, Grounded
<1>1. order[o].idKnown /\ cancelHash[o] # 0 /\ cancelsSent[o] > 0 /\ ~u.hasExchangeId /\ Linked(o)
  BY <1>0, AllLinked DEF Grounded, Submission, GatewayInv, ConnectorInv, ChainInv
<1>2. Updated(o, u) /\ UNCHANGED <<active, cached, events, saved>>
  BY <1>0, <1>1, ApplyEffect DEF Updated, IsOpen
<1>3. /\ order'[o].state = "PENDING_CANCEL" /\ order'[o].idKnown
      /\ order'[o].executed = order[o].executed /\ order'[o].amount = order[o].amount
  BY <1>1, <1>2 DEF Updated
<1>4. Linked(o)'
  <2>1. HashKnown(o)'
    BY <1>1, <1>2, <1>3 DEF HashKnown, Linked, TasksStill, ConnectorStill
  <2>2. Accounted(o)'
    BY <1>1, <1>2, <1>3 DEF Accounted, Linked, Terminals, TasksStill, ConnectorStill
  <2>3. EndReal(o)' /\ OneEnd(o)'
    BY <1>1, <1>2 DEF EndReal, OneEnd, Linked, TasksStill, ConnectorStill
  <2> QED
    BY <2>1, <2>2, <2>3 DEF Linked
<1>5. ASSUME NEW v \in OrderUpdate, v.order = o, Grounded(v) PROVE Grounded(v)'
  <2>1. ~Submission(v)
    BY <1>1, <1>5 DEF Grounded, AsSubmitted
  <2> QED
    BY <1>2, <1>3, <1>5, <2>1 DEF Grounded, Submission, AllOrders, TasksStill, ConnectorStill
<1> QED
  BY <1>4, <1>5 DEF KeepsOrder

(* An update that closes an order whose hash is known, and was not closed    *)
(* as it says yet: the recorder saves, without the order from then on.      *)
LEMMA ClosingKeeps ==
  ASSUME GatewayInv, IInv', TasksStill, NEW u \in OrderUpdate, ApplyOrderUpdate(u),
         order' # order, ~IsOpen(order'[u.order]), order[u.order].idKnown, u.order \in started,
         NEW kind \in {"Cancelled", "Completed", "Failure"}, kind = CompletionKind(order'[u.order]),
         kind = "Cancelled" => minedCancel[u.order] # 0,
         kind = "Completed" =>
           /\ slot[u.order] = "mined" /\ events[u.order]["Failure"] = 0 /\ u.newState = "FILLED"
           /\ order[u.order].state # "FILLED",
         kind = "Failure" =>
           /\ u.order \in active
           /\ slot[u.order] \notin {"pending", "mined"} \/ cancelsSent[u.order] > 0,
         u.newState # "FILLED" => events[u.order]["Completed"] = 0
  PROVE  Linked(u.order)'
<1> DEFINE o == u.order
<1>0. o \in Orders /\ StoreTypeOK /\ StoreTypeOK' /\ Linked(o)
      /\ \A k \in EventKinds : events[o][k] \in Nat
  BY OrderUpdateParts, AllLinked DEF GatewayInv, IInv, StoreInv, StoreTypeOK
<1>1. events[o]["Created"] > 0 /\ slot[o] # "unused"
  BY <1>0 DEF Linked, HashKnown
<1>2. /\ Updated(o, u) /\ o \notin active' /\ ~IsOpen(order'[o])
      /\ Triggers(o, kind) /\ SavesActive
  BY <1>0, <1>1, ApplyEffect DEF IsOpen
<1>3. /\ \A k \in EventKinds : events'[o][k] = IF k = kind THEN events[o][k] + 1 ELSE events[o][k]
      /\ order'[o].idKnown /\ order'[o].state = u.newState
      /\ saved'[o] # NotSaved => saved'[o] = order'[o]
  BY <1>0, <1>2 DEF Updated, Triggers, SavesActive
<1>4. /\ events'[o]["Created"] > 0 /\ Terminals(o)' > 0
      /\ events'[o]["Completed"] = IF kind = "Completed" THEN events[o]["Completed"] + 1 ELSE events[o]["Completed"]
      /\ events'[o]["Cancelled"] = IF kind = "Cancelled" THEN events[o]["Cancelled"] + 1 ELSE events[o]["Cancelled"]
      /\ events'[o]["Failure"] = IF kind = "Failure" THEN events[o]["Failure"] + 1 ELSE events[o]["Failure"]
  BY <1>0, <1>1, <1>3 DEF Terminals, EventKinds
<1>5. kind = "Failure" => events[o]["Failure"] = 0 /\ events[o]["Completed"] = 0
  BY <1>0, <1>1 DEF Linked, Accounted, Terminals, EventKinds
<1>6. HashKnown(o)'
  BY <1>0, <1>1, <1>2, <1>3, <1>4 DEF HashKnown, Linked, IsOpen, TasksStill, ConnectorStill
<1>7. Accounted(o)'
  <2>1. events'[o]["Failure"] > 0 /\ slot[o] \in {"pending", "mined"} => cancelsSent[o] > 0
    BY <1>0, <1>4 DEF Linked, Accounted, EventKinds
  <2>2. events'[o]["Completed"] > 0 => u.newState = "FILLED"
    BY <1>0, <1>4
  <2> QED
    BY <1>2, <1>3, <1>4, <2>1, <2>2 DEF Accounted, TasksStill, ConnectorStill
<1>8. EndReal(o)'
  BY <1>0, <1>4 DEF Linked, EndReal, TasksStill, ConnectorStill, EventKinds
<1>9. OneEnd(o)'
  BY <1>0, <1>4, <1>5 DEF Linked, OneEnd, Accounted, TasksStill, ConnectorStill, EventKinds
<1> QED
  BY <1>6, <1>7, <1>8, <1>9 DEF Linked

(* The update to CANCELED has the chain behind it. *)
LEMMA CancelingKeeps ==
  ASSUME GatewayInv, IInv', TasksStill, NEW u \in OrderUpdate, ApplyOrderUpdate(u), Grounded(u),
         u.newState = "CANCELED", order' # order
  PROVE  KeepsOrder(u)
<1> DEFINE o == u.order
<1>0. o \in Orders /\ StoreTypeOK /\ o \in started /\ Linked(o)
  BY OrderUpdateParts, AllLinked DEF GatewayInv, IInv, StoreInv, Grounded
<1>1. order[o].idKnown /\ minedCancel[o] # 0 /\ slot[o] = "cancelled"
  BY <1>0 DEF Grounded, Submission, GatewayInv, ConnectorInv, ChainInv
<1>2. Updated(o, u)
  BY <1>0, ApplyEffect
<1>3. order'[o].state = "CANCELED" /\ ~IsOpen(order'[o]) /\ CompletionKind(order'[o]) = "Cancelled"
  BY <1>2 DEF Updated, IsOpen, CompletionKind, IsCancelled
<1>4. events[o]["Completed"] = 0
  BY <1>0, <1>1 DEF Linked, EndReal, StoreTypeOK, EventKinds
<1>5. Linked(o)'
  BY <1>0, <1>1, <1>3, <1>4, ClosingKeeps
<1>6. ASSUME NEW v \in OrderUpdate, v.order = o, Grounded(v) PROVE Grounded(v)'
  <2>1. ~Submission(v) /\ v.newState # "FILLED"
    BY <1>1, <1>6 DEF Grounded, AsSubmitted
  <2>2. order'[o].idKnown
    BY <1>1, <1>2 DEF Updated
  <2> QED
    BY <1>6, <2>1, <2>2 DEF Grounded, Submission, TasksStill, ConnectorStill
<1> QED
  BY <1>5, <1>6 DEF KeepsOrder

(* The update to FILLED has the chain behind it. *)
LEMMA FillingKeeps ==
  ASSUME GatewayInv, IInv', TasksStill, NEW u \in OrderUpdate, ApplyOrderUpdate(u), Grounded(u),
         u.newState = "FILLED", order' # order
  PROVE  KeepsOrder(u)
<1> DEFINE o == u.order
<1>0. o \in Orders /\ StoreTypeOK /\ o \in started /\ order \in [Orders -> Order] /\ order' \in [Orders -> Order]
      /\ \A k \in EventKinds : events[o][k] \in Nat
  BY OrderUpdateParts, AllLinked DEF GatewayInv, IInv, StoreInv, StoreTypeOK, Grounded
<1>1. order[o].idKnown /\ slot[o] = "mined" /\ events[o]["Failure"] = 0 /\ ~u.hasExchangeId
  BY <1>0 DEF Grounded, Submission
<1>2. OnlyOrder(o) /\ Updated(o, u)
  BY <1>0, ApplyEffect
<1>3. order'[o].state = "FILLED" /\ ~IsOpen(order'[o]) /\ CompletionKind(order'[o]) = "Completed"
  BY <1>2 DEF Updated, IsOpen, CompletionKind, IsCancelled, IsFilled
<1>4. order[o].state # "FILLED"
  <2>1. order'[o] # order[o]
    BY <1>0, <1>2 DEF OnlyOrder
  <2> DEFINE new == UpdateWithOrderUpdate(order[o], u.newState, u.hasExchangeId)
  <2>2. order' = [order EXCEPT ![o] = new]
    BY DEF ApplyOrderUpdate, ApplyNoChange, ApplyOpen, ApplyTerminal
  <2>3. order'[o] = new
    BY <1>0, <2>2
  <2>4. ASSUME order[o].state = "FILLED" PROVE new = order[o]
    <3>1. PICK r \in Order : r = order[o]
      BY <1>0
    <3>2. r.idKnown = TRUE /\ r.state = "FILLED"
      BY <1>1, <2>4, <3>1 DEF Order
    <3>3. new = [r EXCEPT !.idKnown = TRUE, !.state = "FILLED"]
      BY <1>1, <3>1, <3>2 DEF UpdateWithOrderUpdate
    <3>4. [r EXCEPT !.idKnown = TRUE, !.state = "FILLED"] = r
      BY <3>2 DEF Order
    <3> QED
      BY <3>1, <3>3, <3>4
  <2> QED
    BY <2>1, <2>3, <2>4
<1>5. Linked(o)'
  BY <1>0, <1>1, <1>3, <1>4, ClosingKeeps
<1>6. ASSUME NEW v \in OrderUpdate, v.order = o, Grounded(v) PROVE Grounded(v)'
  <2>1. ~Submission(v)
    BY <1>1, <1>6 DEF Grounded, AsSubmitted
  <2>2. order'[o].idKnown /\ order'[o].executed = order[o].executed /\ order'[o].amount = order[o].amount
    BY <1>1, <1>2 DEF Updated
  <2>3. events'[o]["Failure"] = 0 /\ (o \in active' \/ o \in cached' => o \in AllOrders)
    BY <1>0, <1>1, <1>3, ApplyEffect DEF Triggers, EventKinds, AllOrders
  <2> QED
    BY <1>6, <2>1, <2>2, <2>3 DEF Grounded, Submission, AllOrders, TasksStill, ConnectorStill
<1> QED
  BY <1>5, <1>6 DEF KeepsOrder

(* Every update of the connector keeps the order it reaches. *)
LEMMA UpdateKeeps ==
  ASSUME GatewayInv, IInv', TasksStill, NEW u \in OrderUpdate, ApplyOrderUpdate(u), Grounded(u)
  PROVE  KeepsOrder(u)
<1> DEFINE o == u.order
<1>0. o \in Orders /\ StoreTypeOK /\ Linked(o)
  BY OrderUpdateParts, AllLinked DEF GatewayInv, IInv, StoreInv
<1>1. CASE order' = order
  <2>1. CASE UNCHANGED <<active, cached, events, saved>>
    <3>1. Linked(o)'
      BY <1>0, <1>1, <2>1 DEF Linked, HashKnown, Accounted, EndReal, OneEnd, TasksStill, ConnectorStill, Terminals
    <3>2. \A v \in OrderUpdate : Grounded(v) => Grounded(v)'
      BY <1>1, <2>1 DEF Grounded, Submission, AsSubmitted, AllOrders, TasksStill, ConnectorStill
    <3> QED
      BY <3>1, <3>2 DEF KeepsOrder
  <2>2. CASE u.newState \in {"OPEN", "FAILED"}
    BY <2>2, OpeningKeeps, FailingKeeps
  <2>3. CASE u.newState = "PENDING_CANCEL"
    BY <2>3, PendingCancelKeeps
  <2> QED
    BY <1>0, <1>1, <2>1, <2>2, <2>3, ApplyEffect DEF Updated, IsOpen, Grounded
<1>2. CASE order' # order
  BY <1>2, OpeningKeeps, FailingKeeps, PendingCancelKeeps, CancelingKeeps, FillingKeeps DEF Grounded
<1> QED
  BY <1>1, <1>2

(* The next update in the queue, whether or not it finds its order. *)
LEMMA RunKeeps ==
  ASSUME GatewayInv, IInv', RunOrderUpdate, UNCHANGED <<chain, tasks, faults>>
  PROVE  ConnectorInv'
<1>0. /\ ready # <<>> /\ ready' = Tail(ready) /\ ready \in Seq(OrderUpdate)
      /\ UNCHANGED <<started, notFound, waiting, fillEvents, restarts>>
      /\ UNCHANGED <<slot, cancelsSent, minedCancel, request, faults>>
      /\ UNCHANGED <<creating, cancelling, sentHash, lateCancels, cancelHash, status, confirmed, restored>>
      /\ UpdatesInv /\ AnswersInv
  BY DEF RunOrderUpdate, chain, tasks, cancels, GatewayInv, ConnectorInv, IInv, QueueTypeOK
<1>u. PICK u \in OrderUpdate : u = Head(ready)
  BY <1>0
<1> DEFINE o == u.order
<1>1. /\ u = ready[1] /\ 1 \in 1..Len(ready)
      /\ \A i \in 1..Len(ready') :
           i + 1 \in 1..Len(ready) /\ i + 1 # 1 /\ ready'[i] = ready[i + 1] /\ ready'[i] \in OrderUpdate
      /\ Len(ready') \in Nat
  BY <1>0, <1>u
<1>2. Grounded(u) /\ o \in Orders
  BY <1>0, <1>1, OrderUpdateParts DEF UpdatesInv
<1>3. TasksTypeOK' /\ ChainInv'
  BY <1>0 DEF GatewayInv, ConnectorInv, TasksTypeOK, ChainInv
<1>4. ASSUME NEW i \in 1..Len(ready')
      PROVE  /\ Grounded(ready'[i]) /\ ready'[i] \in OrderUpdate
             /\ Submission(u) /\ Submission(ready'[i]) => ready'[i].order # o
  BY <1>0, <1>1 DEF UpdatesInv
<1>5. \A i, j \in 1..Len(ready') :
        Submission(ready'[i]) /\ Submission(ready'[j]) /\ ready'[i].order = ready'[j].order => i = j
  <2> SUFFICES ASSUME NEW i \in 1..Len(ready'), NEW j \in 1..Len(ready'),
                      Submission(ready'[i]), Submission(ready'[j]), ready'[i].order = ready'[j].order
               PROVE  i = j
    OBVIOUS
  <2>1. i + 1 = j + 1
    BY <1>0, <1>1 DEF UpdatesInv
  <2> QED
    BY <2>1, <1>1
<1>6. CASE UNCHANGED <<order, active, cached, events, saved>>
  <2>1. HashInv' /\ AnswersInv' /\ ReportedInv'
    BY <1>0, <1>6 DEF GatewayInv, ConnectorInv, HashInv, HashKnown, AnswersInv, ReportedInv, ReportsInv,
                      Accounted, Terminals, EndIsReal, CompletedOrFailed
  <2>2. \A v \in OrderUpdate : Grounded(v) => Grounded(v)'
    BY <1>0, <1>6 DEF Grounded, Submission, AsSubmitted, AllOrders
  <2>3. \A i \in 1..Len(ready') : Grounded(ready[i])'
    BY <1>4, <2>2
  <2>4. \A p \in creating' : AsSubmitted(p)'
    BY <1>0, <1>6 DEF UpdatesInv, AsSubmitted
  <2>5. UpdatesInv'
    BY <1>5, <2>3, <2>4 DEF UpdatesInv, Submission
  <2> QED
    BY <1>3, <2>1, <2>5 DEF ConnectorInv
<1>7. CASE ApplyOrderUpdate(u)
  <2>1. TasksStill /\ ConnectorStill /\ fillEvents' = fillEvents /\ StoreTypeOK
    BY <1>0 DEF TasksStill, ConnectorStill, GatewayInv, IInv, StoreInv
  <2>2. KeepsOrder(u)
    BY <1>1, <1>2, <1>7, <2>1, UpdateKeeps
  <2>3. OnlyOrder(o) /\ Updated(o, u) /\ (saved' = saved \/ SavesActive)
    BY <1>1, <1>7, <2>1, ApplyEffect
  <2>4. \A p \in Orders : Linked(p)'
    <3>1. Linked(o)'
      BY <2>2 DEF KeepsOrder
    <3>2. \A p \in Orders \ {o} : Linked(p)'
      BY <1>2, <2>1, <2>3, OthersLinked
    <3> QED
      BY <3>1, <3>2
  <2>5. HashInv' /\ ReportedInv'
    BY <2>4, LinkedNext
  <2>6. \A p \in Orders : order[p].idKnown => order'[p].idKnown
    BY <2>3 DEF OnlyOrder, Updated
  <2>7. AnswersInv'
    BY <1>0, <2>6, <1>3 DEF AnswersInv, TasksTypeOK, GatewayInv, IInv, StoreInv, StoreTypeOK
  <2>8. ASSUME NEW i \in 1..Len(ready') PROVE Grounded(ready[i])'
    <3>1. CASE ready'[i].order = o
      BY <1>4, <2>2, <3>1 DEF KeepsOrder
    <3>2. CASE ready'[i].order # o
      BY <1>2, <1>4, <2>1, <2>3, <3>2, OthersGrounded
    <3> QED
      BY <3>1, <3>2
  <2>9. ASSUME NEW p \in creating' PROVE AsSubmitted(p)'
    <3>1. AsSubmitted(p) /\ p \in Orders /\ p \in creating
      BY <1>0 DEF UpdatesInv, GatewayInv, ConnectorInv, TasksTypeOK, IInv, StoreInv, StoreTypeOK
    <3>2. p # o
      BY <1>2, <3>1 DEF Grounded, AsSubmitted
    <3>3. p \in Orders \ {o}
      BY <3>1, <3>2
    <3> QED
      BY <2>3, <3>1, <3>3 DEF OnlyOrder, AsSubmitted
  <2>10. UpdatesInv'
    BY <1>5, <2>8, <2>9 DEF UpdatesInv, Submission
  <2> QED
    BY <1>3, <2>5, <2>7, <2>10 DEF ConnectorInv
<1> QED
  BY <1>u, <1>6, <1>7 DEF RunOrderUpdate

-----------------------------------------------------------------------------
(* The status of a transaction is used. *)

(* An answer that is used up leaves the others on their grounds. *)
LEMMA AnswerUsed ==
  ASSUME GatewayInv, NEW o \in Orders, NEW r \in Rounds, StatusReturns(o, r),
         \A p \in Orders : order[p].idKnown => order'[p].idKnown
  PROVE  TasksTypeOK' /\ ChainInv' /\ AnswersInv'
<1>1. /\ status' = [status EXCEPT ![o][r] = "none"]
      /\ UNCHANGED <<started, slot, cancelsSent, minedCancel, request>>
      /\ UNCHANGED <<creating, cancelling, sentHash, lateCancels, cancelHash, confirmed, restored, faults>>
      /\ TasksTypeOK /\ ChainInv /\ AnswersInv /\ started \subseteq Orders
  BY DEF StatusReturns, chain, cancels, GatewayInv, ConnectorInv, IInv, StoreInv, StoreTypeOK
<1>2. TasksTypeOK' /\ ChainInv'
  BY <1>1 DEF TasksTypeOK, ChainInv, PollStates
<1>3. AnswersInv'
  BY <1>1 DEF TasksTypeOK, AnswersInv, Answers
<1> QED
  BY <1>2, <1>3

(* What using an answer has to keep of the rest. *)
KeepsRest ==
  /\ HashInv' /\ UpdatesInv' /\ ReportedInv'
  /\ \A p \in Orders : order[p].idKnown => order'[p].idKnown

(* An order that is not found fails, without a task of its own. *)
LEMMA NotFoundKeeps ==
  ASSUME GatewayInv, IInv', TasksStill, ready' = ready,
         NEW o \in active, order[o].idKnown, ~IsDone(order[o]),
         slot[o] \notin {"pending", "mined"} \/ cancelsSent[o] > 0,
         ApplyOrderUpdate(ClientUpdate(o, "FAILED", FALSE))
  PROVE  KeepsRest
<1> DEFINE u == ClientUpdate(o, "FAILED", FALSE)
<1>0. /\ StoreTypeOK /\ UpdatesInv /\ ready \in Seq(OrderUpdate) /\ TasksTypeOK
      /\ o \in Orders /\ o \in started /\ IsOpen(order[o]) /\ order[o] \in Order /\ creating \subseteq Orders
  BY DEF GatewayInv, ConnectorInv, IInv, StoreInv, StoreTypeOK, QueueTypeOK, ActiveOrdersAreOpen, TasksTypeOK
<1>1. u \in OrderUpdate /\ u.order = o /\ u.newState = "FAILED" /\ u.hasExchangeId = FALSE
  BY <1>0 DEF ClientUpdate, OrderUpdate
<1>2. ApplyOrderUpdate(u)
  OBVIOUS
<1> HIDE DEF u
<1>3. OnlyOrder(o) /\ Updated(o, u) /\ (saved' = saved \/ SavesActive)
  BY <1>0, <1>1, <1>2, ApplyEffect
<1>4. /\ order'[o].state = "FAILED" /\ order'[o].idKnown
      /\ order' # order /\ ~IsOpen(order'[o])
      /\ order'[o].executed = order[o].executed /\ order'[o].amount = order[o].amount
  BY <1>0, <1>1, <1>3 DEF Updated, IsOpen
<1>5. CompletionKind(order'[o]) = "Failure"
  BY <1>4 DEF CompletionKind, IsCancelled, IsFilled, IsDone
<1>6. events[o]["Completed"] = 0
  <2>1. Linked(o) /\ \A k \in EventKinds : events[o][k] \in Nat
    BY <1>0, AllLinked DEF StoreTypeOK
  <2> QED
    BY <1>0, <2>1 DEF Linked, HashKnown, Accounted, Terminals, EventKinds
<1>7. Linked(o)'
  BY <1>0, <1>1, <1>2, <1>4, <1>5, <1>6, ClosingKeeps
<1>8. \A p \in Orders \ {o} : Linked(p)'
  BY <1>0, <1>3, OthersLinked DEF TasksStill
<1>9. \A p \in Orders : Linked(p)'
  BY <1>7, <1>8
<1>10. HashInv' /\ ReportedInv'
  BY <1>9, LinkedNext
<1>11. \A p \in Orders : order[p].idKnown => order'[p].idKnown
  BY <1>3 DEF OnlyOrder, Updated
<1>12. ASSUME NEW v \in OrderUpdate, Grounded(v) PROVE Grounded(v)'
  <2>1. CASE v.order = o
    <3>1. ~Submission(v) /\ v.newState # "FILLED"
      BY <1>0, <1>12, <2>1 DEF Grounded, AsSubmitted, AllOrders, IsDone
    <3> QED
      BY <1>4, <1>12, <2>1, <3>1 DEF Grounded, Submission, TasksStill, ConnectorStill
  <2>2. CASE v.order # o
    BY <1>0, <1>3, <1>12, <2>2, OthersGrounded DEF TasksStill
  <2> QED
    BY <2>1, <2>2
<1>13. \A i \in 1..Len(ready) : Grounded(ready[i])'
  <2>1. \A i \in 1..Len(ready) : ready[i] \in OrderUpdate /\ Grounded(ready[i])
    BY <1>0 DEF UpdatesInv
  <2> QED
    BY <1>12, <2>1
<1>14. ASSUME NEW p \in creating' PROVE AsSubmitted(p)'
  <2>1. AsSubmitted(p) /\ p \in Orders \ {o}
    BY <1>0 DEF UpdatesInv, AsSubmitted, TasksStill, ConnectorStill
  <2> QED
    BY <1>3, <2>1 DEF OnlyOrder, AsSubmitted
<1>15. UpdatesInv'
  BY <1>0, <1>13, <1>14 DEF UpdatesInv, Submission
<1> QED
  BY <1>10, <1>11, <1>15 DEF KeepsRest

(* A transaction on the chain fills its order, and an update to FILLED is   *)
(* scheduled that finds the fill.                                           *)
LEMMA FillKeeps ==
  ASSUME GatewayInv, IInv', ExecutedInv', ConnectorStill, UNCHANGED <<active, cached, events>>,
         NEW o \in started, order[o].idKnown, slot[o] = "mined", GasPriceKnown(o),
         ProcessTradeUpdates(o, Trades), Schedule(o, "FILLED", FALSE)
  PROVE  KeepsRest
<1> DEFINE u == ClientUpdate(o, "FILLED", FALSE)
<1>0. /\ StoreTypeOK /\ StoreTypeOK' /\ UpdatesInv /\ ready \in Seq(OrderUpdate) /\ TasksTypeOK
      /\ o \in Orders /\ creating \subseteq Orders /\ Linked(o)
      /\ \A k \in EventKinds : events[o][k] \in Nat
  BY AllLinked DEF GatewayInv, ConnectorInv, IInv, StoreInv, StoreTypeOK, QueueTypeOK, TasksTypeOK
<1>1. u \in OrderUpdate /\ ready' = Append(ready, u)
  BY <1>0, ScheduleAppends
<1>2. u.order = o /\ u.newState = "FILLED" /\ u.hasExchangeId = FALSE
  BY DEF ClientUpdate
<1> HIDE DEF u
<1>3. /\ \A p \in Orders \ {o} : order'[p] = order[p] /\ fillEvents'[p] = fillEvents[p]
      /\ order'[o] = order[o] \/ order'[o] = UpdateWithTradeUpdates(order[o], Trades)
      /\ saved' = saved \/ saved' = TrackingStates(order')
      /\ o \in AllOrders => Trades \subseteq order'[o].fills
  <2>1. CASE AddFills(o, Trades) /\ saved' = TrackingStates(order')
    <3>1. /\ order' = [order EXCEPT ![o] = UpdateWithTradeUpdates(order[o], Trades)]
          /\ \A p \in Orders \ {o} : fillEvents'[p] = fillEvents[p]
      BY <1>0, <2>1 DEF AddFills, StoreTypeOK
    <3>2. order'[o] = UpdateWithTradeUpdates(order[o], Trades) /\ order[o] \in Order
      BY <1>0, <3>1 DEF StoreTypeOK
    <3>3. order'[o].fills = order[o].fills \cup Trades
      BY <3>2, TradeUpdateType
    <3> QED
      BY <1>0, <2>1, <3>1, <3>2, <3>3 DEF StoreTypeOK
  <2>2. CASE AddsNoFill(o, Trades)
    BY <2>2 DEF AddsNoFill
  <2> QED
    BY <2>1, <2>2 DEF ProcessTradeUpdates
<1>4. /\ order'[o].state = order[o].state /\ order'[o].idKnown = order[o].idKnown
      /\ order'[o].amount = order[o].amount
  <2>1. order[o] \in Order
    BY <1>0 DEF StoreTypeOK
  <2>2. /\ UpdateWithTradeUpdates(order[o], Trades).state = order[o].state
        /\ UpdateWithTradeUpdates(order[o], Trades).idKnown = order[o].idKnown
        /\ UpdateWithTradeUpdates(order[o], Trades).amount = order[o].amount
    BY <2>1 DEF UpdateWithTradeUpdates, Order
  <2> QED
    BY <1>3, <2>2
<1>5. o \in AllOrders' => order'[o].executed >= order'[o].amount
  <2> SUFFICES ASSUME o \in AllOrders PROVE order'[o].executed >= order'[o].amount
    BY DEF AllOrders
  <2>1. order'[o] \in Order /\ order'[o].executed = FillAmount[order'[o].fills]
    BY <1>0 DEF StoreTypeOK, ExecutedInv, Sums
  <2>2. order'[o].fills = Trades /\ order'[o].amount = FillAmount[Trades] /\ FillAmount[Trades] \in Nat
    BY <1>3, <2>1, WholeFillAssumption, FillAmountAssumption DEF Order
  <2> QED
    BY <2>1, <2>2
<1>6. OnlyOrder(o) /\ (saved' = saved \/ SavesActive)
  BY <1>3, SavesActiveOrders DEF OnlyOrder
<1>7. Linked(o)'
  <2>1. /\ events[o]["Created"] > 0 /\ events[o]["Completed"] = 0 /\ events[o]["Failure"] = 0
        /\ Terminals(o)' = Terminals(o)
    BY <1>0 DEF Linked, HashKnown, GasPriceKnown, EventKinds, Terminals
  <2>2. saved'[o] = saved[o] \/ saved'[o] = IF o \in active THEN order'[o] ELSE NotSaved
    BY <1>0, <1>6 DEF SavesActive
  <2>3. o \in active => IsOpen(order'[o])
    BY <1>4 DEF GatewayInv, IInv, StoreInv, ActiveOrdersAreOpen, IsOpen
  <2>4. order'[o] # NotSaved
    BY <1>0, NotSavedAssumption DEF StoreTypeOK
  <2>5. HashKnown(o)'
    BY <1>0, <1>4, <2>1, <2>2 DEF Linked, HashKnown, ConnectorStill
  <2>6. Accounted(o)'
    BY <1>0, <1>4, <2>1, <2>2, <2>3, <2>4 DEF Linked, Accounted, ConnectorStill
  <2>7. EndReal(o)' /\ OneEnd(o)'
    BY <1>0, <2>1 DEF Linked, EndReal, OneEnd, ConnectorStill
  <2> QED
    BY <2>5, <2>6, <2>7 DEF Linked
<1>8. \A p \in Orders \ {o} : Linked(p)'
  BY <1>0, <1>3, <1>6, OthersLinked
<1>9. \A p \in Orders : Linked(p)'
  BY <1>7, <1>8
<1>10. HashInv' /\ ReportedInv'
  BY <1>9, LinkedNext
<1>11. \A p \in Orders : order[p].idKnown => order'[p].idKnown
  BY <1>3, <1>4
<1>12. ASSUME NEW v \in OrderUpdate, Grounded(v) PROVE Grounded(v)'
  <2>1. CASE v.order = o
    <3>1. ~Submission(v)
      BY <1>12, <2>1 DEF Grounded, AsSubmitted
    <3> QED
      BY <1>4, <1>5, <1>12, <2>1, <3>1 DEF Grounded, Submission, ConnectorStill
  <2>2. CASE v.order # o
    BY <1>0, <1>6, <1>12, <2>2, OthersGrounded
  <2> QED
    BY <2>1, <2>2
<1>13. Grounded(u)'
  <2>1. events'[o]["Failure"] = 0 /\ order'[o].idKnown
    BY <1>0, <1>4 DEF GasPriceKnown, EventKinds
  <2> QED
    BY <1>2, <1>5, <2>1 DEF Grounded, Submission, ConnectorStill
<1>14. /\ Len(ready') = Len(ready) + 1 /\ Len(ready) \in Nat
       /\ \A i \in 1..Len(ready) : ready'[i] = ready[i] /\ ready[i] \in OrderUpdate
       /\ ready'[Len(ready) + 1] = u
  BY <1>0, <1>1
<1>15. \A i \in 1..Len(ready') : Grounded(ready[i])'
  <2>1. \A i \in 1..Len(ready) : ready[i] \in OrderUpdate /\ Grounded(ready[i])
    BY <1>0 DEF UpdatesInv
  <2>2. \A i \in 1..Len(ready) : Grounded(ready[i])'
    BY <1>12, <1>14, <2>1
  <2> QED
    BY <1>13, <1>14, <2>2
<1>16. ASSUME NEW p \in creating' PROVE AsSubmitted(p)'
  <2>1. AsSubmitted(p) /\ p \in Orders \ {o}
    BY <1>0 DEF UpdatesInv, AsSubmitted, ConnectorStill
  <2> QED
    BY <1>6, <2>1 DEF OnlyOrder, AsSubmitted
<1>17. UpdatesInv'
  <2>1. ~Submission(u)
    BY <1>2 DEF Submission
  <2>2. \A i, j \in 1..Len(ready') :
          Submission(ready'[i]) /\ Submission(ready'[j]) /\ ready'[i].order = ready'[j].order => i = j
    BY <1>0, <1>14, <2>1 DEF UpdatesInv
  <2> QED
    BY <1>15, <1>16, <2>2 DEF UpdatesInv, Submission
<1> QED
  BY <1>10, <1>11, <1>17 DEF KeepsRest

LEMMA StatusReturnsKeeps ==
  ASSUME GatewayInv, IInv', ExecutedInv', NEW o \in Orders, NEW r \in Rounds, StatusReturns(o, r)
  PROVE  ConnectorInv'
<1>0. /\ UNCHANGED <<started, waiting, restarts, slot, cancelsSent, minedCancel, request>>
      /\ UNCHANGED <<creating, cancelling, sentHash, lateCancels, cancelHash, confirmed, restored, faults>>
      /\ order[o].idKnown /\ o \in started
  BY AnswersAreTracked DEF StatusReturns, chain, cancels, GatewayInv, ConnectorInv, AnswersInv
<1>1. ConnectorStill
  BY <1>0 DEF ConnectorStill
<1>2. SUFFICES KeepsRest
  BY AnswerUsed DEF KeepsRest, ConnectorInv
<1>3. CASE UNCHANGED <<order, active, cached, notFound, ready, events, fillEvents, saved>>
  <2>1. ChainMoves /\ UNCHANGED vars
    BY <1>0, <1>3 DEF ChainMoves, vars, tracker, history
  <2>2. UpdatesInv' /\ ReportedInv'
    BY <1>0, <2>1, ChainMovesKeep
  <2>3. HashInv'
    BY <1>0, <1>3 DEF GatewayInv, ConnectorInv, HashInv, HashKnown
  <2> QED
    BY <1>3, <2>2, <2>3 DEF KeepsRest
<1>4. CASE status[o][r] = "success" /\ TransactionSucceeded(o)
  <2>1. slot[o] = "mined"
    BY <1>4 DEF GatewayInv, ConnectorInv, AnswersInv
  <2>2. CASE GasPriceKnown(o)
    <3>1. ProcessTradeUpdates(o, Trades) /\ Schedule(o, "FILLED", FALSE) /\ UNCHANGED <<active, cached, events>>
      BY <1>4, <2>2 DEF TransactionSucceeded
    <3> QED
      BY <1>0, <1>1, <2>1, <2>2, <3>1, FillKeeps
  <2>3. CASE ~GasPriceKnown(o)
    BY <1>3, <1>4, <2>3 DEF TransactionSucceeded, history
  <2> QED
    BY <2>2, <2>3
<1>5. CASE status[o][r] \in NotFoundAnswers /\ OrderNotFound(o)
  <2>1. UNCHANGED <<ready, fillEvents>>
    BY <1>5 DEF OrderNotFound
  <2>2. slot[o] \notin {"pending", "mined"} \/ cancelsSent[o] > 0
    BY <1>5 DEF NotFoundAnswers, GatewayInv, ConnectorInv, AnswersInv
  <2>3. CASE ApplyOrderUpdate(ClientUpdate(o, "FAILED", FALSE)) /\ o \in active /\ ~IsDone(order[o])
    BY <1>0, <1>1, <2>1, <2>2, <2>3, NotFoundKeeps DEF TasksStill
  <2>4. CASE UNCHANGED <<order, active, cached, events, saved>>
    <3>1. TasksStill /\ UNCHANGED <<order, active, cached, ready, events, fillEvents, saved>>
      BY <1>1, <2>1, <2>4 DEF TasksStill
    <3>2. HashInv' /\ ReportedInv'
      BY <3>1 DEF GatewayInv, ConnectorInv, HashInv, HashKnown, ReportedInv, ReportsInv, Accounted, Terminals,
                  EndIsReal, CompletedOrFailed, TasksStill, ConnectorStill
    <3>3. UpdatesInv'
      BY <3>1 DEF GatewayInv, ConnectorInv, UpdatesInv, Grounded, Submission, AsSubmitted, AllOrders,
                  TasksStill, ConnectorStill
    <3> QED
      BY <2>4, <3>2, <3>3 DEF KeepsRest
  <2> QED
    BY <1>5, <2>3, <2>4 DEF OrderNotFound, ProcessOrderNotFound
<1> QED
  BY <1>4, <1>5 DEF StatusReturns

-----------------------------------------------------------------------------
(* The invariant. *)

LEMMA InitGateway == ASSUME GatewayInit PROVE GatewayInv
<1>1. Init
  BY DEF GatewayInit
<1>2. IInv /\ ExecutedInv
  BY <1>1, InitIInv, InitSums
<1>3. /\ started = {} /\ active = {} /\ ready = <<>> /\ restarts = 0
      /\ saved = [o \in Orders |-> NotSaved]
      /\ events = [o \in Orders |-> [k \in EventKinds |-> 0]]
      /\ fillEvents = [o \in Orders |-> [t \in Trades |-> 0]]
      /\ \A o \in Orders : order[o].state = "PENDING_CREATE" /\ order[o].idKnown = FALSE
  BY <1>1 DEF Init, NewOrder
<1>4. /\ slot = [o \in Orders |-> "unused"]
      /\ cancelsSent = [o \in Orders |-> 0] /\ minedCancel = [o \in Orders |-> 0]
      /\ request = {} /\ creating = {} /\ cancelling = [o \in Orders |-> "none"]
      /\ sentHash = [o \in Orders |-> 0] /\ lateCancels = [o \in Orders |-> 0]
      /\ cancelHash = [o \in Orders |-> 0]
      /\ status = [o \in Orders |-> [r \in Rounds |-> "none"]]
      /\ confirmed = {} /\ restored = {} /\ faults = 0
  BY DEF GatewayInit
<1>5. TasksTypeOK
  BY <1>3, <1>4, BoundsAssumption DEF TasksTypeOK, Slots, PollStates
<1>6. ChainInv /\ AnswersInv /\ UpdatesInv
  BY <1>3, <1>4 DEF ChainInv, AnswersInv, UpdatesInv, Answers
<1>7. \A o \in Orders : Linked(o)
  BY <1>3, <1>4 DEF Linked, HashKnown, Accounted, EndReal, OneEnd, Terminals, EventKinds
<1>8. HashInv /\ ReportedInv
  BY <1>7 DEF HashInv, ReportedInv, ReportsInv, EndIsReal, CompletedOrFailed, Linked, EndReal, OneEnd
<1> QED
  BY <1>2, <1>5, <1>6, <1>8 DEF GatewayInv, ConnectorInv

LEMMA NextGateway == ASSUME GatewayInv, [GatewayNext]_gatewayVars PROVE GatewayInv'
<1>1. [Next]_vars
  BY NextTracks
<1>2. IInv' /\ ExecutedInv'
  BY <1>1, NextIInv, NextSums DEF GatewayInv
<1> SUFFICES ConnectorInv'
  BY <1>2 DEF GatewayInv
<1>3. CASE \E o \in Orders, amount \in Amounts : CreateOrder(o, amount)
  BY <1>2, <1>3, CreateKeeps
<1>4. CASE \E o \in Orders : OrderSubmitted(o) \/ OrderSubmissionFails(o)
  BY <1>4, SubmissionKeeps
<1>5. CASE \E o \in Orders : CancelReturns(o)
  BY <1>5, CancelReturnsKeeps
<1>6. CASE \E o \in Orders, r \in Rounds : StatusReturns(o, r)
  BY <1>2, <1>6, StatusReturnsKeeps
<1>7. CASE \E o \in Orders, r \in Rounds : CancelConfirmed(o, r)
  BY <1>7, CancelConfirmedKeeps
<1>8. CASE \/ \E o \in Orders : ExecuteCancel(o)
           \/ \E o \in Orders : CancelFails(o)
           \/ \E o \in Orders, r \in Rounds : AskStatus(o, r)
           \/ \E o \in Orders, r \in Rounds : AskCancel(o, r)
  BY <1>8, TaskStepKeeps
<1>9. CASE \/ \E o \in Orders : GatewaySends(o)
           \/ \E o \in Orders : GatewayRefuses(o)
           \/ \E o \in Orders, outcome \in {"mined", "reverted", "outOfGas", "dropped"} :
                TransactionEnds(o, outcome)
           \/ \E o \in Orders, k \in 1..MaxCancels : CancelMined(o, k)
           \/ \E o \in Orders : GatewaySendsCancel(o)
  BY <1>9, ChainStepKeeps
<1>10. CASE TrackerStep
  BY <1>2, <1>10, RunKeeps, EvictKeeps DEF TrackerStep
<1>11. CASE GatewayRestart
  BY <1>2, <1>11, RestartKeeps
<1>12. CASE UNCHANGED gatewayVars
  <2>1. /\ UNCHANGED <<order, started, active, cached, ready, events, fillEvents, saved, restarts>>
        /\ UNCHANGED <<slot, cancelsSent, minedCancel, request>>
        /\ UNCHANGED <<creating, cancelling, sentHash, lateCancels, cancelHash, status, confirmed, restored, faults>>
    BY <1>12 DEF gatewayVars, vars, tracker, history, chain, tasks, cancels
  <2>2. ChainMoves /\ UNCHANGED vars
    BY <1>12, <2>1 DEF ChainMoves, gatewayVars
  <2>3. UpdatesInv' /\ ReportedInv'
    BY <2>1, <2>2, ChainMovesKeep
  <2>4. TasksTypeOK' /\ ChainInv' /\ HashInv' /\ AnswersInv'
    BY <2>1 DEF GatewayInv, ConnectorInv, TasksTypeOK, ChainInv, HashInv, HashKnown, AnswersInv
  <2> QED
    BY <2>3, <2>4 DEF ConnectorInv
<1>13. CASE \E r \in Rounds : ListOrders(r) \/ RoundFails(r)
  BY <1>13, RoundKeeps
<1> QED
  BY <1>3, <1>4, <1>5, <1>6, <1>7, <1>8, <1>9, <1>10, <1>11, <1>12, <1>13 DEF GatewayNext

(* The inductive invariant of the connector: whatever the gateway, the      *)
(* chain, the polls and the restarts do, every answer and update under way  *)
(* keeps its grounds until it is used.                                      *)
THEOREM GatewayInvariant == GatewaySpec => []GatewayInv
<1>1. GatewayInit => GatewayInv
  BY InitGateway
<1>2. GatewayInv /\ [GatewayNext]_gatewayVars => GatewayInv'
  BY NextGateway
<1> QED
  BY <1>1, <1>2, PTL DEF GatewaySpec

-----------------------------------------------------------------------------
(* What the runs check, for any orders and bounds. *)

(* The variables of the connector, its tracker and the chain keep their types. *)
THEOREM GatewayTypeCorrect == GatewaySpec => []GatewayTypeOK
<1>1. GatewayInv => GatewayTypeOK
  BY DEF GatewayInv, IInv, StoreInv, StoreTypeOK, QueueTypeOK, TypeOK, ConnectorInv, TasksTypeOK, GatewayTypeOK
<1> QED
  BY <1>1, GatewayInvariant, PTL

(* What update_order_status and update_canceling_transactions report as the *)
(* end of an order is what the chain took.                                  *)
THEOREM ReportedIsReal == GatewaySpec => []EndIsReal
<1>1. GatewayInv => EndIsReal
  BY DEF GatewayInv, ConnectorInv, ReportedInv
<1> QED
  BY <1>1, GatewayInvariant, PTL

(* process_order_not_found fails an order whose transaction can still come  *)
(* only if the client never had its hash or a cancel competes with it.      *)
THEOREM FailureReal == GatewaySpec => []FailureIsReal
<1>1. GatewayInv => FailureIsReal
  BY DEF GatewayInv, ConnectorInv, ReportedInv, ReportsInv, Accounted, FailureIsReal
<1> QED
  BY <1>1, GatewayInvariant, PTL

(* A trade on the chain is tracked or was reported, unless a restart came   *)
(* before the creation of its order was reported.                           *)
THEOREM Accounts == GatewaySpec => []ExecutionAccounted
<1>1. GatewayInv => ExecutionAccounted
  <2> SUFFICES ASSUME GatewayInv, NEW o \in Orders, slot[o] = "mined"
               PROVE  \/ o \in active
                      \/ events[o]["Completed"] + events[o]["Failure"] > 0
                      \/ restarts > 0 /\ events[o]["Created"] = 0
    BY DEF ExecutionAccounted
  <2>1. Linked(o)
    BY AllLinked
  <2>2. o \in started /\ minedCancel[o] = 0
    BY DEF GatewayInv, ConnectorInv, ChainInv
  <2>3. \A k \in EventKinds : events[o][k] \in Nat
    BY DEF GatewayInv, IInv, StoreInv, StoreTypeOK
  <2>4. events[o]["Cancelled"] = 0
    BY <2>1, <2>2, <2>3 DEF Linked, EndReal, EventKinds
  <2> QED
    BY <2>1, <2>2, <2>3, <2>4 DEF Linked, Accounted, Terminals, EventKinds
<1> QED
  BY <1>1, GatewayInvariant, PTL

(* An order is reported as completed or as failed, never as both, and a     *)
(* second time as completed only after the answer to a cancel.              *)
THEOREM EndsOnce == GatewaySpec => []CompletedOrFailed
<1>1. GatewayInv => CompletedOrFailed
  BY DEF GatewayInv, ConnectorInv, ReportedInv
<1> QED
  BY <1>1, GatewayInvariant, PTL

(* The connector implements the tracker's specification: every step of it   *)
(* is one of the tracker's or leaves the tracker alone.                     *)
THEOREM GatewayImplementsTracker == GatewaySpec => ImplementsTracker
<1>1. GatewayInit => Init
  BY DEF GatewayInit
<1>2. GatewayInv /\ [GatewayNext]_gatewayVars => [Next]_vars
  BY NextTracks
<1> QED
  BY <1>1, <1>2, GatewayInvariant, PTL DEF GatewaySpec, ImplementsTracker, Spec

=============================================================================
