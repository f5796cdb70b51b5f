---------------------------- MODULE GatewayEVMAMM ----------------------------
(***************************************************************************)
(* The connector for decentralised exchanges (connector/                   *)
(* gateway_EVM_AMM.py) between its order tracker and the gateway.          *)
(*                                                                         *)
(* An order is one transaction.  It has no fills of its own: the           *)
(* connector asks the gateway for the status of the transaction until it   *)
(* is on the chain.  An order that takes too long is cancelled by a second *)
(* transaction with the same nonce, so that the chain takes one of the     *)
(* two.  The coroutine that submits the order, the task that cancels old   *)
(* orders and the polling loop race; a failing part of a poll does not     *)
(* stop the other parts, so that two rounds may be under way at once.      *)
(*                                                                         *)
(* The chain is external; the nonces themselves are in EvmNonceManager.    *)
(* Token approvals are left out.                                           *)
(***************************************************************************)
EXTENDS ClientOrderTracker

CONSTANTS
  MaxCancels,  \* Bound: cancel transactions sent, or still asked for, for one order.
  MaxRounds,   \* Bound: rounds of the polling loop under way at once.
  MaxFaults    \* Bound: submissions whose answer is lost.

(* A transaction trades the whole order or nothing.                         *)
ASSUME WholeFillAssumption == Amounts = {FillAmount[Trades]}

(* tracking_states of this connector leaves no active order out. *)
ASSUME TrackingStatesAssumption == KeepsDone

ASSUME BoundsAssumption == MaxCancels \in Nat /\ MaxRounds \in Nat /\ MaxFaults \in Nat

VARIABLES
  slot,        \* What became of the nonce of each order's transaction.
  cancelsSent, \* Cancel transactions sent for each order.
  minedCancel, \* Which of them is on the chain; 0 for none.
  request,     \* Orders whose submission travels to the gateway.
  creating,    \* Orders whose _create_order awaits amm_trade.
  cancelling,  \* Where _execute_cancel is with each order.
  sentHash,    \* The cancel transaction whose hash is on its way back; 0 for none.
  lateCancels, \* Cancel requests that travel on though nobody waits for them.
  cancelHash,  \* cancel_tx_hash: the cancel transaction the client knows; 0 for none.
  status,      \* Where each round of update_order_status is with each order.
  confirmed,   \* Answers under way to update_canceling_transactions: the cancel is mined.
  restored,    \* Active orders that were restored from the database.
  faults       \* Faults so far.

chain == <<slot, cancelsSent, minedCancel, request>>
cancels == <<cancelling, sentHash, lateCancels>>
tasks == <<creating, cancels, cancelHash, status, confirmed, restored>>
gatewayVars == <<vars, chain, tasks, faults>>

Rounds == 1..MaxRounds
Slots == {"unused", "pending", "mined", "reverted", "outOfGas", "cancelled", "dropped"}
Answers == {"waiting", "success", "reverted", "unknown", "error"}

(* A round has not listed the order, or is yet to ask, or has an answer to act on. *)
PollStates == Answers \cup {"none", "listed"}

Fault == faults < MaxFaults /\ faults' = faults + 1

Schedule(o, newState, hasExchangeId) == ScheduleUpdate(ClientUpdate(o, newState, hasExchangeId))

-----------------------------------------------------------------------------
(* The gateway and the chain. *)

GatewaySends(o) ==
  /\ o \in request
  /\ request' = request \ {o}
  /\ slot' = [slot EXCEPT ![o] = "pending"]
  /\ UNCHANGED <<vars, cancelsSent, minedCancel, tasks, faults>>

GatewayRefuses(o) ==
  /\ o \in request
  /\ request' = request \ {o}
  /\ UNCHANGED <<vars, slot, cancelsSent, minedCancel, tasks, faults>>

(* The transaction is executed, fails, runs out of gas, or the node forgets it. *)
TransactionEnds(o, outcome) ==
  /\ slot[o] = "pending"
  /\ slot' = [slot EXCEPT ![o] = outcome]
  /\ UNCHANGED <<vars, cancelsSent, minedCancel, request, tasks, faults>>

CancelMined(o, k) ==
  /\ slot[o] = "pending"
  /\ k <= cancelsSent[o]
  /\ slot' = [slot EXCEPT ![o] = "cancelled"]
  /\ minedCancel' = [minedCancel EXCEPT ![o] = k]
  /\ UNCHANGED <<vars, cancelsSent, request, tasks, faults>>

(* cancelTxWithGasPrice up to sendTransaction, while the nonce is unused on *)
(* the chain, for the request the client waits for or for a late one.       *)
GatewaySendsCancel(o) ==
  /\ slot[o] \in {"pending", "dropped"}
  /\ cancelsSent[o] < MaxCancels
  /\ slot' = [slot EXCEPT ![o] = "pending"]
  /\ cancelsSent' = [cancelsSent EXCEPT ![o] = @ + 1]
  /\ \/ /\ cancelling[o] = "asked"
        /\ cancelling' = [cancelling EXCEPT ![o] = "sent"]
        /\ sentHash' = [sentHash EXCEPT ![o] = cancelsSent'[o]]
        /\ UNCHANGED lateCancels
     \/ /\ lateCancels[o] > 0
        /\ lateCancels' = [lateCancels EXCEPT ![o] = @ - 1]
        /\ UNCHANGED <<cancelling, sentHash>>
  /\ UNCHANGED <<vars, minedCancel, request, creating, cancelHash, status, confirmed, restored, faults>>

(* poll of the gateway: what the node says of an order's transaction.  One  *)
(* that a cancel transaction competes with may have left the mempool.  The  *)
(* gateway keeps a missing receipt for a while (getTransactionReceipt), so  *)
(* that a transaction on the chain may look as if it still waited.          *)
NodeAnswers(o) ==
  CASE slot[o] = "pending"  -> IF cancelsSent[o] > 0 THEN {"waiting", "unknown"} ELSE {"waiting"}
    [] slot[o] = "mined"    -> {"waiting", "success"}
    [] slot[o] = "reverted" -> {"waiting", "reverted"}
    [] slot[o] = "outOfGas" -> {"waiting", "error"}
    [] OTHER                -> {"unknown"}

-----------------------------------------------------------------------------
(* _create_order. *)

CreateOrder(o, amount) ==
  /\ StartTrackingOrder(o, amount)
  /\ request' = request \cup {o}
  /\ creating' = creating \cup {o}
  /\ UNCHANGED <<cached, notFound, ready, waiting, history, saved, restarts>>
  /\ UNCHANGED <<slot, cancelsSent, minedCancel>>
  /\ UNCHANGED <<cancels, cancelHash, status, confirmed, restored, faults>>

(* A regression: the answer is written to the order past the tracker. *)
OrderSubmittedPastTracker(o) ==
  /\ o \in creating
  /\ slot[o] # "unused"
  /\ creating' = creating \ {o}
  /\ order' = [order EXCEPT ![o] = UpdateWithOrderUpdate(@, "OPEN", TRUE)]
  /\ UNCHANGED <<started, active, cached, notFound, ready, waiting, history, saved, restarts>>
  /\ UNCHANGED <<chain, cancels, cancelHash, status, confirmed, restored, faults>>

(* The answer brings the transaction hash, nonce and gas price. *)
OrderSubmitted(o) ==
  /\ o \in creating
  /\ slot[o] # "unused"
  /\ creating' = creating \ {o}
  /\ Schedule(o, "OPEN", TRUE)
  /\ UNCHANGED <<order, started, active, cached, notFound, waiting, history, saved, restarts>>
  /\ UNCHANGED <<chain, cancels, cancelHash, status, confirmed, restored, faults>>

(* The gateway refuses, or its answer is lost. *)
OrderSubmissionFails(o) ==
  /\ o \in creating
  /\ \/ o \notin request /\ slot[o] = "unused" /\ UNCHANGED faults
     \/ Fault
  /\ creating' = creating \ {o}
  /\ Schedule(o, "FAILED", FALSE)
  /\ UNCHANGED <<order, started, active, cached, notFound, waiting, history, saved, restarts>>
  /\ UNCHANGED <<chain, cancels, cancelHash, status, confirmed, restored>>

-----------------------------------------------------------------------------
(* Restored orders. *)

(* restore_tracking_states makes them InFlightOrders.  These have no        *)
(* is_approval_request, so approval_orders raises as long as one is active: *)
(* in the polling loop before it has asked anything, and in                 *)
(* cancel_outdated_orders.                                                  *)
ApprovalOrdersRaise == restored \cap active # {}

-----------------------------------------------------------------------------
(* cancel_outdated_orders and _execute_cancel, one order after the other.   *)
(* An order that is not open yet has no nonce, and the gateway refuses.     *)

ExecuteCancel(o) ==
  /\ ~ApprovalOrdersRaise
  /\ o \in active
  /\ order[o].state = "OPEN"
  /\ ~IsDone(order[o])
  /\ \A p \in Orders : cancelling[p] = "none"
  /\ cancelling' = [cancelling EXCEPT ![o] = "asked"]
  /\ UNCHANGED <<vars, chain, creating, sentHash, lateCancels, cancelHash>>
  /\ UNCHANGED <<status, confirmed, restored, faults>>

CancelEnds(o) ==
  /\ cancelling' = [cancelling EXCEPT ![o] = "none"]
  /\ sentHash' = [sentHash EXCEPT ![o] = 0]

(* A request that nobody waits for any more travels on to the gateway. *)
Late(o) == IF cancelling[o] = "asked" /\ cancelsSent[o] + lateCancels[o] < MaxCancels
             THEN lateCancels[o] + 1 ELSE lateCancels[o]

(* A regression: a cancel that is sent is taken for a cancelled order. *)
CancelReturnsCancelled(o) ==
  /\ cancelling[o] = "sent"
  /\ CancelEnds(o)
  /\ cancelHash' = [cancelHash EXCEPT ![o] = sentHash[o]]
  /\ UNCHANGED lateCancels
  /\ Schedule(o, "CANCELED", FALSE)
  /\ UNCHANGED <<order, started, active, cached, notFound, waiting, history, saved, restarts>>
  /\ UNCHANGED <<chain, creating, status, confirmed, restored, faults>>

(* The answer brings the hash of the cancel transaction. *)
CancelReturns(o) ==
  /\ cancelling[o] = "sent"
  /\ CancelEnds(o)
  /\ cancelHash' = [cancelHash EXCEPT ![o] = sentHash[o]]
  /\ UNCHANGED lateCancels
  /\ Schedule(o, "PENDING_CANCEL", FALSE)
  /\ UNCHANGED <<order, started, active, cached, notFound, waiting, history, saved, restarts>>
  /\ UNCHANGED <<chain, creating, status, confirmed, restored, faults>>

(* The gateway refuses, or it has sent the transaction and then fails to    *)
(* commit a nonce that is not new: the client hears of an error.  Or        *)
(* cancel_outdated_orders has waited for thirty seconds and gives up, which *)
(* does not stop a request on its way.                                      *)
CancelFails(o) ==
  /\ cancelling[o] # "none"
  /\ CancelEnds(o)
  /\ \/ UNCHANGED lateCancels
     \/ lateCancels' = [lateCancels EXCEPT ![o] = Late(o)]
  /\ UNCHANGED <<vars, chain, creating, cancelHash, status, confirmed, restored, faults>>

-----------------------------------------------------------------------------
(* _status_polling_loop. *)

Listed(r) == {o \in Orders : status[o][r] = "listed"}
HashesKnown(r) == \A o \in Listed(r) : order[o].idKnown

(* A round lists the open orders and waits for all their hashes. *)
ListOrders(r) ==
  /\ ~ApprovalOrdersRaise
  /\ active # {}
  /\ \A o \in Orders : status[o][r] = "none"
  /\ status' = [o \in Orders |-> [status[o] EXCEPT ![r] = IF o \in active THEN "listed" ELSE @]]
  /\ UNCHANGED <<vars, chain, creating, cancels, cancelHash, confirmed, restored, faults>>

(* get_exchange_order_id times out for one of them, and the round is over. *)
RoundFails(r) ==
  /\ ~HashesKnown(r)
  /\ status' = [o \in Orders |-> [status[o] EXCEPT ![r] = IF @ = "listed" THEN "none" ELSE @]]
  /\ UNCHANGED <<vars, chain, creating, cancels, cancelHash, confirmed, restored, faults>>

(* Regressions: a transaction in the mempool that may fail counts as not    *)
(* found; one that was reverted is waited for.                              *)
NotFoundWhileWaiting == {"waiting", "unknown", "reverted"}
NotFoundUnknownOnly == {"unknown"}

NotFoundAnswers == {"unknown", "reverted"}

(* update_order_status up to its second await, and the moment the node      *)
(* looks, whether or not the order is still open; an error stands for a     *)
(* lost answer too.  An answer that changes nothing is not kept.            *)
AskStatus(o, r) ==
  /\ status[o][r] = "listed"
  /\ HashesKnown(r)
  /\ \E answer \in NodeAnswers(o) \cup {"error"} :
       status' = [status EXCEPT ![o][r] =
                    IF answer \in NotFoundAnswers \cup {"success"} THEN answer ELSE "none"]
  /\ UNCHANGED <<vars, chain, creating, cancels, cancelHash, confirmed, restored, faults>>

(* An update to FILLED or FAILED takes the gas price from the order, and    *)
(* without it the fee of a fill raises.                                     *)
GasPriceKnown(o) == events[o]["Completed"] + events[o]["Failure"] = 0

(* The transaction is on the chain: the fill, then the order update. *)
TransactionSucceeded(o) ==
  \/ /\ GasPriceKnown(o)
     /\ ProcessTradeUpdates(o, Trades)
     /\ Schedule(o, "FILLED", FALSE)
     /\ UNCHANGED <<active, cached, notFound, events>>
  \/ ~GasPriceKnown(o) /\ UNCHANGED <<order, active, cached, notFound, ready, history, saved>>

OrderNotFound(o) ==
  /\ \/ ProcessOrderNotFound(o)
     \/ o \notin active /\ UNCHANGED <<order, active, cached, notFound, events, saved>>
  /\ UNCHANGED <<ready, fillEvents>>

(* update_order_status goes on with the answer, whatever happened meanwhile. *)
StatusReturns(o, r) ==
  /\ status[o][r] \in Answers
  /\ status' = [status EXCEPT ![o][r] = "none"]
  /\ \/ status[o][r] = "success" /\ TransactionSucceeded(o)
     \/ status[o][r] \in NotFoundAnswers /\ OrderNotFound(o)
  /\ UNCHANGED <<started, waiting, restarts>>
  /\ UNCHANGED <<chain, creating, cancels, cancelHash, confirmed, restored, faults>>

(* update_canceling_transactions up to its await, when the node finds the   *)
(* cancel transaction on the chain; other answers change nothing.           *)
AskCancel(o, r) ==
  /\ ~ApprovalOrdersRaise
  /\ o \in active
  /\ order[o].state = "PENDING_CANCEL"
  /\ cancelHash[o] # 0
  /\ minedCancel[o] = cancelHash[o]
  /\ <<o, r>> \notin confirmed
  /\ confirmed' = confirmed \cup {<<o, r>>}
  /\ UNCHANGED <<vars, chain, creating, cancels, cancelHash, status, restored, faults>>

CancelConfirmed(o, r) ==
  /\ <<o, r>> \in confirmed
  /\ confirmed' = confirmed \ {<<o, r>>}
  /\ \/ order[o].state = "PENDING_CANCEL" /\ Schedule(o, "CANCELED", FALSE)
     \/ order[o].state # "PENDING_CANCEL" /\ UNCHANGED ready
  /\ UNCHANGED <<order, started, active, cached, notFound, waiting, history, saved, restarts>>
  /\ UNCHANGED <<chain, creating, cancels, cancelHash, status, restored, faults>>

-----------------------------------------------------------------------------
(* The whole connector. *)

(* The tasks are gone; their requests and what the gateway has sent stay on *)
(* their way.                                                               *)
GatewayRestart ==
  /\ Restart
  /\ creating' = {}
  /\ cancelling' = [o \in Orders |-> "none"]
  /\ sentHash' = [o \in Orders |-> 0]
  /\ lateCancels' = [o \in Orders |-> Late(o)]
  /\ cancelHash' = [o \in Orders |-> 0]
  /\ status' = [o \in Orders |-> [r \in Rounds |-> "none"]]
  /\ confirmed' = {}
  /\ restored' = active'
  /\ UNCHANGED <<chain, faults>>

GatewayInit ==
  /\ Init
  /\ slot = [o \in Orders |-> "unused"]
  /\ cancelsSent = [o \in Orders |-> 0]
  /\ minedCancel = [o \in Orders |-> 0]
  /\ request = {}
  /\ creating = {}
  /\ cancelling = [o \in Orders |-> "none"]
  /\ sentHash = [o \in Orders |-> 0]
  /\ lateCancels = [o \in Orders |-> 0]
  /\ cancelHash = [o \in Orders |-> 0]
  /\ status = [o \in Orders |-> [r \in Rounds |-> "none"]]
  /\ confirmed = {}
  /\ restored = {}
  /\ faults = 0

(* The tasks of the tracker.  A FILLED update follows its fill, so none has *)
(* to wait.                                                                 *)
TrackerStep ==
  /\ RunOrderUpdate \/ \E o \in Orders : Evict(o)
  /\ UNCHANGED <<chain, tasks, faults>>

GatewayNext ==
  \/ \E o \in Orders, amount \in Amounts : CreateOrder(o, amount)
  \/ \E o \in Orders : OrderSubmitted(o)
  \/ \E o \in Orders : OrderSubmissionFails(o)
  \/ \E o \in Orders : ExecuteCancel(o)
  \/ \E o \in Orders : CancelReturns(o)
  \/ \E o \in Orders : CancelFails(o)
  \/ \E r \in Rounds : ListOrders(r)
  \/ \E r \in Rounds : RoundFails(r)
  \/ \E o \in Orders, r \in Rounds : AskStatus(o, r)
  \/ \E o \in Orders, r \in Rounds : StatusReturns(o, r)
  \/ \E o \in Orders, r \in Rounds : AskCancel(o, r)
  \/ \E o \in Orders, r \in Rounds : CancelConfirmed(o, r)
  \/ \E o \in Orders : GatewaySends(o)
  \/ \E o \in Orders : GatewayRefuses(o)
  \/ \E o \in Orders, outcome \in {"mined", "reverted", "outOfGas", "dropped"} :
       TransactionEnds(o, outcome)
  \/ \E o \in Orders, k \in 1..MaxCancels : CancelMined(o, k)
  \/ \E o \in Orders : GatewaySendsCancel(o)
  \/ TrackerStep
  \/ GatewayRestart

GatewaySpec == GatewayInit /\ [][GatewayNext]_gatewayVars

(* The outcome of a transaction, as against an old receipt or a lost answer. *)
AskOutcome(o) ==
  /\ slot[o] \in {"mined", "reverted", "cancelled", "dropped"}
  /\ \E r \in Rounds : AskStatus(o, r) /\ status'[o][r] # "none"

(* The event loop runs the tracker's tasks, a submission is answered, and   *)
(* the rounds of the polling loop go on.  An order that is asked for again  *)
(* and again has its outcome in an answer at last: a receipt missing in the *)
(* cache of the gateway is replaced when it comes, or dropped after an      *)
(* hour.  Nothing is assumed of the chain or of cancellation.               *)
GatewayFairness ==
  /\ WF_gatewayVars(RunOrderUpdate /\ UNCHANGED <<chain, tasks, faults>>)
  /\ \A o \in Orders :
       /\ WF_gatewayVars(OrderSubmitted(o) \/ OrderSubmissionFails(o))
       /\ SF_gatewayVars(AskOutcome(o))
       /\ \A r \in Rounds : WF_gatewayVars(AskStatus(o, r) \/ StatusReturns(o, r))
  /\ \A r \in Rounds : WF_gatewayVars(ListOrders(r) \/ RoundFails(r))

FairGatewaySpec == GatewaySpec /\ GatewayFairness

-----------------------------------------------------------------------------
(* Properties. *)

GatewayTypeOK ==
  /\ TypeOK
  /\ slot \in [Orders -> Slots]
  /\ cancelsSent \in [Orders -> 0..MaxCancels]
  /\ minedCancel \in [Orders -> 0..MaxCancels]
  /\ cancelHash \in [Orders -> 0..MaxCancels]
  /\ request \subseteq started
  /\ creating \subseteq started
  /\ cancelling \in [Orders -> {"none", "asked", "sent"}]
  /\ sentHash \in [Orders -> 0..MaxCancels]
  /\ lateCancels \in [Orders -> 0..MaxCancels]
  /\ status \in [Orders -> [Rounds -> PollStates]]
  /\ confirmed \subseteq started \X Rounds
  /\ restored \subseteq started
  /\ faults \in 0..MaxFaults

(* What is reported as the end of an order is what the chain took: the      *)
(* order's transaction for a fill and a completion, a cancel transaction    *)
(* for a cancellation, however answers, cancels and polls overtake each     *)
(* other (update_order_status, update_canceling_transactions).              *)
EndIsReal ==
  \A o \in Orders :
    /\ events[o]["Cancelled"] > 0 => minedCancel[o] # 0
    /\ events[o]["Completed"] > 0 => slot[o] = "mined"
    /\ \A t \in Trades : fillEvents[o][t] > 0 => slot[o] = "mined"

(* An order that was reported as failed trades later only if the client     *)
(* never had its hash, or a cancel transaction has pushed it out of the     *)
(* mempool (process_order_not_found on the answers of update_order_status). *)
FailureIsReal ==
  \A o \in Orders :
    events[o]["Failure"] > 0 /\ slot[o] \in {"pending", "mined"} =>
      ~order[o].idKnown \/ cancelsSent[o] > 0

(* A trade on the chain is not lost in silence: its order is still tracked, *)
(* or its end was reported, unless the process restarted before the         *)
(* creation of the order was (_create_order, the recorder's rows).          *)
ExecutionAccounted ==
  \A o \in Orders :
    slot[o] = "mined" =>
      \/ o \in active
      \/ events[o]["Completed"] + events[o]["Failure"] > 0
      \/ restarts > 0 /\ events[o]["Created"] = 0

(* An order is reported either as completed or as failed, though two rounds *)
(* of the polling loop apply old and new answers in any order               *)
(* (process_order_not_found spares an order that is done meanwhile; the fee *)
(* of a fill raises for one that failed).  It is reported as completed a    *)
(* second time only if a cancel was sent and its answer had come: an update *)
(* to PENDING_CANCEL between two to FILLED makes the second one a change.   *)
CompletedOrFailed ==
  \A o \in Orders :
    /\ events[o]["Completed"] = 0 \/ events[o]["Failure"] = 0
    /\ events[o]["Failure"] <= 1
    /\ events[o]["Completed"] > 1 =>
         cancelsSent[o] > 0 /\ (cancelHash[o] # 0 \/ restarts > 0)

(* The connector drives its tracker only in ways ClientOrderTracker allows, *)
(* so what is proved of the tracker holds for the orders of the gateway.    *)
ImplementsTracker == Spec

(* An order whose transaction or cancellation is decided is settled by the  *)
(* polls, unless a restored order stops them.  A transaction that ran out   *)
(* of gas is not among the outcomes: its status is an error every time.     *)
SettledOnceDecided ==
  \A o \in Orders, outcome \in {"mined", "reverted", "cancelled", "dropped"} :
    o \in active /\ slot[o] = outcome ~>
      o \notin active \/ slot[o] # outcome \/ ApprovalOrdersRaise
=============================================================================
