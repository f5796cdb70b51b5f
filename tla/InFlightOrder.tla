--------------------------- MODULE InFlightOrder ---------------------------
(***************************************************************************)
(* One order as the client sees it: the operators of                       *)
(* core/data_type/in_flight_order.py as functions of an order record.      *)
(*                                                                         *)
(* Prices, fees, pairs and timestamps are abstracted: no state change      *)
(* depends on them.  An amount is a number of lots.  The exchange order id *)
(* is the flag idKnown, since an exchange gives one id to one client id.   *)
(***************************************************************************)
EXTENDS Naturals

CONSTANTS
  Trades,       \* The trade ids the exchange assigns to the fills of an order.
  FillAmount,   \* The base amount of a set of trades taken together, in lots.
  Amounts       \* The amounts an order is submitted with, in lots.

ASSUME FillAmountAssumption ==
  /\ FillAmount \in [SUBSET Trades -> Nat]
  /\ FillAmount[{}] = 0
  /\ \A t \in Trades : FillAmount[{t}] > 0
  /\ \A T1, T2 \in SUBSET Trades :
       T1 \cap T2 = {} => FillAmount[T1 \cup T2] = FillAmount[T1] + FillAmount[T2]
ASSUME AmountsAssumption == Amounts # {} /\ Amounts \subseteq Nat

(* The states every connector uses; the others (PENDING_APPROVAL, APPROVED, *)
(* CREATED, COMPLETED) belong to the gateway's token approvals and perpetuals. *)
OrderState == {"PENDING_CREATE", "OPEN", "PENDING_CANCEL", "CANCELED",
               "PARTIALLY_FILLED", "FILLED", "FAILED"}

(* A client order.  The event completely_filled_event is not a field: it is *)
(* CompletelyFilled below, since only a trade or a restore can set it.      *)
Order == [amount   : Amounts,
          state    : OrderState,
          idKnown  : BOOLEAN,
          executed : Nat,
          fills    : SUBSET Trades]

NewOrder(amount) == [amount   |-> amount,
                     state    |-> "PENDING_CREATE",
                     idKnown  |-> FALSE,
                     executed |-> 0,
                     fills    |-> {}]

IsOpen(ord) == ord.state \in {"PENDING_CREATE", "OPEN", "PARTIALLY_FILLED", "PENDING_CANCEL"}

IsDone(ord) == \/ ord.state \in {"CANCELED", "FILLED", "FAILED"}
               \/ ord.executed >= ord.amount

IsFilled(ord) == \/ ord.state = "FILLED"
                 \/ ord.amount # 0 /\ ord.executed >= ord.amount

IsCancelled(ord) == ord.state = "CANCELED"

(* completely_filled_event, set by check_filled_condition after a trade. *)
CompletelyFilled(ord) == ord.fills # {} /\ ord.executed >= ord.amount

(* update_with_order_update: any state may follow any state. *)
UpdateWithOrderUpdate(ord, newState, hasExchangeId) ==
  [ord EXCEPT !.idKnown = ord.idKnown \/ hasExchangeId,
              !.state   = newState]

(* A regression: a trade that was seen before is counted again. *)
RecountTradeUpdates(ord, T) ==
  [ord EXCEPT !.fills    = ord.fills \cup T,
              !.executed = ord.executed + FillAmount[T]]

(* update_with_trade_update for each trade of T: a trade id counts once, and  *)
(* there is no cap at the amount.                                           *)
UpdateWithTradeUpdates(ord, T) ==
  [ord EXCEPT !.fills    = ord.fills \cup T,
              !.executed = ord.executed + FillAmount[T \ ord.fills]]
=============================================================================
