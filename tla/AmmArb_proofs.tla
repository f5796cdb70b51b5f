---------------------------- MODULE AmmArb_proofs ----------------------------
(***************************************************************************)
(* Proofs about the AMM arbitrage strategy: its types, the order of the    *)
(* legs while the shared events are fresh, that main tasks do not overlap, *)
(* and that a leg is dropped for a failure only.                           *)
(*                                                                         *)
(* The argument.  Submitting in sequence, and with the events fresh, the   *)
(* strategy has one order at most: it is what the task waits for, and the  *)
(* first end the process sees is its end.  Limit orders outstanding are    *)
(* all tracked, so a tick that finds none tracked starts a run with none   *)
(* outstanding.  Every order of a run has its partner, except the first    *)
(* leg of the arbitrage under way.                                         *)
(***************************************************************************)
EXTENDS AmmArb, SequenceTheorems, TLAPS

-----------------------------------------------------------------------------
(* The inductive invariant.                                                *)

Executing == {"place", "pricing", "leg", "check", "both"}
Placing == task.pc \in {"place", "pricing"}
Waiting == task.pc \in {"leg", "check"}

(* Where the task is and what it deals with.                               *)
PhaseSound ==
  /\ ~running => task = NoTask /\ orders = <<>>
  /\ task.pc \in Executing => task.left \in 1..2
  /\ ~TaskOver => runs >= 1
  /\ task.pc = "quoting" => task.leg = 1
  /\ task.pc = "check" => completed
  /\ Waiting => ~concurrent
  /\ \A i \in DOMAIN orders : orders[i].run <= runs
  /\ \A i \in DOMAIN orders : orders[i].state = "failed" => failed

IsLimit(o) == TakerType[o.market] = "limit"
OpenLimit(o) == IsOpen(o) /\ IsLimit(o)

(* The tracker holds limit orders only as such, and all that are open.     *)
TrackerSound ==
  /\ \A e \in tracker.limit : IsLimit(orders[e[2]])
  /\ \A i \in DOMAIN orders :
       OpenLimit(orders[i]) => <<orders[i].market, i>> \in tracker.limit

(* A run that is under way owns all limit orders that are open.            *)
RunOwnsOpen ==
  ~TaskOver => \A i \in DOMAIN orders : OpenLimit(orders[i]) => orders[i].run = runs

(* While no order of the process has ended, submission in sequence has     *)
(* placed one leg at most, and waits for it.                               *)
AtMostOneFresh ==
  ~concurrent /\ ~completed =>
    /\ Placing => task.leg = 1
    /\ task.pc # "both"
    /\ task.pc # "leg" => orders = <<>>
    /\ task.pc = "leg" => Len(orders) = 1

(* A first leg placed on fresh events has ended when the wait for it has,  *)
(* and has not failed when the second leg is up.                           *)
FreshEnded ==
  ~concurrent =>
    \A i \in DOMAIN orders : orders[i].fresh =>
      /\ completed => orders[i].state # "open"
      /\ Placing /\ task.leg = 2 => orders[i].state = "completed"

(* Every order of the run has its partner, but the first leg under way.    *)
HasPartner(i) ==
  \E j \in DOMAIN orders :
    SameArbitrage(orders[i], orders[j]) /\ orders[i].leg # orders[j].leg
FirstLegUp == (Placing /\ task.leg = 2) \/ (Waiting /\ task.leg = 1)
IsFirstLeg(o) == o.run = runs /\ o.left = task.left /\ o.leg = 1
LegsPaired ==
  ~TaskOver =>
    /\ \A i \in DOMAIN orders :
         orders[i].run = runs => HasPartner(i) \/ (FirstLegUp /\ IsFirstLeg(orders[i]))
    /\ FirstLegUp => \E i \in DOMAIN orders : IsFirstLeg(orders[i])

IInv ==
  /\ TypeOK /\ PhaseSound /\ TrackerSound /\ RunOwnsOpen /\ OneRunOutstanding
  /\ AtMostOneFresh /\ FreshEnded /\ FreshArbitrageInSequence /\ LegsPaired

OrderType == [market : Markets, run : 1..MaxRuns, left : 1..2, leg : 1..2,
              fresh : BOOLEAN, state : States]
TaskType == [pc : Awaiting \union Over \union {"place", "check"}, left : 0..2, leg : 1..2]

LEMMA InitIInv == Init => IInv
<1> SUFFICES ASSUME Init PROVE IInv
  OBVIOUS
<1> USE DEF Init, NoTask, NoOrders
<1>1. TypeOK
  <2>1. task \in [pc : Awaiting \union Over \union {"place", "check"}, left : 0..2, leg : 1..2]
    BY DEF Over
  <2>2. tracker \in [limit : SUBSET (Markets \X DOMAIN orders),
                     market : SUBSET (Markets \X DOMAIN orders),
                     known : SUBSET (Markets \X DOMAIN orders)]
    OBVIOUS
  <2>3. orders \in Seq(OrderType) /\ tracker.limit \subseteq tracker.known
    OBVIOUS
  <2>4. starts \in 0..MaxStarts /\ runs \in 0..MaxRuns
    BY AmmArbAssumption
  <2> HIDE DEF NoTask, NoOrders
  <2> QED
    BY <2>1, <2>2, <2>3, <2>4 DEF TypeOK, OrderType
<1>2. PhaseSound
  BY DEF PhaseSound, Executing, TaskOver, Over, Waiting
<1>3. TrackerSound
  BY DEF TrackerSound
<1>4. RunOwnsOpen /\ OneRunOutstanding
  BY DEF RunOwnsOpen, OneRunOutstanding, TaskOver, Over
<1>5. AtMostOneFresh /\ FreshEnded /\ FreshArbitrageInSequence /\ LegsPaired
  BY DEF AtMostOneFresh, FreshEnded, FreshArbitrageInSequence, LegsPaired, TaskOver, Over, Placing
<1> QED
  BY <1>1, <1>2, <1>3, <1>4, <1>5 DEF IInv

-----------------------------------------------------------------------------
(* The steps.                                                              *)

(* What the type of the orders says of each.                               *)
LEMMA OrderFacts ==
  ASSUME IInv
  PROVE  /\ orders \in Seq(OrderType)
         /\ \A i \in DOMAIN orders :
              /\ orders[i] \in OrderType
              /\ orders[i].market \in Markets
              /\ orders[i].run \in 1..MaxRuns /\ orders[i].run \in Nat
              /\ orders[i].left \in 1..2 /\ orders[i].leg \in 1..2
              /\ orders[i].fresh \in BOOLEAN /\ orders[i].state \in States
<1>1. orders \in Seq(OrderType)
  BY DEF IInv, TypeOK, OrderType
<1>2. \A i \in DOMAIN orders : orders[i] \in OrderType
  BY <1>1
<1> QED
  BY <1>1, <1>2, AmmArbAssumption DEF OrderType

(* A new strategy has nothing to keep in order.                            *)
LEMMA ResetKeeps ==
  ASSUME IInv, starts' \in 0..MaxStarts, running' \in BOOLEAN, concurrent' \in BOOLEAN,
         task' = NoTask, orders' = <<>>, tracker' = NoOrders,
         UNCHANGED <<completed, failed, runs>>
  PROVE  IInv'
<1>1. TypeOK'
  BY DEF IInv, TypeOK, NoTask, NoOrders, Over
<1>2. PhaseSound'
  BY DEF PhaseSound, Executing, TaskOver, Over, Waiting, NoTask
<1>3. TrackerSound'
  BY DEF TrackerSound, NoOrders
<1>4. (RunOwnsOpen /\ OneRunOutstanding)'
  BY DEF RunOwnsOpen, OneRunOutstanding, TaskOver, Over, NoTask
<1>5. (AtMostOneFresh /\ FreshEnded /\ FreshArbitrageInSequence /\ LegsPaired)'
  BY DEF AtMostOneFresh, FreshEnded, FreshArbitrageInSequence, LegsPaired, TaskOver, Over,
         Placing, NoTask
<1> QED
  BY <1>1, <1>2, <1>3, <1>4, <1>5 DEF IInv

LEMMA startKeeps == ASSUME IInv, start PROVE IInv'
<1>1. starts' \in 0..MaxStarts
  BY AmmArbAssumption DEF IInv, TypeOK, start
<1> QED
  BY <1>1, ResetKeeps DEF start

LEMMA stopKeeps == ASSUME IInv, stop PROVE IInv'
<1>1. starts' \in 0..MaxStarts /\ concurrent' \in BOOLEAN
  BY DEF IInv, TypeOK, stop
<1> QED
  BY <1>1, ResetKeeps DEF stop

(* What a step of the task that places nothing leaves as it is.            *)
Nothing == UNCHANGED <<strategy, completed, failed, orders, tracker>>

(* A step of the task keeps whatever says nothing of the task.             *)
LEMMA TaskStepKeeps ==
  ASSUME IInv, Nothing, task' \in TaskType, UNCHANGED runs, running,
         task'.pc \in Executing => task'.left \in 1..2,
         ~TaskOver,
         task'.pc = "quoting" => task'.leg = 1,
         task'.pc = "check" => completed,
         task'.pc \in {"leg", "check"} => ~concurrent
  PROVE  /\ TypeOK' /\ PhaseSound' /\ TrackerSound' /\ RunOwnsOpen'
         /\ OneRunOutstanding' /\ FreshArbitrageInSequence'
<1> USE DEF Nothing, strategy
<1>1. TypeOK'
  BY DEF IInv, TypeOK, TaskType
<1>2. PhaseSound'
  BY DEF IInv, PhaseSound, TaskOver, Waiting
<1>3. TrackerSound'
  BY DEF IInv, TrackerSound, OpenLimit, IsLimit, IsOpen
<1>4. RunOwnsOpen'
  BY DEF IInv, RunOwnsOpen, OpenLimit, IsLimit, IsOpen
<1>5. OneRunOutstanding'
  BY DEF IInv, OneRunOutstanding, IsOpen
<1>6. FreshArbitrageInSequence'
  BY DEF IInv, FreshArbitrageInSequence, SameArbitrage
<1> QED
  BY <1>1, <1>2, <1>3, <1>4, <1>5, <1>6

(* What is known of a step of a task that is not over.                     *)
LEMMA Busy ==
  ASSUME IInv, ~TaskOver
  PROVE  /\ running /\ task \in TaskType /\ runs >= 1 /\ runs \in 1..MaxRuns
         /\ orders \in Seq(OrderType) /\ MaxRuns \in Nat
<1>1. task \in TaskType /\ orders \in Seq(OrderType) /\ runs \in 0..MaxRuns /\ running \in BOOLEAN
  BY DEF IInv, TypeOK, TaskType, OrderType
<1>2. running /\ runs >= 1
  BY <1>1 DEF IInv, PhaseSound, NoTask, TaskOver, Over
<1> QED
  BY <1>1, <1>2, AmmArbAssumption

LEMMA tickKeeps == ASSUME IInv, tick PROVE IInv'
<1> DEFINE t == [NoTask EXCEPT !.pc = "quoting"]
<1>1. /\ task' = t /\ t.pc = "quoting" /\ t.left = 0 /\ t.leg = 1
      /\ t \in TaskType /\ running
      /\ runs' = runs + 1 /\ runs < MaxRuns /\ runs \in 0..MaxRuns /\ MaxRuns \in Nat
      /\ UNCHANGED <<starts, running, concurrent, completed, failed, orders, tracker>>
  BY AmmArbAssumption DEF IInv, TypeOK, tick, strategy, LoopFree, NoTask, TaskType, Awaiting
<1> HIDE DEF t
<1>2. \A i \in DOMAIN orders : ~OpenLimit(orders[i])
  <2> SUFFICES ASSUME NEW i \in DOMAIN orders, OpenLimit(orders[i]) PROVE FALSE
    OBVIOUS
  <2>1. orders[i].market \in Markets
    BY OrderFacts
  <2>2. <<orders[i].market, i>> \in ActiveOrders(tracker, orders[i].market)
    BY DEF IInv, TrackerSound, ActiveOrders
  <2> QED
    BY <2>1, <2>2 DEF tick, ready_for_new_arb_trades
<1>3. TypeOK'
  BY <1>1 DEF IInv, TypeOK, TaskType
<1>4. PhaseSound'
  <2>1. \A i \in DOMAIN orders : orders[i].run \in Nat /\ orders[i].run <= runs
    BY OrderFacts DEF IInv, PhaseSound
  <2> QED
    BY <1>1, <2>1 DEF IInv, PhaseSound, Executing, TaskOver, Over, Waiting
<1>5. TrackerSound' /\ OneRunOutstanding'
  BY <1>1 DEF IInv, TrackerSound, OneRunOutstanding, OpenLimit, IsLimit, IsOpen
<1>6. RunOwnsOpen'
  BY <1>1, <1>2 DEF RunOwnsOpen, OpenLimit, IsLimit, IsOpen
<1>7. AtMostOneFresh' /\ FreshEnded'
  BY <1>1 DEF IInv, AtMostOneFresh, FreshEnded, Placing, tick, TaskOver, Over
<1>8. FreshArbitrageInSequence'
  BY <1>1 DEF IInv, FreshArbitrageInSequence, SameArbitrage
<1>9. LegsPaired'
  <2>1. \A i \in DOMAIN orders : orders[i].run # runs + 1
    BY <1>1, OrderFacts DEF IInv, PhaseSound
  <2> QED
    BY <1>1, <2>1 DEF LegsPaired, FirstLegUp, Placing, Waiting
<1> QED
  BY <1>3, <1>4, <1>5, <1>6, <1>7, <1>8, <1>9 DEF IInv

LEMMA QuotedKeeps == ASSUME IInv, Quoted PROVE IInv'
<1>1. PICK n \in 0..2 :
        task' = [task EXCEPT !.pc = IF n = 0 THEN "returned" ELSE "place", !.left = n]
  BY DEF Quoted
<1>2. /\ ~TaskOver /\ task.pc = "quoting" /\ Nothing /\ UNCHANGED runs
      /\ UNCHANGED <<starts, running, concurrent, completed, failed, orders, tracker>>
  BY DEF Quoted, Nothing, strategy, TaskOver, Over
<1>3. /\ task' \in TaskType /\ task'.left = n
      /\ task'.pc = IF n = 0 THEN "returned" ELSE "place"
      /\ task'.leg = task.leg
  BY <1>1, <1>2, Busy DEF TaskType, Over
<1>4. task.leg = 1
  BY <1>2 DEF IInv, PhaseSound
<1>5. /\ TypeOK' /\ PhaseSound' /\ TrackerSound' /\ RunOwnsOpen'
      /\ OneRunOutstanding' /\ FreshArbitrageInSequence'
  BY <1>2, <1>3, Busy, TaskStepKeeps DEF Executing
<1>6. AtMostOneFresh' /\ FreshEnded'
  BY <1>2, <1>3, <1>4 DEF IInv, AtMostOneFresh, FreshEnded, Placing
<1>7. LegsPaired'
  BY <1>2, <1>3, <1>4 DEF IInv, LegsPaired, FirstLegUp, Placing, Waiting, TaskOver, Over,
     HasPartner, SameArbitrage
<1> QED
  BY <1>5, <1>6, <1>7 DEF IInv

LEMMA MainRaisesKeeps == ASSUME IInv, MainRaises PROVE IInv'
<1>1. /\ ~TaskOver /\ Nothing /\ UNCHANGED runs
      /\ UNCHANGED <<starts, running, concurrent, completed, failed, orders, tracker>>
      /\ task.pc \in {"quoting", "pricing"}
  BY DEF MainRaises, Nothing, strategy, TaskOver, Over
<1>2. task' \in TaskType /\ task'.pc = "raised"
  BY <1>1, Busy DEF MainRaises, TaskType, Over
<1>3. /\ TypeOK' /\ PhaseSound' /\ TrackerSound' /\ RunOwnsOpen'
      /\ OneRunOutstanding' /\ FreshArbitrageInSequence'
  BY <1>1, <1>2, Busy, TaskStepKeeps DEF Executing
<1>4. AtMostOneFresh' /\ FreshEnded'
  BY <1>1, <1>2 DEF IInv, AtMostOneFresh, FreshEnded, Placing
<1>5. LegsPaired'
  BY <1>2 DEF LegsPaired, TaskOver, Over
<1> QED
  BY <1>3, <1>4, <1>5 DEF IInv

LEMMA AskPriceKeeps == ASSUME IInv, AskPrice PROVE IInv'
<1>1. /\ ~TaskOver /\ Nothing /\ UNCHANGED runs /\ task.pc = "place"
      /\ UNCHANGED <<starts, running, concurrent, completed, failed, orders, tracker>>
  BY DEF AskPrice, Nothing, strategy, TaskOver, Over
<1>2. /\ task' \in TaskType /\ task'.pc = "pricing"
      /\ task'.left = task.left /\ task'.leg = task.leg
  BY <1>1, Busy DEF AskPrice, TaskType, Awaiting
<1>3. /\ TypeOK' /\ PhaseSound' /\ TrackerSound' /\ RunOwnsOpen'
      /\ OneRunOutstanding' /\ FreshArbitrageInSequence'
  <2>1. task'.left \in 1..2
    BY <1>1, <1>2 DEF IInv, PhaseSound, Executing
  <2> QED
    BY <1>1, <1>2, <2>1, Busy, TaskStepKeeps
<1>4. AtMostOneFresh' /\ FreshEnded'
  BY <1>1, <1>2 DEF IInv, AtMostOneFresh, FreshEnded, Placing
<1>5. LegsPaired'
  BY <1>1, <1>2 DEF IInv, LegsPaired, FirstLegUp, IsFirstLeg, Placing, Waiting, TaskOver, Over,
     HasPartner, SameArbitrage
<1> QED
  BY <1>3, <1>4, <1>5 DEF IInv

LEMMA LegWaitedKeeps == ASSUME IInv, LegWaited PROVE IInv'
<1>1. /\ ~TaskOver /\ Nothing /\ UNCHANGED runs /\ task.pc \in {"leg", "check"}
      /\ UNCHANGED <<starts, running, concurrent, completed, failed, orders, tracker>>
      /\ task' = AfterLeg
  BY DEF LegWaited, Nothing, strategy, TaskOver, Over
<1>2. /\ task \in TaskType /\ task' \in TaskType
      /\ task'.left = task.left
      /\ failed => task'.pc = "returned"
      /\ ~failed /\ task.leg = 1 => task'.pc = "place" /\ task'.leg = 2
      /\ ~failed /\ task.leg = 2 => task'.pc = "both"
  <2>1. task \in TaskType /\ task.leg \in 1..2
    BY <1>1, Busy DEF TaskType
  <2>2. CASE failed
    BY <1>1, <2>1, <2>2 DEF AfterLeg, TaskType, Over
  <2>3. CASE ~failed /\ task.leg = 1
    <3>1. task' = [pc |-> "place", left |-> task.left, leg |-> 2]
      BY <1>1, <2>1, <2>3 DEF AfterLeg, TaskType
    <3> QED
      BY <2>1, <2>3, <3>1 DEF TaskType
  <2>4. CASE ~failed /\ task.leg = 2
    BY <1>1, <2>1, <2>4 DEF AfterLeg, TaskType, Awaiting
  <2> QED
    BY <2>1, <2>2, <2>3, <2>4
<1>3. completed /\ ~concurrent /\ failed \in BOOLEAN
  BY <1>1 DEF LegWaited, IInv, PhaseSound, Waiting, TypeOK
<1>4. /\ TypeOK' /\ PhaseSound' /\ TrackerSound' /\ RunOwnsOpen'
      /\ OneRunOutstanding' /\ FreshArbitrageInSequence'
  <2>1. task.left \in 1..2
    BY <1>1 DEF IInv, PhaseSound, Executing
  <2>2. task'.pc \in {"returned", "place", "both"}
    BY <1>2, <1>3 DEF TaskType
  <2> QED
    BY <1>1, <1>2, <2>1, <2>2, Busy, TaskStepKeeps
<1>5. AtMostOneFresh'
  BY <1>1, <1>3 DEF AtMostOneFresh
<1>6. FreshEnded'
  <2>1. ASSUME NEW i \in DOMAIN orders, orders[i].fresh, ~failed
        PROVE  orders[i].state = "completed"
    BY <1>3, <2>1, OrderFacts DEF IInv, FreshEnded, PhaseSound, States
  <2> QED
    BY <1>1, <1>2, <1>3, <2>1 DEF IInv, FreshEnded, Placing
<1>7. LegsPaired'
  BY <1>1, <1>2, <1>3 DEF IInv, LegsPaired, FirstLegUp, IsFirstLeg, Placing, Waiting, TaskOver,
     Over, HasPartner, SameArbitrage, TaskType
<1> QED
  BY <1>4, <1>5, <1>6, <1>7 DEF IInv

LEMMA BothWaitedKeeps == ASSUME IInv, BothWaited PROVE IInv'
<1>1. /\ ~TaskOver /\ Nothing /\ UNCHANGED runs /\ task.pc = "both" /\ completed
      /\ UNCHANGED <<starts, running, concurrent, completed, failed, orders, tracker>>
  BY DEF BothWaited, Nothing, strategy, TaskOver, Over
<1>2. /\ task.left \in 1..2 /\ task \in TaskType
      /\ \/ /\ task.left = 2 /\ task'.pc = "place" /\ task'.left = 1 /\ task'.leg = 1
         \/ task'.pc = "returned"
      /\ task' \in TaskType
  <2>1. task.left \in 1..2 /\ task \in TaskType
    BY <1>1, Busy DEF IInv, PhaseSound, Executing
  <2>2. CASE task.left > 1
    <3>1. task.left = 2 /\ task.left - 1 = 1
      BY <2>1, <2>2
    <3>2. task' = [task EXCEPT !.pc = "place", !.left = 1, !.leg = 1]
      BY <2>2, <3>1 DEF BothWaited
    <3>3. task' = [pc |-> "place", left |-> 1, leg |-> 1]
      BY <2>1, <3>2 DEF TaskType
    <3> QED
      BY <2>1, <3>1, <3>3 DEF TaskType
  <2>3. CASE ~ task.left > 1
    BY <2>1, <2>3 DEF BothWaited, TaskType, Over
  <2> QED
    BY <2>1, <2>2, <2>3
<1>3. /\ TypeOK' /\ PhaseSound' /\ TrackerSound' /\ RunOwnsOpen'
      /\ OneRunOutstanding' /\ FreshArbitrageInSequence'
  BY <1>1, <1>2, Busy, TaskStepKeeps DEF Executing
<1>4. AtMostOneFresh' /\ FreshEnded'
  BY <1>1, <1>2 DEF IInv, AtMostOneFresh, FreshEnded, Placing
<1>5. LegsPaired'
  BY <1>1, <1>2 DEF IInv, LegsPaired, FirstLegUp, IsFirstLeg, Placing, Waiting, TaskOver, Over,
     HasPartner, SameArbitrage
<1> QED
  BY <1>3, <1>4, <1>5 DEF IInv

(* Placing a leg: the new order, and where the task goes.                  *)
LEMMA LegMarketIsMarket ==
  ASSUME task.leg \in 1..2 PROVE LegMarket \in Markets
<1>1. CASE task.leg = 1
  BY <1>1 DEF LegMarket, prioritized, Markets
<1>2. CASE task.leg = 2
  BY <1>2 DEF LegMarket, prioritized, Markets
<1> QED
  BY <1>1, <1>2

LEMMA AfterPlacingFacts ==
  ASSUME task \in TaskType, Placing
  PROVE  /\ AfterPlacing \in TaskType /\ AfterPlacing.left = task.left
         /\ concurrent /\ task.leg = 1 => AfterPlacing.pc = "place" /\ AfterPlacing.leg = 2
         /\ concurrent /\ task.leg = 2 => AfterPlacing.pc = "both"
         /\ ~concurrent => /\ AfterPlacing.pc = IF completed THEN "check" ELSE "leg"
                           /\ AfterPlacing.leg = task.leg
<1>1. task.leg \in 1..2 /\ task.left \in 0..2
  BY DEF TaskType
<1>2. CASE concurrent /\ task.leg = 1
  <2>1. AfterPlacing = [pc |-> "place", left |-> task.left, leg |-> 2]
    BY <1>2 DEF AfterPlacing, TaskType
  <2> QED
    BY <1>1, <1>2, <2>1 DEF TaskType
<1>3. CASE concurrent /\ task.leg = 2
  <2>1. AfterPlacing = [pc |-> "both", left |-> task.left, leg |-> 2]
    BY <1>3 DEF AfterPlacing, TaskType
  <2> QED
    BY <1>1, <1>3, <2>1 DEF TaskType, Awaiting
<1>4. CASE ~concurrent
  <2>1. AfterPlacing = [pc |-> IF completed THEN "check" ELSE "leg", left |-> task.left,
                        leg |-> task.leg]
    BY <1>4 DEF AfterPlacing, TaskType
  <2> QED
    BY <1>1, <1>4, <2>1 DEF TaskType, Awaiting
<1> QED
  BY <1>1, <1>2, <1>3, <1>4

LEMMA PlaceLegKeeps == ASSUME IInv, PlaceLeg PROVE IInv'
<1> DEFINE k == Len(orders) + 1
           new == [market |-> LegMarket, run |-> runs, left |-> task.left, leg |-> task.leg,
                   fresh |-> ~completed, state |-> "open"]
<1>1. /\ ~TaskOver /\ Placing /\ UNCHANGED runs
      /\ UNCHANGED <<starts, running, concurrent, completed, failed>>
      /\ orders' = Append(orders, new) /\ task' = AfterPlacing
      /\ tracker' = Track(tracker, TakerType[LegMarket], LegMarket, k)
  BY DEF PlaceLeg, Placing, strategy, TaskOver, Over
<1>2. /\ running /\ task \in TaskType /\ runs \in 1..MaxRuns /\ runs \in Nat
      /\ task.left \in 1..2 /\ task.leg \in 1..2
      /\ concurrent \in BOOLEAN /\ completed \in BOOLEAN /\ failed \in BOOLEAN
  <2>1. running /\ task \in TaskType /\ runs \in 1..MaxRuns /\ MaxRuns \in Nat
    BY <1>1, Busy
  <2> QED
    BY <1>1, <2>1 DEF TaskType, IInv, TypeOK, PhaseSound, Placing, Executing
<1>3. /\ new \in OrderType /\ LegMarket \in Markets
      /\ new.market = LegMarket /\ new.run = runs /\ new.left = task.left /\ new.leg = task.leg
      /\ new.fresh = ~completed /\ new.state = "open"
  BY <1>2, LegMarketIsMarket DEF OrderType, States
<1> HIDE DEF new
<1>4. /\ orders' \in Seq(OrderType) /\ k \in Nat /\ k \notin DOMAIN orders
      /\ DOMAIN orders' = DOMAIN orders \union {k} /\ orders'[k] = new
      /\ \A i \in DOMAIN orders : i \in DOMAIN orders' /\ orders'[i] = orders[i]
      /\ Len(orders') = k
  BY <1>1, <1>3, OrderFacts, AppendProperties
<1>5. /\ task' \in TaskType /\ task'.left = task.left
      /\ concurrent /\ task.leg = 1 => task'.pc = "place" /\ task'.leg = 2
      /\ concurrent /\ task.leg = 2 => task'.pc = "both"
      /\ ~concurrent => task'.pc = (IF completed THEN "check" ELSE "leg") /\ task'.leg = task.leg
  BY <1>1, <1>2, AfterPlacingFacts
<1>6. task'.pc \in {"place", "both", "check", "leg"}
  BY <1>2, <1>5
<1> HIDE DEF k
<1>7. TypeOK'
  <2> DEFINE entry == {<<LegMarket, k>>}
             T == [limit : SUBSET (Markets \X DOMAIN orders'),
                   market : SUBSET (Markets \X DOMAIN orders'),
                   known : SUBSET (Markets \X DOMAIN orders')]
  <2>1. entry \subseteq Markets \X DOMAIN orders'
    BY <1>3, <1>4
  <2>2. tracker \in T /\ tracker.limit \subseteq tracker.known
    BY <1>4 DEF IInv, TypeOK
  <2>3. tracker' = [tracker EXCEPT !.limit = @ \union entry, !.known = @ \union entry]
        \/ tracker' = [tracker EXCEPT !.market = @ \union entry, !.known = @ \union entry]
    BY <1>1 DEF Track
  <2>4. tracker' \in T /\ tracker'.limit \subseteq tracker'.known
    <3> HIDE DEF entry
    <3> QED
      BY <2>1, <2>2, <2>3
  <2> QED
    BY <1>1, <1>4, <1>5, <2>4 DEF IInv, TypeOK, TaskType, OrderType
<1>8. PhaseSound'
  BY <1>1, <1>2, <1>3, <1>4, <1>5, <1>6 DEF IInv, PhaseSound, Executing, Waiting, TaskOver, Over
<1>9. TrackerSound'
  <2>1. CASE TakerType[LegMarket] = "limit"
    <3>1. tracker'.limit = tracker.limit \union {<<LegMarket, k>>}
      BY <1>1, <2>1 DEF Track, IInv, TypeOK
    <3>2. \A e \in tracker.limit : e[2] \in DOMAIN orders
      BY DEF IInv, TypeOK
    <3> QED
      BY <1>3, <1>4, <2>1, <3>1, <3>2 DEF IInv, TrackerSound, OpenLimit, IsLimit, IsOpen
  <2>2. CASE TakerType[LegMarket] # "limit"
    <3>1. tracker'.limit = tracker.limit
      BY <1>1, <2>2 DEF Track, IInv, TypeOK
    <3>2. \A e \in tracker.limit : e[2] \in DOMAIN orders
      BY DEF IInv, TypeOK
    <3> QED
      BY <1>3, <1>4, <2>2, <3>1, <3>2 DEF IInv, TrackerSound, OpenLimit, IsLimit, IsOpen
  <2> QED
    BY <2>1, <2>2
<1>10. RunOwnsOpen' /\ OneRunOutstanding'
  <2>1. \A i \in DOMAIN orders' : OpenLimit(orders'[i]) => orders'[i].run = runs
    BY <1>1, <1>3, <1>4 DEF IInv, RunOwnsOpen
  <2> QED
    BY <1>1, <2>1 DEF RunOwnsOpen, OneRunOutstanding, OpenLimit, IsLimit, IsOpen
<1>11. AtMostOneFresh'
  <2> SUFFICES ASSUME ~concurrent, ~completed
               PROVE  task'.pc = "leg" /\ Len(orders') = 1
    BY <1>1 DEF AtMostOneFresh, Placing
  <2>1. orders = <<>>
    BY <1>1 DEF IInv, AtMostOneFresh, Placing
  <2> QED
    BY <1>4, <1>5, <2>1 DEF k
<1>12. FreshEnded'
  BY <1>1, <1>3, <1>4, <1>5 DEF IInv, FreshEnded, Placing
<1>13. FreshArbitrageInSequence'
  <2> SUFFICES ASSUME ~concurrent, NEW i \in DOMAIN orders', NEW j \in DOMAIN orders',
                      SameArbitrage(orders'[i], orders'[j]), orders'[i].leg = 1,
                      orders'[i].fresh, orders'[j].leg = 2
               PROVE  orders'[i].state = "completed"
    BY <1>1 DEF FreshArbitrageInSequence
  <2>1. i # j
    OBVIOUS
  <2>2. CASE i \in DOMAIN orders /\ j \in DOMAIN orders
    BY <1>4, <2>2 DEF IInv, FreshArbitrageInSequence
  <2>3. CASE i = k
    <3>1. ~completed /\ j \in DOMAIN orders
      BY <1>3, <1>4, <2>1, <2>3
    <3> QED
      BY <1>1, <3>1 DEF IInv, AtMostOneFresh, Placing
  <2>4. CASE j = k
    <3>1. i \in DOMAIN orders /\ task.leg = 2 /\ orders[i].fresh
      BY <1>3, <1>4, <2>1, <2>4
    <3> QED
      BY <1>1, <1>4, <3>1 DEF IInv, FreshEnded
  <2> QED
    BY <1>4, <2>2, <2>3, <2>4
<1>14. LegsPaired'
  <2> DEFINE Partnered(i) == \E j \in DOMAIN orders' : SameArbitrage(orders'[i], orders'[j])
                                                     /\ orders'[i].leg # orders'[j].leg
             First(o) == o.run = runs /\ o.left = task.left /\ o.leg = 1
  <2>1. \A i \in DOMAIN orders :
          orders[i].run = runs => Partnered(i) \/ (FirstLegUp /\ First(orders[i]))
    BY <1>1, <1>4 DEF IInv, LegsPaired, HasPartner, IsFirstLeg
  <2>2. SUFFICES /\ \A i \in DOMAIN orders' :
                      orders'[i].run = runs => Partnered(i) \/ (FirstLegUp' /\ First(orders'[i]))
                 /\ FirstLegUp' => \E i \in DOMAIN orders' : First(orders'[i])
    BY <1>1, <1>5 DEF LegsPaired, HasPartner, IsFirstLeg
  <2>3. CASE task.leg = 1
    <3>1. ~FirstLegUp /\ FirstLegUp'
      BY <1>1, <1>2, <1>5, <2>3 DEF FirstLegUp, Placing, Waiting
    <3>2. First(orders'[k])
      BY <1>3, <1>4, <2>3
    <3> QED
      BY <1>4, <2>1, <3>1, <3>2
  <2>4. CASE task.leg = 2
    <3>1. FirstLegUp /\ ~FirstLegUp'
      BY <1>1, <1>2, <1>5, <2>4 DEF FirstLegUp, Placing, Waiting
    <3>2. PICK f \in DOMAIN orders : First(orders[f])
      BY <1>1, <3>1 DEF IInv, LegsPaired, IsFirstLeg
    <3>3. Partnered(k) /\ \A i \in DOMAIN orders : First(orders[i]) => Partnered(i)
      BY <1>3, <1>4, <2>4, <3>2 DEF SameArbitrage
    <3> HIDE DEF Partnered, First
    <3> QED
      BY <1>4, <2>1, <3>1, <3>3
  <2> QED
    BY <1>2, <2>3, <2>4
<1> QED
  BY <1>7, <1>8, <1>9, <1>10, <1>11, <1>12, <1>13, <1>14 DEF IInv

(* How an order ends.                                                      *)
LEMMA EndKeeps ==
  ASSUME IInv, LoopFree, NEW o \in DOMAIN orders, IsOpen(orders[o]),
         NEW how \in {"completed", "failed"},
         completed' = TRUE, failed' = (failed \/ how = "failed"), orders' = Ended(o, how),
         \/ tracker' = StopLimit(tracker, o)
         \/ tracker' = StopMarket(tracker, o) /\ ~IsLimit(orders[o]),
         UNCHANGED <<strategy, runs, task>>
  PROVE  IInv'
<1>1. /\ completed' = TRUE /\ UNCHANGED <<starts, running, concurrent, runs, task>>
      /\ failed \in BOOLEAN /\ completed \in BOOLEAN /\ concurrent \in BOOLEAN
      /\ failed => failed' /\ failed' \in BOOLEAN
      /\ task.pc # "place"
  BY DEF strategy, IInv, TypeOK, LoopFree, Awaiting, Over
<1>2. /\ orders' \in Seq(OrderType) /\ DOMAIN orders' = DOMAIN orders /\ Len(orders') = Len(orders)
      /\ orders'[o] = [orders[o] EXCEPT !.state = how]
      /\ \A i \in DOMAIN orders : i # o => orders'[i] = orders[i]
  <2>1. [orders[o] EXCEPT !.state = how] \in OrderType
    BY OrderFacts DEF OrderType, States
  <2> QED
    BY <2>1, OrderFacts DEF Ended
<1>3. \A i \in DOMAIN orders :
        /\ orders'[i].market = orders[i].market /\ orders'[i].run = orders[i].run
        /\ orders'[i].left = orders[i].left /\ orders'[i].leg = orders[i].leg
        /\ orders'[i].fresh = orders[i].fresh
        /\ orders'[i].state = IF i = o THEN how ELSE orders[i].state
  BY <1>2, OrderFacts DEF OrderType
<1>4. /\ tracker' \in [limit : SUBSET (Markets \X DOMAIN orders),
                        market : SUBSET (Markets \X DOMAIN orders),
                        known : SUBSET (Markets \X DOMAIN orders)]
      /\ tracker'.limit \subseteq tracker'.known
      /\ tracker'.limit \subseteq tracker.limit
      /\ \A e \in tracker.limit : e[2] # o => e \in tracker'.limit
  <2>1. /\ tracker \in [limit : SUBSET (Markets \X DOMAIN orders),
                         market : SUBSET (Markets \X DOMAIN orders),
                         known : SUBSET (Markets \X DOMAIN orders)]
        /\ tracker.limit \subseteq tracker.known
    BY DEF IInv, TypeOK
  <2>2. CASE tracker' = StopLimit(tracker, o)
    BY <2>1, <2>2 DEF StopLimit, Entries
  <2>3. CASE tracker' = StopMarket(tracker, o) /\ ~IsLimit(orders[o])
    <3>1. \A e \in tracker.limit : e[2] # o
      BY <2>3 DEF IInv, TrackerSound
    <3> QED
      BY <2>1, <2>3, <3>1 DEF StopMarket, Entries
  <2> QED
    BY <2>2, <2>3
<1>5. TypeOK'
  BY <1>1, <1>2, <1>4 DEF IInv, TypeOK, OrderType
<1>6. PhaseSound'
  <2>1. orders = <<>> => orders' = <<>>
    BY <1>2
  <2> QED
    BY <1>1, <1>2, <1>3, <2>1 DEF IInv, PhaseSound, Executing, TaskOver, Waiting
<1>7. \A i \in DOMAIN orders : OpenLimit(orders'[i]) => i # o /\ OpenLimit(orders[i])
  BY <1>3 DEF OpenLimit, IsLimit, IsOpen
<1>8. TrackerSound'
  <2>1. \A e \in tracker.limit : e[2] \in DOMAIN orders
    BY DEF IInv, TypeOK
  <2>2. \A e \in tracker'.limit : IsLimit(orders'[e[2]])
    BY <1>3, <1>4, <2>1 DEF IInv, TrackerSound, IsLimit
  <2>3. \A i \in DOMAIN orders :
          OpenLimit(orders'[i]) => <<orders'[i].market, i>> \in tracker'.limit
    <3> SUFFICES ASSUME NEW i \in DOMAIN orders, OpenLimit(orders'[i])
                 PROVE  <<orders[i].market, i>> \in tracker'.limit
      BY <1>3
    <3>1. i # o /\ <<orders[i].market, i>> \in tracker.limit
      BY <1>7 DEF IInv, TrackerSound
    <3> QED
      BY <1>4, <3>1
  <2> QED
    BY <1>2, <2>2, <2>3 DEF TrackerSound, OpenLimit, IsLimit, IsOpen
<1>9. RunOwnsOpen' /\ OneRunOutstanding'
  <2>1. RunOwnsOpen'
    BY <1>1, <1>2, <1>3, <1>7 DEF IInv, RunOwnsOpen, TaskOver, OpenLimit, IsLimit, IsOpen
  <2>2. OneRunOutstanding'
    BY <1>2, <1>3, <1>7 DEF IInv, OneRunOutstanding, OpenLimit, IsLimit, IsOpen
  <2> QED
    BY <2>1, <2>2
<1>10. AtMostOneFresh'
  BY <1>1 DEF AtMostOneFresh
<1>11. FreshEnded'
  <2> SUFFICES ASSUME ~concurrent, NEW i \in DOMAIN orders, orders[i].fresh
               PROVE  /\ orders'[i].state # "open"
                      /\ Placing /\ task.leg = 2 => orders'[i].state = "completed"
    BY <1>1, <1>2, <1>3 DEF FreshEnded, Placing
  <2>1. CASE completed
    <3>1. i # o /\ orders'[i] = orders[i]
      BY <1>2, <2>1 DEF IInv, FreshEnded, IsOpen
    <3> QED
      BY <2>1, <3>1 DEF IInv, FreshEnded
  <2>2. CASE ~completed
    <3>1. i = o
      BY <1>2, <2>2, OrderFacts DEF IInv, AtMostOneFresh
    <3>2. ~ (Placing /\ task.leg = 2)
      BY <1>1, <2>2 DEF IInv, AtMostOneFresh, Placing
    <3> QED
      BY <1>3, <3>1, <3>2
  <2> QED
    BY <1>1, <2>1, <2>2
<1>12. FreshArbitrageInSequence'
  <2> SUFFICES ASSUME ~concurrent, NEW i \in DOMAIN orders, NEW j \in DOMAIN orders,
                      SameArbitrage(orders[i], orders[j]), orders[i].leg = 1,
                      orders[i].fresh, orders[j].leg = 2
               PROVE  orders'[i].state = "completed"
    BY <1>1, <1>2, <1>3 DEF FreshArbitrageInSequence, SameArbitrage
  <2>1. orders[i].state = "completed"
    BY DEF IInv, FreshArbitrageInSequence
  <2> QED
    BY <1>3, <2>1 DEF IsOpen
<1>13. LegsPaired'
  BY <1>1, <1>2, <1>3 DEF IInv, LegsPaired, HasPartner, FirstLegUp, IsFirstLeg, SameArbitrage,
     Placing, Waiting, TaskOver
<1> QED
  BY <1>5, <1>6, <1>8, <1>9, <1>10, <1>11, <1>12, <1>13 DEF IInv

LEMMA OrderEndsKeeps ==
  ASSUME IInv, NEW o \in DOMAIN orders, OrderEnds(o) PROVE IInv'
<1>1. TakerType[orders[o].market] \in {"limit", "market"}
  BY OrderFacts, AmmArbAssumption
<1>0. failed = (failed \/ "completed" = "failed")
  BY DEF IInv, TypeOK
<1>2. CASE did_complete_order(o)
  <2>1. failed' = (failed \/ "completed" = "failed")
    BY <1>0, <1>2 DEF did_complete_order
  <2> QED
    BY <1>1, <1>2, <2>1, EndKeeps DEF did_complete_order, StopByType, IsLimit
<1>3. CASE did_fail_order(o)
  BY <1>1, <1>3, EndKeeps DEF did_fail_order, StopByType, IsLimit
<1>4. CASE did_cancel_or_expire_order(o)
  <2>1. failed' = (failed \/ "completed" = "failed")
    BY <1>0, <1>4 DEF did_cancel_or_expire_order
  <2> QED
    BY <1>4, <2>1, EndKeeps DEF did_cancel_or_expire_order
<1> QED
  BY <1>2, <1>3, <1>4 DEF OrderEnds

LEMMA NextIInv == IInv /\ [Next]_vars => IInv'
<1> SUFFICES ASSUME IInv, [Next]_vars PROVE IInv'
  OBVIOUS
<1>1. CASE start
  BY <1>1, startKeeps
<1>2. CASE stop
  BY <1>2, stopKeeps
<1>3. CASE tick
  BY <1>3, tickKeeps
<1>4. CASE MainStep
  BY <1>4, QuotedKeeps, MainRaisesKeeps, AskPriceKeeps, PlaceLegKeeps, LegWaitedKeeps,
     BothWaitedKeeps DEF MainStep
<1>5. CASE \E o \in DOMAIN orders : OrderEnds(o)
  BY <1>5, OrderEndsKeeps
<1>6. CASE UNCHANGED vars
  BY <1>6 DEF vars, strategy, IInv, TypeOK, PhaseSound, TrackerSound, RunOwnsOpen,
     OneRunOutstanding, AtMostOneFresh, FreshEnded, FreshArbitrageInSequence, LegsPaired,
     Executing, Placing, Waiting, TaskOver, IsLimit, OpenLimit, IsOpen, HasPartner, FirstLegUp,
     IsFirstLeg, SameArbitrage
<1> QED
  BY <1>1, <1>2, <1>3, <1>4, <1>5, <1>6 DEF Next

LEMMA Invariant == Spec => []IInv
  BY InitIInv, NextIInv, PTL DEF Spec

-----------------------------------------------------------------------------
(* The theorems.                                                           *)

(* The variables of the strategy keep their types, and a failed event is   *)
(* never set without the completed event.                                  *)
THEOREM TypeCorrect == Spec => []TypeOK
<1>1. IInv => TypeOK
  BY DEF IInv
<1> QED
  BY <1>1, Invariant, PTL

(* execute_arb_proposals: while the shared events are fresh, the second    *)
(* leg follows a first leg that has ended and not failed.                  *)
THEOREM LegsInSequence == Spec => []FreshArbitrageInSequence
<1>1. IInv => FreshArbitrageInSequence
  BY DEF IInv
<1> QED
  BY <1>1, Invariant, PTL

(* tick and ready_for_new_arb_trades: the limit orders open belong to one  *)
(* main task.                                                              *)
THEOREM RunsDoNotOverlap == Spec => []OneRunOutstanding
<1>1. IInv => OneRunOutstanding
  BY DEF IInv
<1> QED
  BY <1>1, Invariant, PTL

(* execute_arb_proposals: a main task that returns while no order has      *)
(* failed leaves no leg without its partner.                               *)
THEOREM LegsKeepTheirPartner == Spec => LegDroppedOnFailureOnly
<1> DEFINE Kept ==
      task.pc # "returned" /\ task'.pc = "returned" /\ ~failed
      => \A i \in DOMAIN orders :
           orders[i].run = runs =>
             \E j \in DOMAIN orders :
               /\ SameArbitrage(orders[i], orders[j])
               /\ orders[i].leg # orders[j].leg
<1>1. IInv /\ [Next]_vars => [Kept]_vars
  <2> SUFFICES ASSUME IInv, [Next]_vars, task.pc # "returned", task'.pc = "returned", ~failed,
                      NEW i \in DOMAIN orders, orders[i].run = runs
               PROVE  HasPartner(i)
    BY DEF HasPartner
  <2>1. LegsPaired /\ task'.pc # task.pc
    BY DEF IInv
  <2>2. CASE start \/ stop \/ tick
    BY <2>2 DEF start, stop, tick, NoTask
  <2>3. CASE Quoted \/ BothWaited
    <3>1. ~TaskOver /\ ~FirstLegUp
      BY <2>3 DEF Quoted, BothWaited, TaskOver, Over, FirstLegUp, Placing, Waiting
    <3> QED
      BY <2>1, <3>1 DEF LegsPaired
  <2>4. CASE LegWaited
    <3>1. task \in TaskType /\ task.leg \in 1..2 /\ ~TaskOver
      BY <2>4, Busy DEF LegWaited, TaskOver, Over, TaskType
    <3>2. task'.pc \in {"place", "both"}
      BY <2>4, <3>1 DEF LegWaited, AfterLeg, TaskType
    <3> QED
      BY <3>2
  <2>5. CASE PlaceLeg
    <3>1. task \in TaskType /\ task.leg \in 1..2 /\ Placing
      BY <2>5, Busy DEF PlaceLeg, TaskOver, Over, TaskType, Placing
    <3>2. task'.pc \in {"place", "both", "leg", "check"}
      BY <2>5, <3>1, AfterPlacingFacts DEF PlaceLeg, TaskType
    <3> QED
      BY <3>2
  <2>6. CASE MainRaises \/ AskPrice
    <3>1. task \in TaskType
      BY <2>6, Busy DEF MainRaises, AskPrice, TaskOver, Over
    <3> QED
      BY <2>6, <3>1 DEF MainRaises, AskPrice, TaskType
  <2>7. CASE (\E o \in DOMAIN orders : OrderEnds(o)) \/ UNCHANGED vars
    BY <2>1, <2>7 DEF OrderEnds, did_complete_order, did_fail_order, did_cancel_or_expire_order,
       vars
  <2> QED
    BY <2>2, <2>3, <2>4, <2>5, <2>6, <2>7 DEF Next, MainStep
<1>2. Spec => [][Kept]_vars
  BY <1>1, Invariant, PTL DEF Spec
<1> QED
  BY <1>2 DEF LegDroppedOnFailureOnly
=============================================================================
