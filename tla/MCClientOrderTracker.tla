------------------------ MODULE MCClientOrderTracker ------------------------
(* Values for model-checking ClientOrderTracker. *)
EXTENDS ClientOrderTracker

CONSTANTS o1, t1, t2

(* t2 fills two lots, any other trade one. *)
UnevenTrades == [T \in SUBSET Trades |-> Cardinality(T) + (IF t2 \in T THEN 1 ELSE 0)]
=============================================================================
