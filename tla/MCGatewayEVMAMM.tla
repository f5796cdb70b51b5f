--------------------------- MODULE MCGatewayEVMAMM ---------------------------
(* One transaction fills its order.                                        *)
EXTENDS GatewayEVMAMM

CONSTANTS o1, t1

OneLot == [T \in SUBSET Trades |-> Cardinality(T)]
=============================================================================
