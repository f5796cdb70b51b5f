-------------------------- MODULE MCBinanceExchange --------------------------
(* Values for model-checking BinanceExchange. *)
EXTENDS BinanceExchange

CONSTANTS o1, t1, t2

(* Every trade fills one lot. *)
OneLotTrades == [T \in SUBSET Trades |-> Cardinality(T)]
=============================================================================
