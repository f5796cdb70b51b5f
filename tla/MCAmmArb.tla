------------------------------ MODULE MCAmmArb ------------------------------
(* An exchange that takes market orders, and a gateway.                    *)
EXTENDS AmmArb

ExchangeAndGateway == <<"market", "limit">>
=============================================================================
