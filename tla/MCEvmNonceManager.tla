------------------------- MODULE MCEvmNonceManager --------------------------
(* The nonce manager for TLC: see the two configurations. *)
EXTENDS EvmNonceManager, TLC

RequestSymmetry == Permutations(Requests)
=============================================================================
