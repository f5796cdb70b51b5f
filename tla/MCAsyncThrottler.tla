-------------------------- MODULE MCAsyncThrottler --------------------------
(* Values for model-checking AsyncThrottler: a pool and two paths linked to it. *)
EXTENDS AsyncThrottler

CONSTANTS pool, light, heavy, none, r1, r2, r3

TightPool == [l \in Limits |-> CASE l = pool -> 3 [] l = light -> 1 [] OTHER -> 5]
WidePool == [l \in Limits |-> IF l = pool THEN 5 ELSE 2]
MCInterval == [l \in Limits |-> IF l = heavy THEN 1 ELSE 2]
MCMargin == [l \in Limits |-> 1]
MCWeight == [l \in Limits |-> 1]
MCLinks == [l \in Limits |->
  CASE l = light -> <<[id |-> none, weight |-> 1], [id |-> pool, weight |-> 1]>>
    [] l = heavy -> <<[id |-> pool, weight |-> 2]>>
    [] OTHER -> <<>>]
MCPath == [r \in Requests |-> CASE r = r1 -> light [] r = r2 -> heavy [] OTHER -> none]
ShortInterval == [l \in Limits |-> 1]
=============================================================================
