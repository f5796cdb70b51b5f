----------------------------- MODULE NonceLeases -----------------------------
(***************************************************************************)
(* What the nonce manager promises to its clients, without saying how: a   *)
(* nonce is leased to one client at a time.  A lease ends when its time is *)
(* over or when a transaction with its nonce is mined; a client may also   *)
(* lose it, when its request fails or the gateway crashes.                 *)
(***************************************************************************)
EXTENDS Integers

CONSTANTS
  Clients,   \* Those who ask for nonces.
  NoLease    \* A client without a lease.

VARIABLES
  now,       \* The clock.
  mined,     \* The nonce of the last transaction in a block.
  lease      \* The lease of each client.

vars == <<now, mined, lease>>

Lease == [nonce : Nat, until : Nat]

(* The lease is one, and not over.                                         *)
Live(c) == lease[c] # NoLease /\ lease[c].nonce > mined /\ lease[c].until >= now

Init ==
  /\ now \in Nat
  /\ mined \in Int
  /\ lease = [c \in Clients |-> NoLease]

(* A client gets a nonce that nobody else holds, once.                     *)
Grant(c) ==
  /\ lease[c] = NoLease
  /\ lease'[c] \in Lease /\ lease'[c].until >= now
  /\ \A d \in Clients : Live(d) => lease[d].nonce # lease'[c].nonce
  /\ lease' = [lease EXCEPT ![c] = lease'[c]]
  /\ UNCHANGED <<now, mined>>

Lose ==
  /\ \E kept \in SUBSET Clients :
       lease' = [c \in Clients |-> IF c \in kept THEN lease[c] ELSE NoLease]
  /\ UNCHANGED <<now, mined>>

(* Time passes, or a block is mined.                                       *)
Pass ==
  /\ now' \in Nat /\ now' >= now
  /\ mined' \in Int /\ mined' >= mined
  /\ UNCHANGED lease

Next == Lose \/ Pass \/ \E c \in Clients : Grant(c)

Spec == Init /\ [][Next]_vars
=============================================================================
