--------------------------- MODULE EvmNonceManager --------------------------
(***************************************************************************)
(* The gateway's nonce manager (gateway/src/services/evm.nonce.ts) for one *)
(* address, with the requests that use it, its database and the chain.     *)
(*                                                                         *)
(* The gateway runs on one Node.js event loop.  An await of something that *)
(* is already there goes on before anything else runs, so a step is what a *)
(* request does from one answer of the node or the database to the next.   *)
(*                                                                         *)
(* The manager knows the leading nonce (of the last transaction committed  *)
(* or counted by the node) and the pending nonces it has handed out; both  *)
(* expire.  Addresses share nothing, so one is enough.                     *)
(***************************************************************************)
EXTENDS Integers, Sequences, FiniteSets

CONSTANTS
  Requests,     \* The HTTP requests, each served once.
  Boot,         \* The call of init after a start of the gateway.
  NoLeading,    \* No leading nonce is known.
  LocalTTL,     \* _localNonceTTL, in ticks.
  PendingTTL,   \* _pendingNonceTTL, in ticks.
  MaxDelay,     \* The timeout of a request to the node, in ticks.
  FirstCount,   \* The transactions of the address before the model starts.
  MaxTime,      \* Bound: the time the model looks at.
  MaxRestarts   \* Bound: the restarts of the gateway.

(* A nonce that is not there, and the leading nonce of an address without  *)
(* transactions.  The nonces handed out are natural numbers.               *)
Unset == -1

Nonces == Nat \cup {Unset}
NonceInfo == [nonce : Nonces, expiry : Nat]
PendingInfo == [nonce : Nat, expiry : Nat]

(* The node answers or times out (ethers: two minutes) before a leading    *)
(* nonce expires (five minutes).                                           *)
ASSUME NonceAssumption ==
  /\ Boot \notin Requests
  /\ NoLeading \notin NonceInfo
  /\ MaxDelay \in Nat /\ MaxTime \in Nat /\ MaxRestarts \in Nat
  /\ LocalTTL \in Nat /\ MaxDelay < LocalTTL
  /\ PendingTTL \in Nat
  /\ FirstCount \in Nat

VARIABLES
  now,          \* The clock.
  leading,      \* #addressToNonce of the address.
  pending,      \* #addressToPendingNonces of the address.
  initialized,  \* #initialized.
  call,         \* Where each request is, and the nonce it deals with.
  stored,       \* What LevelDB holds of leading and pending.
  leadingPuts,  \* Writes of the leading nonce on their way to LevelDB.
  pendingPuts,  \* Writes of the pending nonces on their way to LevelDB.
  mined,        \* The nonce of the last transaction in a block.
  mempool,      \* The nonces of the transactions that wait for a block.
  restarts      \* The restarts so far.

manager == <<leading, pending, initialized>>
database == <<stored, leadingPuts, pendingPuts>>
chain == <<mined, mempool>>
vars == <<now, manager, call, database, chain, restarts>>

Calls == Requests \cup {Boot}

(* A request that hands out a nonce, one that sends a past one, a question *)
(* for the leading nonce, and init.                                        *)
Allocating == {"trade", "next", "approve"}
Operations == Allocating \cup {"resend", "nonce", "boot"}

(* What a call waits for: the node's count (in a merge, or in              *)
(* getNonceFromNode), a write, or the transaction.                         *)
AtNode == {"counting", "reading", "sending", "sent"}
AtDatabase == {"leading", "filtering", "assigning", "committing"}

(* The call has the nonce it asked for, or brought its own and sends it. *)
Answered(r) == r.at \in {"sending", "sent", "committing", "done", "failed"}

NewCall(op, nonce) ==
  [op |-> op, at |-> "idle", since |-> 0, seen |-> Unset,
   nonce |-> nonce, until |-> Unset]

-----------------------------------------------------------------------------
(* The steps of the manager. *)

(* A call goes on to a write, or to its end; what it knew of the node's    *)
(* count is no longer used.                                                *)
Go(c, r, at) ==
  call' = [call EXCEPT ![c] =
    [r EXCEPT !.at = at, !.since = 0, !.seen = Unset,
              !.op = IF at \in {"done", "failed"} THEN "none" ELSE @]]

(* A call starts to wait for the node.  What it has seen of the chain is   *)
(* the least the node may answer.                                          *)
Ask(c, r, at) ==
  call' = [call EXCEPT ![c] = [r EXCEPT !.at = at, !.since = now, !.seen = mined]]

PutLeading(c, info) == leadingPuts' = Append(leadingPuts, [by |-> c, value |-> info])

(* The leading nonce needs no merge with the node. *)
Fresh == leading # NoLeading /\ leading.expiry > now

(* A regression: a nonce expires in the very moment its life ends. *)
ExpiredEarly == {i \in DOMAIN pending : now >= pending[i].expiry}

(* The pending nonces whose transactions must be lost by now. *)
ExpiredPending == {i \in DOMAIN pending : now > pending[i].expiry}

(* A regression: the expired nonce stays expired. *)
ReuseForgets(i) == pending

(* Handing an expired nonce out again renews it. *)
Reuse(i) == [pending EXCEPT ![i].expiry = now + PendingTTL]

(* isValidNonce compares the nonce of the request with the one taken. *)
Assign(c, r, n) ==
  call' = [call EXCEPT ![c] =
    [r EXCEPT !.at = "assigning", !.since = 0, !.seen = Unset,
              !.nonce = IF r.op = "approve" /\ n # r.nonce THEN Unset ELSE n,
              !.until = now + PendingTTL]]

(* getNextNonce after its merge: the first pending nonce that has expired, *)
(* or the one after the last, or the one after the leading nonce.  In the  *)
(* last case getNonce merges again, which a fresh nonce makes idle.        *)
GetNextNonce(c, r, puts) ==
  /\ \/ /\ ExpiredPending # {}
        /\ \E i \in ExpiredPending :
             /\ \A j \in ExpiredPending : i <= j
             /\ pending' = Reuse(i)
             /\ Assign(c, r, pending[i].nonce)
     \/ /\ ExpiredPending = {}
        /\ pending # <<>>
        /\ LET n == pending[Len(pending)].nonce + 1
           IN /\ pending' = Append(pending, [nonce |-> n, expiry |-> now + PendingTTL])
              /\ Assign(c, r, n)
     \/ /\ pending = <<>>
        /\ LET n == leading.nonce + 1
           IN /\ pending' = <<[nonce |-> n, expiry |-> now + PendingTTL]>>
              /\ Assign(c, r, n)
  /\ pendingPuts' = Append(puts, [by |-> c, value |-> pending'])
  /\ UNCHANGED initialized

(* What follows the merge. *)
AfterMerge(c, r, puts) ==
  \/ /\ r.op \in Allocating
     /\ GetNextNonce(c, r, puts)
  \/ /\ r.op \in {"nonce", "boot"}
     /\ Go(c, r, "done")
     /\ initialized' = TRUE
     /\ pendingPuts' = puts
     /\ UNCHANGED pending

(* A regression: the count is taken for the last nonce. *)
CountAsNonce(count) == count

(* The nonce of the last transaction the node has counted. *)
ExternalNonce(count) == count - 1

(* The pending nonces from the first one beyond a nonce on.  The list      *)
(* ascends (NoHole), so filtering it drops a prefix and nothing else.      *)
Beyond(nonce) ==
  LET dropped == CHOOSE k \in 0 .. Len(pending) :
                   \A i \in DOMAIN pending : pending[i].nonce > nonce <=> i > k
  IN  SubSeq(pending, dropped + 1, Len(pending))

(* A regression: the nonce the chain takes next is dropped as well. *)
DropNextToo(nonce) == Beyond(nonce + 1)

(* The pending nonces the node has not counted. *)
StillPending(nonce) == Beyond(nonce)

-----------------------------------------------------------------------------
(* Requests. *)

(* A nonce a client may know: one an earlier request was given. *)
Known == {call[c].nonce : c \in {d \in Requests : Answered(call[d])}} \ {Unset}

(* A request for a new nonce, or for the leading one, begins with a merge. *)
Request(c) ==
  /\ call[c].at = "idle"
  /\ initialized
  /\ \E r \in {NewCall(op, Unset) : op \in {"trade", "next", "nonce"}}
              \cup {NewCall("approve", n) : n \in Known \ {0}} :
       \/ /\ Fresh
          /\ AfterMerge(c, r, pendingPuts)
       \/ /\ ~Fresh
          /\ Ask(c, r, IF r.op = "nonce" /\ leading = NoLeading
                         THEN "reading" ELSE "counting")
          /\ UNCHANGED <<pending, initialized, pendingPuts>>
  /\ UNCHANGED <<now, leading, stored, leadingPuts, chain, restarts>>

(* A cancel, or a trade with a nonce of its own, does not ask the manager. *)
Resend(c) ==
  /\ call[c].at = "idle"
  /\ initialized
  /\ \E n \in Known : Ask(c, NewCall("resend", n), "sending")
  /\ UNCHANGED <<now, manager, database, chain, restarts>>

(* mergeNonceFromEVMNode: the node's count becomes the leading nonce, with *)
(* the time of the question; it may be older than what others have seen.   *)
MergeNonce(c) ==
  /\ call[c].at = "counting"
  /\ \E count \in call[c].seen + 1 .. mined + 1 :
       LET info == [nonce |-> ExternalNonce(count), expiry |-> call[c].since + LocalTTL]
       IN /\ leading' = info
          /\ PutLeading(c, info)
          /\ call' = [call EXCEPT ![c].at = "leading", ![c].since = 0, ![c].seen = info.nonce]
  /\ UNCHANGED <<now, pending, initialized, stored, pendingPuts, chain, restarts>>

(* getNonceFromNode, when no leading nonce is known. *)
GetNonceFromNode(c) ==
  /\ call[c].at = "reading"
  /\ \E count \in call[c].seen + 1 .. mined + 1 :
       LET info == [nonce |-> ExternalNonce(count), expiry |-> now + PendingTTL]
       IN /\ leading' = info
          /\ PutLeading(c, info)
  /\ Go(c, call[c], "committing")
  /\ UNCHANGED <<now, pending, initialized, stored, pendingPuts, chain, restarts>>

(* The node does not answer and the call throws.  If it is init, nothing   *)
(* sets #initialized any more: the chain object never tries again.         *)
NodeFails(c) ==
  /\ call[c].at \in {"counting", "reading"}
  /\ Go(c, [call[c] EXCEPT !.nonce = Unset], "failed")
  /\ UNCHANGED <<now, manager, database, chain, restarts>>

-----------------------------------------------------------------------------
(* The database answers. *)

(* The leading nonce is saved: its writer drops the nonces the node has    *)
(* counted, or is done.                                                    *)
LeadingSaved(c) ==
  /\ leadingPuts # <<>>
  /\ Head(leadingPuts).by = c
  /\ stored' = [stored EXCEPT !.leading = Head(leadingPuts).value]
  /\ leadingPuts' = Tail(leadingPuts)
  /\ \/ /\ call[c].at = "leading"
        /\ pending # <<>>
        /\ pending' = StillPending(call[c].seen)
        /\ pendingPuts' = Append(pendingPuts, [by |-> c, value |-> pending'])
        /\ Go(c, call[c], "filtering")
        /\ UNCHANGED initialized
     \/ /\ call[c].at = "leading"
        /\ pending = <<>>
        /\ AfterMerge(c, call[c], pendingPuts)
     \/ /\ call[c].at = "committing"
        /\ Go(c, call[c], "done")
        /\ UNCHANGED <<pending, pendingPuts, initialized>>
  /\ UNCHANGED <<now, leading, chain, restarts>>

(* The pending nonces are saved: a merge is over, or a nonce is answered   *)
(* and goes into a transaction.                                            *)
PendingSaved(c) ==
  /\ pendingPuts # <<>>
  /\ Head(pendingPuts).by = c
  /\ stored' = [stored EXCEPT !.pending = Head(pendingPuts).value]
  /\ \/ /\ call[c].at = "filtering"
        /\ AfterMerge(c, call[c], Tail(pendingPuts))
     \/ /\ call[c].at = "assigning"
        /\ \/ call[c].op = "next" /\ Go(c, call[c], "done")
           \/ call[c].op # "next" /\ call[c].nonce = Unset /\ Go(c, call[c], "failed")
           \/ call[c].op # "next" /\ call[c].nonce # Unset /\ Ask(c, call[c], "sending")
        /\ pendingPuts' = Tail(pendingPuts)
        /\ UNCHANGED <<pending, initialized>>
  /\ UNCHANGED <<now, leading, leadingPuts, chain, restarts>>

-----------------------------------------------------------------------------
(* Transactions. *)

(* The node takes the transaction, in place of one with the same nonce. *)
Accept(c) ==
  /\ call[c].at = "sending"
  /\ call[c].nonce > mined
  /\ mempool' = mempool \cup {call[c].nonce}
  /\ Go(c, call[c], "sent")
  /\ UNCHANGED <<now, manager, database, mined, restarts>>

(* sendTransaction returns and commitNonce stores the nonce, unless it is  *)
(* not beyond the leading one: then it throws.                             *)
CommitNonce(c) ==
  LET n == call[c].nonce
      info == [nonce |-> n, expiry |-> now + LocalTTL]
  IN /\ call[c].at = "sent"
     /\ \/ /\ leading # NoLeading => n > leading.nonce
           /\ leading' = info
           /\ PutLeading(c, info)
           /\ Go(c, call[c], "committing")
        \/ /\ leading # NoLeading /\ n <= leading.nonce
           /\ Go(c, call[c], "failed")
           /\ UNCHANGED <<leading, leadingPuts>>
     /\ UNCHANGED <<now, pending, initialized, stored, pendingPuts, chain, restarts>>

(* sendTransaction throws: the nonce is too low, or the answer is lost. *)
SendFails(c) ==
  /\ call[c].at \in {"sending", "sent"}
  /\ Go(c, call[c], "failed")
  /\ UNCHANGED <<now, manager, database, chain, restarts>>

(* The transaction of a request that was given up, by an error or a crash, *)
(* arrives after all; so may one of a client told only its nonce.          *)
AcceptLate(c) ==
  /\ call[c].at = "failed"
  /\ call[c].nonce > mined
  /\ mempool' = mempool \cup {call[c].nonce}
  /\ UNCHANGED <<now, manager, call, database, mined, restarts>>

(* A block takes the next transaction. *)
Mine ==
  /\ mined + 1 \in mempool
  /\ mined' = mined + 1
  /\ mempool' = mempool \ {mined + 1}
  /\ UNCHANGED <<now, manager, call, database, restarts>>

(* A transaction is stuck and leaves the mempool. *)
Drop ==
  /\ \E n \in mempool : mempool' = mempool \ {n}
  /\ UNCHANGED <<now, manager, call, database, mined, restarts>>

-----------------------------------------------------------------------------

(* Writes take no time worth counting; the node answers within MaxDelay. *)
Tick ==
  /\ now < MaxTime
  /\ leadingPuts = <<>> /\ pendingPuts = <<>>
  /\ \A c \in Calls : call[c].at \in AtNode => now - call[c].since < MaxDelay
  /\ now' = now + 1
  /\ UNCHANGED <<manager, call, database, chain, restarts>>

(* A crash loses the memory and the writes under way; the clients of the   *)
(* requests that had no nonce yet never get one.  init then reads the      *)
(* database and merges if a leading nonce is known.                        *)
Restart ==
  /\ restarts < MaxRestarts
  /\ restarts' = restarts + 1
  /\ leading' = stored.leading
  /\ pending' = stored.pending
  /\ leadingPuts' = <<>> /\ pendingPuts' = <<>>
  /\ LET merges == leading' # NoLeading /\ leading'.expiry <= now
         boot == [NewCall("boot", Unset) EXCEPT
                    !.at = IF merges THEN "counting" ELSE "done",
                    !.since = now, !.seen = mined]
         cut(r) == [NewCall("none", Unset) EXCEPT
                      !.at = IF r.at = "idle" THEN "idle" ELSE "failed",
                      !.nonce = IF Answered(r) THEN r.nonce ELSE Unset,
                      !.until = IF Answered(r) THEN r.until ELSE Unset]
     IN /\ call' = [c \in Calls |-> IF c = Boot THEN boot ELSE cut(call[c])]
        /\ initialized' = ~merges
  /\ UNCHANGED <<now, stored, chain>>

Init ==
  /\ now = 0
  /\ leading = NoLeading
  /\ pending = <<>>
  /\ initialized = TRUE
  /\ call = [c \in Calls |-> NewCall(IF c = Boot THEN "boot" ELSE "none", Unset)]
  /\ stored = [leading |-> NoLeading, pending |-> <<>>]
  /\ leadingPuts = <<>>
  /\ pendingPuts = <<>>
  /\ mined = FirstCount - 1
  /\ mempool = {}
  /\ restarts = 0

Serve(c) ==
  \/ MergeNonce(c) \/ GetNonceFromNode(c) \/ NodeFails(c)
  \/ LeadingSaved(c) \/ PendingSaved(c)
  \/ Accept(c) \/ AcceptLate(c) \/ CommitNonce(c) \/ SendFails(c)

Next ==
  \/ \E c \in Requests : Request(c) \/ Resend(c)
  \/ \E c \in Calls : Serve(c)
  \/ Mine \/ Drop \/ Tick \/ Restart

Spec == Init /\ [][Next]_vars

-----------------------------------------------------------------------------
(* Properties. *)

(* The types of the variables. *)
TypeOK ==
  /\ now \in 0 .. MaxTime
  /\ leading \in NonceInfo \cup {NoLeading}
  /\ pending \in Seq(PendingInfo)
  /\ initialized \in BOOLEAN
  /\ call \in [Calls ->
       [op : Operations \cup {"none"},
        at : {"idle", "done", "failed"} \cup AtNode \cup AtDatabase,
        since : Nat, seen : Nonces, nonce : Nonces, until : Nonces]]
  /\ stored \in [leading : NonceInfo \cup {NoLeading}, pending : Seq(PendingInfo)]
  /\ leadingPuts \in Seq([by : Calls, value : NonceInfo])
  /\ pendingPuts \in Seq([by : Calls, value : Seq(PendingInfo)])
  /\ mined \in Nonces
  /\ mempool \subseteq Nat
  /\ restarts \in 0 .. MaxRestarts

(* A nonce was handed out to a call, has not expired and is not mined. *)
Holds(c) == call[c].nonce > mined /\ call[c].until >= now

(* Two requests never hold one nonce, whatever requests overlap and        *)
(* however old the node's answers are, and over restarts.                  *)
NoSharedNonce ==
  \A c, d \in Requests : c # d /\ Holds(c) /\ Holds(d) => call[c].nonce # call[d].nonce

(* getNextNonce answers only what a restart will remember: a nonce that    *)
(* was answered is in the database as long as it is held.                  *)
AnsweredIsRemembered ==
  \A c \in Requests :
    Holds(c) /\ Answered(call[c]) =>
      \E i \in DOMAIN stored.pending :
        /\ stored.pending[i].nonce = call[c].nonce
        /\ stored.pending[i].expiry >= call[c].until

(* getNextNonce leaves no hole that would keep every later transaction     *)
(* from being mined: the pending nonces are consecutive and begin no later *)
(* than the nonce the chain takes next.                                    *)
NoHole ==
  /\ \A i \in DOMAIN pending : pending[i].nonce = pending[1].nonce + i - 1
  /\ pending # <<>> => pending[1].nonce <= mined + 1
  /\ pending = <<>> /\ leading # NoLeading => leading.nonce <= mined

(* The nonce manager leases nonces: whatever is held was nobody else's     *)
(* when it was given, and each request is given one nonce at most.         *)
LeaseOf(r) == IF r.nonce # Unset /\ r.until # Unset
                THEN [nonce |-> r.nonce, until |-> r.until] ELSE NoLeading
Leases == INSTANCE NonceLeases
            WITH Clients <- Requests, NoLease <- NoLeading,
                 lease <- [c \in Requests |-> LeaseOf(call[c])]
LeasesNonces == Leases!Spec

(* getNextNonce "retrieves the next available nonce": one that no mined    *)
(* transaction has.                                                        *)
NextNonceAvailable ==
  [][\A c \in Requests :
       call[c].at # "assigning" /\ call'[c].at = "assigning" /\ call'[c].nonce # Unset
         => call'[c].nonce > mined]_vars
=============================================================================
