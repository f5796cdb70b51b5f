----------------------- MODULE EvmNonceManager_leases ------------------------
(***************************************************************************)
(* Proof that the nonce manager implements NonceLeases: a step that gives  *)
(* a nonce is a Grant, one that ends a request without its nonce (and a    *)
(* restart) is a Lose, time and blocks are a Pass, and all else stutters.  *)
(***************************************************************************)
EXTENDS EvmNonceManager_proofs

lease == [c \in Requests |-> LeaseOf(call[c])]

(* The lease of a call depends on its nonce and its expiry only.           *)
LEMMA LeaseOfSame ==
  ASSUME NEW r \in CallInfo, NEW x \in CallInfo,
         r.until = Unset \/ (r.nonce = x.nonce /\ r.until = x.until)
  PROVE  LeaseOf(r) \in {LeaseOf(x), NoLeading}
  BY DEF LeaseOf

(* A call that is given nothing keeps its lease or loses it.               *)
LEMMA MoveIsLose ==
  ASSUME IInv, NEW c \in Calls, NEW r \in CallInfo, call' = [call EXCEPT ![c] = r],
         UNCHANGED <<now, mined>>,
         r.until = Unset \/ (r.nonce = call[c].nonce /\ r.until = call[c].until)
  PROVE  Leases!Next
<1>1. /\ call \in [Calls -> CallInfo] /\ \A d \in Requests : d \in Calls
      /\ call'[c] = r /\ \A d \in Calls \ {c} : call'[d] = call[d]
  BY StateFacts DEF Calls
<1>2. LeaseOf(call'[c]) \in {LeaseOf(call[c]), NoLeading}
  BY <1>1, LeaseOfSame
<1> DEFINE kept == IF LeaseOf(call'[c]) = LeaseOf(call[c]) THEN Requests ELSE Requests \ {c}
<1>3. \A d \in Requests :
        LeaseOf(call'[d]) = IF d \in kept THEN LeaseOf(call[d]) ELSE NoLeading
  BY <1>1, <1>2
<1>4. lease' = [d \in Requests |-> IF d \in kept THEN lease[d] ELSE NoLeading]
  BY <1>3 DEF lease
<1> HIDE DEF kept
<1>5. kept \in SUBSET Requests
  BY DEF kept
<1> QED
  BY <1>4, <1>5 DEF Leases!Next, Leases!Lose, lease

LEMMA GoIsLose ==
  ASSUME IInv, NEW c \in Calls, NEW r \in CallInfo,
         NEW at \in {"done", "failed"} \cup AtNode \cup AtDatabase, Go(c, r, at),
         UNCHANGED <<now, mined>>,
         r.until = Unset \/ (r.nonce = call[c].nonce /\ r.until = call[c].until)
  PROVE  Leases!Next
<1> DEFINE g == Gone(r, at)
<1>1. g \in CallInfo /\ g.nonce = r.nonce /\ g.until = r.until
  BY GoneFields
<1>2. call' = [call EXCEPT ![c] = g]
  BY DEF Go, Gone
<1> HIDE DEF g
<1> QED
  BY <1>1, <1>2, MoveIsLose

LEMMA AskIsLose ==
  ASSUME IInv, NEW c \in Calls, NEW r \in CallInfo, NEW at \in AtNode, Ask(c, r, at),
         UNCHANGED <<now, mined>>,
         r.until = Unset \/ (r.nonce = call[c].nonce /\ r.until = call[c].until)
  PROVE  Leases!Next
<1> DEFINE g == Asked(r, at)
<1>1. g \in CallInfo /\ g.nonce = r.nonce /\ g.until = r.until
  BY StateFacts, AskedFields
<1>2. call' = [call EXCEPT ![c] = g]
  BY DEF Ask, Asked
<1> HIDE DEF g
<1> QED
  BY <1>1, <1>2, MoveIsLose

(* getNextNonce grants a lease, or none if the nonce is not the one that   *)
(* the request asked for.                                                  *)
LEMMA AllocationIsGrant ==
  ASSUME IInv, NEW db \in Seq(PendingInfo), NEW puts \in PutsType, NoncesKept(db, puts),
         NEW c \in Requests, NEW r \in CallInfo, GetNextNonce(c, r, puts),
         \A i \in DOMAIN puts : puts[i].by # c,
         call[c].at \in {"idle", "leading", "filtering"}, leading # NoLeading,
         UNCHANGED <<now, mined>>, stored'.pending = db
  PROVE  Leases!Next \/ UNCHANGED Leases!vars
<1>1. /\ TypeOK /\ NoSharedNonce /\ call \in [Calls -> CallInfo] /\ now \in Nat
      /\ mined \in Int /\ mined >= -1 /\ PendingTTL \in Nat
      /\ ~ Given(call[c]) /\ c \in Calls
  BY StateFacts, NonceAssumption DEF IInv, Answered, Given, Calls
<1>2. /\ call'[c].until = now + PendingTTL
      /\ call' \in [Calls -> CallInfo]
      /\ \A d \in Calls \ {c} : call'[d] = call[d]
      /\ \A d \in Requests \ {c} : Holds(d) => call[d].nonce # call'[c].nonce
  BY <1>1, StateFacts, AllocationKeeps
<1>3. call[c].until = Unset
  BY <1>1 DEF IInv, CallSound
<1>4. LeaseOf(call[c]) = NoLeading
  BY <1>3 DEF LeaseOf
<1>5. \A d \in Requests : d # c => call'[d] = call[d]
  BY <1>2 DEF Calls
<1>6. lease' = [lease EXCEPT ![c] = LeaseOf(call'[c])]
  BY <1>5 DEF lease
<1>7. call'[c].nonce \in Nonces
  <2>1. call'[c] \in CallInfo
    BY <1>1, <1>2
  <2> QED
    BY <2>1 DEF CallInfo
<1>8. CASE call'[c].nonce = Unset
  <2>1. LeaseOf(call'[c]) = LeaseOf(call[c])
    BY <1>4, <1>8 DEF LeaseOf
  <2>2. lease' = lease
    BY <1>6, <2>1 DEF lease
  <2> QED
    BY <2>2 DEF Leases!vars, lease
<1>9. CASE call'[c].nonce # Unset
  <2> DEFINE new == [nonce |-> call'[c].nonce, until |-> now + PendingTTL]
  <2>1. call'[c].nonce \in Nat /\ now + PendingTTL \in Nat /\ now + PendingTTL >= now
        /\ now + PendingTTL # Unset
    BY <1>1, <1>7, <1>9 DEF Nonces, Unset
  <2>2. LeaseOf(call'[c]) = new /\ new \in Leases!Lease /\ new.until >= now
    BY <1>2, <1>9, <2>1 DEF LeaseOf, Leases!Lease
  <2>3. \A d \in Requests : Leases!Live(d) => lease[d].nonce # new.nonce
    <3> SUFFICES ASSUME NEW d \in Requests, Leases!Live(d)
                 PROVE  lease[d].nonce # new.nonce
      OBVIOUS
    <3>1. lease[d] # NoLeading /\ lease[d].nonce > mined /\ lease[d].until >= now
      BY DEF Leases!Live, lease
    <3>2. d # c
      BY <3>1, <1>4 DEF lease
    <3>3. lease[d].nonce = call[d].nonce /\ lease[d].until = call[d].until
      BY <3>1 DEF lease, LeaseOf
    <3>4. Holds(d)
      BY <3>1, <3>3 DEF Holds
    <3> QED
      BY <1>2, <3>2, <3>3, <3>4
  <2> HIDE DEF new
  <2>4. lease[c] = NoLeading /\ lease'[c] = new /\ lease' = [lease EXCEPT ![c] = lease'[c]]
    BY <1>4, <1>6, <2>2 DEF lease
  <2>5. Leases!Grant(c)
    BY <2>2, <2>3, <2>4 DEF Leases!Grant, lease
  <2> QED
    BY <2>5 DEF Leases!Next
<1> QED
  BY <1>8, <1>9

LEMMA AfterMergeIsLease ==
  ASSUME IInv, NEW db \in Seq(PendingInfo), NEW puts \in PutsType, NoncesKept(db, puts),
         NEW c \in Calls, NEW r \in CallInfo, AfterMerge(c, r, puts),
         \A i \in DOMAIN puts : puts[i].by # c,
         call[c].at \in {"idle", "leading", "filtering"}, leading # NoLeading,
         r.until = Unset, c = Boot => r.op \in {"boot", "none"},
         UNCHANGED <<now, mined>>, stored'.pending = db
  PROVE  Leases!Next \/ UNCHANGED Leases!vars
<1>1. CASE r.op \in Allocating /\ GetNextNonce(c, r, puts)
  <2>1. c \in Requests
    BY <1>1 DEF Calls, Allocating
  <2> QED
    BY <1>1, <2>1, AllocationIsGrant
<1>2. CASE Go(c, r, "done")
  BY <1>2, GoIsLose
<1> QED
  BY <1>1, <1>2 DEF AfterMerge

-----------------------------------------------------------------------------
(* Each action.                                                            *)

LEMMA RequestIsLease ==
  ASSUME IInv, NEW c \in Requests, Request(c)
  PROVE  Leases!Next \/ UNCHANGED Leases!vars
<1> DEFINE news == {NewCall(op, Unset) : op \in {"trade", "next", "nonce"}}
                     \cup {NewCall("approve", n) : n \in Known \ {0}}
           db == stored.pending
<1>1. PICK r \in news :
        \/ /\ Fresh
           /\ AfterMerge(c, r, pendingPuts)
        \/ Ask(c, r, IF r.op = "nonce" /\ leading = NoLeading THEN "reading" ELSE "counting")
  BY DEF Request
<1>2. call[c].at = "idle" /\ UNCHANGED <<now, mined, stored>>
  BY DEF Request, chain
<1>3. /\ c \in Calls /\ c # Boot /\ call \in [Calls -> CallInfo]
      /\ db \in Seq(PendingInfo) /\ pendingPuts \in PutsType /\ NoncesKept(db, pendingPuts)
  BY StateFacts, NonceAssumption DEF Calls, IInv
<1>4. r \in CallInfo /\ r.until = Unset
  <2>1. Known \subseteq Nonces
    <3> SUFFICES ASSUME NEW d \in Requests PROVE call[d].nonce \in Nonces
      BY DEF Known
    <3>1. call[d] \in CallInfo
      BY <1>3 DEF Calls
    <3> QED
      BY <3>1 DEF CallInfo
  <2>2. \E op \in Operations, n \in Nonces : r = NewCall(op, n)
    BY <1>1, <2>1 DEF Operations, Allocating, Nonces
  <2> QED
    BY <2>2, NewFields
<1>5. \A i \in DOMAIN pendingPuts : pendingPuts[i].by # c
  BY <1>2, <1>3 DEF NoncesKept, PutsOwned
<1>6. CASE Fresh /\ AfterMerge(c, r, pendingPuts)
  <2>1. leading # NoLeading
    BY <1>6 DEF Fresh
  <2>2. stored'.pending = db
    BY <1>2
  <2> HIDE DEF db
  <2> QED
    BY <1>2, <1>3, <1>4, <1>5, <1>6, <2>1, <2>2, AfterMergeIsLease
<1>7. CASE \E at \in {"reading", "counting"} : Ask(c, r, at)
  BY <1>2, <1>3, <1>4, <1>7, AskIsLose DEF AtNode
<1> QED
  BY <1>1, <1>6, <1>7

LEMMA ResendIsLease ==
  ASSUME IInv, NEW c \in Requests, Resend(c)
  PROVE  Leases!Next
<1>1. PICK n \in Known : Ask(c, NewCall("resend", n), "sending")
  BY DEF Resend
<1>2. PICK d \in Requests : call[d].nonce = n
  BY DEF Known
<1>3. n \in Nonces /\ c \in Calls
  <2>1. call[d] \in CallInfo
    BY StateFacts DEF Calls
  <2> QED
    BY <2>1, <1>2 DEF CallInfo, Calls
<1>4. NewCall("resend", n) \in CallInfo /\ NewCall("resend", n).until = Unset
  BY <1>3, NewFields DEF Operations
<1>5. UNCHANGED <<now, mined>>
  BY DEF Resend, chain
<1> QED
  BY <1>1, <1>3, <1>4, <1>5, AskIsLose DEF AtNode

LEMMA MergeNonceIsLease ==
  ASSUME IInv, NEW c \in Calls, MergeNonce(c)
  PROVE  Leases!Next
<1>1. PICK count \in call[c].seen + 1 .. mined + 1 :
        call' = [call EXCEPT ![c].at = "leading", ![c].since = 0,
                             ![c].seen = ExternalNonce(count)]
  BY DEF MergeNonce
<1> DEFINE r == [call[c] EXCEPT !.at = "leading", !.since = 0, !.seen = count - 1]
<1>2. /\ call[c] \in CallInfo /\ call \in [Calls -> CallInfo] /\ mined \in Int
      /\ call[c].seen \in Int /\ call[c].seen >= -1
  <2>1. call[c] \in CallInfo
    BY StateFacts
  <2> QED
    BY <2>1, StateFacts DEF CallInfo, Nonces, Unset
<1>3. count - 1 \in Nonces
  BY <1>2 DEF Nonces, Unset
<1>4. r \in CallInfo /\ r.nonce = call[c].nonce /\ r.until = call[c].until
  <2>1. r \in CallInfo
    BY <1>2, <1>3 DEF CallInfo, AtDatabase
  <2> QED
    BY <1>2, <2>1 DEF CallInfo
<1>5. call' = [call EXCEPT ![c] = r] /\ UNCHANGED <<now, mined>>
  BY <1>1, <1>2 DEF MergeNonce, ExternalNonce, chain
<1> HIDE DEF r
<1> QED
  BY <1>4, <1>5, MoveIsLose

(* Answers of the node, and transactions.                                  *)
LEMMA NodeIsLease ==
  ASSUME IInv, NEW c \in Calls,
         GetNonceFromNode(c) \/ NodeFails(c) \/ Accept(c) \/ CommitNonce(c) \/ SendFails(c)
  PROVE  Leases!Next
<1>1. call[c] \in CallInfo /\ CallSound(call[c], mined, leading)
  BY StateFacts DEF IInv
<1>2. CASE GetNonceFromNode(c)
  BY <1>1, <1>2, GoIsLose DEF GetNonceFromNode, AtDatabase, chain
<1>3. CASE NodeFails(c)
  <2> DEFINE old == [call[c] EXCEPT !.nonce = Unset]
  <2>1. old \in CallInfo
    BY <1>1 DEF CallInfo, Nonces
  <2>2. old.until = Unset
    BY <1>1, <1>3, <2>1 DEF CallInfo, CallSound, NodeFails
  <2>3. Go(c, old, "failed") /\ UNCHANGED <<now, mined>>
    BY <1>3 DEF NodeFails, chain
  <2> HIDE DEF old
  <2> QED
    BY <2>1, <2>2, <2>3, GoIsLose
<1>4. CASE Accept(c)
  BY <1>1, <1>4, GoIsLose DEF Accept, AtNode
<1>5. CASE CommitNonce(c)
  BY <1>1, <1>5, GoIsLose DEF CommitNonce, AtDatabase, chain
<1>6. CASE SendFails(c)
  BY <1>1, <1>6, GoIsLose DEF SendFails, chain
<1> QED
  BY <1>2, <1>3, <1>4, <1>5, <1>6

LEMMA LeadingSavedIsLease ==
  ASSUME IInv, NEW c \in Calls, LeadingSaved(c)
  PROVE  Leases!Next \/ UNCHANGED Leases!vars
<1> DEFINE db == stored.pending
<1>1. /\ call[c] \in CallInfo /\ CallSound(call[c], mined, leading)
      /\ db \in Seq(PendingInfo) /\ pendingPuts \in PutsType /\ NoncesKept(db, pendingPuts)
      /\ stored \in [leading : LeadingType, pending : Seq(PendingInfo)]
  BY StateFacts DEF IInv, TypeOK, LeadingType
<1>2. UNCHANGED <<now, mined>> /\ stored'.pending = db
  BY <1>1 DEF LeadingSaved, chain
<1>3. CASE \E at \in {"filtering", "done"} : Go(c, call[c], at)
  BY <1>1, <1>2, <1>3, GoIsLose DEF AtDatabase
<1>4. CASE call[c].at = "leading" /\ AfterMerge(c, call[c], pendingPuts)
  <2>1. \A i \in DOMAIN pendingPuts : pendingPuts[i].by # c
    BY <1>1, <1>4 DEF NoncesKept, PutsOwned
  <2>2. call[c].until = Unset /\ leading # NoLeading
    BY <1>1, <1>4 DEF CallSound
  <2>3. c = Boot => call[c].op \in {"boot", "none"}
    BY DEF IInv, BootSound
  <2> HIDE DEF db
  <2> QED
    BY <1>1, <1>2, <1>4, <2>1, <2>2, <2>3, AfterMergeIsLease
<1> QED
  BY <1>3, <1>4 DEF LeadingSaved

LEMMA PendingSavedIsLease ==
  ASSUME IInv, NEW c \in Calls, PendingSaved(c)
  PROVE  Leases!Next \/ UNCHANGED Leases!vars
<1> DEFINE db == Head(pendingPuts).value
           rest == Tail(pendingPuts)
<1>1. /\ pendingPuts # <<>> /\ Head(pendingPuts).by = c
      /\ stored' = [stored EXCEPT !.pending = db] /\ UNCHANGED <<now, mined>>
  BY DEF PendingSaved, chain
<1>2. /\ call[c] \in CallInfo /\ CallSound(call[c], mined, leading)
      /\ pendingPuts \in PutsType /\ NoncesKept(stored.pending, pendingPuts)
      /\ stored \in [leading : LeadingType, pending : Seq(PendingInfo)]
  BY StateFacts DEF IInv, TypeOK, LeadingType
<1>3. /\ db \in Seq(PendingInfo) /\ rest \in PutsType /\ NoncesKept(db, rest)
      /\ \A i \in DOMAIN rest : rest[i].by # c
  BY <1>1, <1>2, HeadSaved
<1>4. stored'.pending = db
  BY <1>1, <1>2
<1> HIDE DEF db, rest
<1>5. CASE call[c].at = "filtering" /\ AfterMerge(c, call[c], rest)
  <2>1. call[c].until = Unset /\ leading # NoLeading
    BY <1>2, <1>5 DEF CallSound
  <2>2. c = Boot => call[c].op \in {"boot", "none"}
    BY DEF IInv, BootSound
  <2> QED
    BY <1>1, <1>2, <1>3, <1>4, <1>5, <2>1, <2>2, AfterMergeIsLease
<1>6. CASE \E at \in {"done", "failed"} : Go(c, call[c], at)
  BY <1>1, <1>2, <1>6, GoIsLose
<1>7. CASE Ask(c, call[c], "sending")
  BY <1>1, <1>2, <1>7, AskIsLose DEF AtNode
<1> QED
  BY <1>5, <1>6, <1>7 DEF PendingSaved, rest

LEMMA PassIsPass ==
  ASSUME IInv, Mine \/ Drop \/ Tick
  PROVE  Leases!Next \/ UNCHANGED Leases!vars
<1>1. now \in Nat /\ mined \in Int
  BY StateFacts
<1>2. /\ now' \in Nat /\ now' >= now /\ mined' \in Int /\ mined' >= mined /\ call' = call
  BY <1>1 DEF Mine, Drop, Tick, manager, database, chain
<1>3. lease' = lease
  BY <1>2 DEF lease
<1> QED
  BY <1>2, <1>3 DEF Leases!Next, Leases!Pass, lease

(* What was answered is kept over a restart; the rest is lost.             *)
LEMMA RestartIsLose ==
  ASSUME IInv, Restart
  PROVE  Leases!Next
<1> DEFINE kept == {c \in Requests : Answered(call[c])}
           cut(r) == [NewCall("none", Unset) EXCEPT
                        !.at = IF r.at = "idle" THEN "idle" ELSE "failed",
                        !.nonce = IF Answered(r) THEN r.nonce ELSE Unset,
                        !.until = IF Answered(r) THEN r.until ELSE Unset]
<1>1. UNCHANGED <<now, mined>> /\ \A c \in Requests : call'[c] = cut(call[c])
  <2>1. \A c \in Requests : c \in Calls /\ c # Boot
    BY NonceAssumption DEF Calls
  <2> QED
    BY <2>1 DEF Restart, chain
<1>2. ASSUME NEW r
      PROVE  /\ cut(r).nonce = IF Answered(r) THEN r.nonce ELSE Unset
             /\ cut(r).until = IF Answered(r) THEN r.until ELSE Unset
  BY DEF NewCall
<1> HIDE DEF cut
<1>3. \A c \in Requests :
        LeaseOf(call'[c]) = IF c \in kept THEN LeaseOf(call[c]) ELSE NoLeading
  BY <1>1, <1>2 DEF LeaseOf
<1>4. lease' = [c \in Requests |-> IF c \in kept THEN lease[c] ELSE NoLeading]
  BY <1>3 DEF lease
<1>5. kept \in SUBSET Requests
  OBVIOUS
<1> HIDE DEF kept
<1> QED
  BY <1>1, <1>4, <1>5 DEF Leases!Next, Leases!Lose, lease

-----------------------------------------------------------------------------

LEMMA InitIsInit == Init => Leases!Init
<1> SUFFICES ASSUME Init PROVE Leases!Init
  OBVIOUS
<1>1. \A c \in Requests : call[c].until = Unset
  BY DEF Init, NewCall, Calls
<1>2. now = 0 /\ mined \in Int
  BY NonceAssumption DEF Init
<1> QED
  BY <1>1, <1>2 DEF Leases!Init, LeaseOf

LEMMA StepIsStep == IInv /\ [Next]_vars => [Leases!Next]_Leases!vars
<1> SUFFICES ASSUME IInv, [Next]_vars PROVE Leases!Next \/ UNCHANGED Leases!vars
  OBVIOUS
<1>1. CASE \E c \in Requests : Request(c)
  BY <1>1, RequestIsLease
<1>2. CASE \E c \in Requests : Resend(c)
  BY <1>2, ResendIsLease
<1>3. CASE \E c \in Calls : MergeNonce(c)
  BY <1>3, MergeNonceIsLease
<1>4. CASE \E c \in Calls : \/ GetNonceFromNode(c) \/ NodeFails(c)
                            \/ Accept(c) \/ CommitNonce(c) \/ SendFails(c)
  BY <1>4, NodeIsLease
<1>5. CASE \E c \in Calls : LeadingSaved(c)
  BY <1>5, LeadingSavedIsLease
<1>6. CASE \E c \in Calls : PendingSaved(c)
  BY <1>6, PendingSavedIsLease
<1>7. CASE Mine \/ Drop \/ Tick
  BY <1>7, PassIsPass
<1>8. CASE Restart
  BY <1>8, RestartIsLose
<1>9. CASE \E c \in Calls : AcceptLate(c)
  BY <1>9 DEF AcceptLate, Leases!vars, lease
<1>10. CASE UNCHANGED vars
  BY <1>10 DEF vars, chain, Leases!vars
<1> QED
  BY <1>1, <1>2, <1>3, <1>4, <1>5, <1>6, <1>7, <1>8, <1>9, <1>10 DEF Next, Serve

(* The nonce manager implements the leases of nonces: whatever getNextNonce *)
(* answers was held by nobody else at that moment, for any number of       *)
(* requests, and a lease ends only with its time, its transaction, its     *)
(* request or the gateway.                                                 *)
THEOREM NonceManagerLeases == Spec => LeasesNonces
  BY InitIsInit, StepIsStep, Invariant, PTL DEF Spec, LeasesNonces, Leases!Spec
=============================================================================
