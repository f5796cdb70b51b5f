----------------------- MODULE EvmNonceManager_proofs ------------------------
(***************************************************************************)
(* Proofs about the nonce manager: its types, that no two requests hold    *)
(* one nonce, that the database remembers what was answered, and that      *)
(* there is no hole.                                                       *)
(*                                                                         *)
(* The argument.  A list of pending nonces (in memory, in the database, or *)
(* on its way there) loses only what the chain has mined, and keeps every  *)
(* nonce that is still to be mined and was given to a request, with an     *)
(* expiry no earlier than the request's.  So a nonce that is given again   *)
(* (because it expired, or is the next one) is held by nobody, and after   *)
(* a restart the database still has all that was answered.                 *)
(***************************************************************************)
EXTENDS EvmNonceManager, SequenceTheorems, TLAPS

-----------------------------------------------------------------------------
(* The inductive invariant.                                                *)

(* A list of pending nonces is consecutive and begins where the chain is.  *)
Consecutive(list) == \A i \in DOMAIN list : list[i].nonce = list[1].nonce + i - 1
Begins(list) == list # <<>> => list[1].nonce <= mined + 1
Sound(list) == Consecutive(list) /\ Begins(list)

(* The nonce of a call is in a list, with an expiry that covers the call's. *)
Has(list, r) ==
  \E i \in DOMAIN list : list[i].nonce = r.nonce /\ list[i].expiry >= r.until

(* db is what the database holds, puts are the writes on their way to it.  *)
ListsSound(db, puts) ==
  /\ Sound(pending) /\ Sound(db)
  /\ \A i \in DOMAIN puts : Sound(puts[i].value)

(* Only a call that waits for it has a write of the pending nonces under   *)
(* way, and only one.                                                      *)
PutsOwned(puts) ==
  \A i \in DOMAIN puts :
    /\ call[puts[i].by].at \in {"filtering", "assigning"}
    /\ \A j \in DOMAIN puts : puts[i].by = puts[j].by => i = j

(* What was answered and is not mined is in every list.                    *)
AnsweredKept(db, puts) ==
  \A c \in Requests : Answered(call[c]) /\ call[c].nonce > mined =>
    /\ Has(pending, call[c]) /\ Has(db, call[c])
    /\ \A i \in DOMAIN puts : Has(puts[i].value, call[c])

(* What is about to be answered is in memory, in the list the call writes, *)
(* and in all lists written after it.                                      *)
AssignedKept(puts) ==
  \A c \in Requests : call[c].at = "assigning" /\ call[c].nonce > mined =>
    /\ Has(pending, call[c])
    /\ \A i, j \in DOMAIN puts :
         puts[i].by = c /\ i <= j => Has(puts[j].value, call[c])

(* What a call has of a nonce, it has in the lists.                        *)
NoncesKept(db, puts) ==
  ListsSound(db, puts) /\ PutsOwned(puts) /\ AnsweredKept(db, puts) /\ AssignedKept(puts)

(* A leading nonce is mined, or is that of a transaction somebody sent.    *)
Led(info, m, calls) ==
  info # NoLeading =>
    \/ info.nonce <= m
    \/ \E c \in Requests : Answered(calls[c]) /\ calls[c].nonce = info.nonce

LeadingSound ==
  /\ Led(leading, mined, call) /\ Led(stored.leading, mined, call)
  /\ \A i \in DOMAIN leadingPuts : Led(leadingPuts[i].value, mined, call)

(* What the steps of a call rely on.                                       *)
CallSound(r, m, info) ==
  /\ r.seen <= m
  /\ r.at \in {"idle", "counting", "reading", "leading", "filtering"} => r.until = Unset
  /\ r.op \in {"nonce", "boot"} => r.nonce = Unset
  /\ r.at \in {"leading", "filtering"} => info # NoLeading
  /\ r.at \in {"counting", "leading", "filtering"} => r.op \in Allocating \cup {"nonce", "boot"}
  /\ r.at = "reading" => r.op = "nonce"

BootSound ==
  /\ call[Boot].at \in {"idle", "counting", "leading", "filtering", "done", "failed"}
  /\ call[Boot].op \in {"boot", "none"}

IInv ==
  /\ TypeOK
  /\ NoncesKept(stored.pending, pendingPuts)
  /\ LeadingSound
  /\ \A c \in Calls : CallSound(call[c], mined, leading)
  /\ BootSound
  /\ NoSharedNonce

CallInfo ==
  [op : Operations \cup {"none"},
   at : {"idle", "done", "failed"} \cup AtNode \cup AtDatabase,
   since : Nat, seen : Nonces, nonce : Nonces, until : Nonces]

-----------------------------------------------------------------------------
(* Lists of pending nonces.                                                *)

(* In a consecutive list a nonce is at one place.                          *)
LEMMA OnePlace ==
  ASSUME NEW list \in Seq(PendingInfo), Consecutive(list),
         NEW i \in DOMAIN list, NEW j \in DOMAIN list, list[i].nonce = list[j].nonce
  PROVE  i = j
<1>1. DOMAIN list = 1 .. Len(list) /\ Len(list) \in Nat
  OBVIOUS
<1>2. i \in Int /\ j \in Int /\ 1 \in DOMAIN list
  BY <1>1
<1>3. list[1] \in PendingInfo
  BY <1>2
<1>4. PICK a \in Nat : a = list[1].nonce
  BY <1>3 DEF PendingInfo
<1>5. list[i].nonce = a + i - 1 /\ list[j].nonce = a + j - 1
  BY <1>4 DEF Consecutive
<1>6. a + i - 1 = a + j - 1
  BY <1>5
<1> QED
  BY <1>2, <1>6

(* Dropping what is not beyond a mined nonce keeps a list sound, and keeps *)
(* all in it that is not mined.                                            *)
LEMMA StillPendingKeeps ==
  ASSUME pending \in Seq(PendingInfo), Sound(pending), mined \in Nonces,
         NEW n \in Nonces, n <= mined
  PROVE  /\ StillPending(n) \in Seq(PendingInfo)
         /\ Sound(StillPending(n))
         /\ \A r \in CallInfo :
              r.nonce > mined /\ Has(pending, r) => Has(StillPending(n), r)
<1> DEFINE len == Len(pending)
           Splits(k) == \A i \in DOMAIN pending : pending[i].nonce > n <=> i > k
           d == CHOOSE k \in 0 .. len : Splits(k)
           rest == SubSeq(pending, d + 1, len)
<1>1. len \in Nat /\ DOMAIN pending = 1 .. len
  OBVIOUS
<1>2. \A i \in 1 .. len : pending[i] \in PendingInfo
  OBVIOUS
<1>3. \A i \in 1 .. len : pending[i].nonce \in Nat /\ pending[i].expiry \in Nat
  BY <1>2 DEF PendingInfo
<1>4. \A i \in 1 .. len : pending[i].nonce = pending[1].nonce + i - 1
  BY <1>1 DEF Sound, Consecutive
<1>5. n \in Int /\ mined \in Int
  BY DEF Nonces, Unset
<1>6. \E k \in 0 .. len : Splits(k)
  <2>1. CASE len = 0
    BY <2>1, <1>1
  <2>2. CASE len > 0
    <3>1. pending[1].nonce \in Nat
      BY <2>2, <1>1, <1>3
    <3>2. CASE pending[1].nonce > n
      <4>1. Splits(0)
        BY <3>1, <3>2, <1>1, <1>4, <1>5
      <4> QED
        BY <4>1, <1>1
    <3>3. CASE n >= pending[1].nonce /\ n - pending[1].nonce + 1 <= len
      <4>1. Splits(n - pending[1].nonce + 1)
        BY <3>1, <3>3, <1>1, <1>4, <1>5
      <4>2. n - pending[1].nonce + 1 \in 0 .. len
        BY <3>1, <3>3, <1>1, <1>5
      <4> QED
        BY <4>1, <4>2
    <3>4. CASE n - pending[1].nonce + 1 > len
      <4>1. Splits(len)
        BY <3>1, <3>4, <1>1, <1>4, <1>5
      <4> QED
        BY <4>1, <1>1
    <3> QED
      BY <3>1, <3>2, <3>3, <3>4, <1>1, <1>5
  <2> QED
    BY <2>1, <2>2, <1>1
<1>7. d \in 0 .. len /\ Splits(d)
  BY <1>6
<1> HIDE DEF d
<1>8. /\ rest \in Seq(PendingInfo)
      /\ Len(rest) = len - d
      /\ \A i \in 1 .. len - d : rest[i] = pending[d + i]
  <2>1. d + 1 \in Int /\ len \in Int /\ d \in Int
    BY <1>1, <1>7
  <2>2. \A i \in d + 1 .. len : pending[i] \in PendingInfo
    BY <1>2, <1>7, <1>1
  <2>3. /\ rest \in Seq(PendingInfo)
        /\ Len(rest) = IF d + 1 <= len THEN len - (d + 1) + 1 ELSE 0
        /\ \A i \in 1 .. len - (d + 1) + 1 : rest[i] = pending[d + 1 + i - 1]
    BY <2>1, <2>2, SubSeqProperties
  <2> HIDE DEF rest, len
  <2>4. len - (d + 1) + 1 = len - d /\ \A i \in Int : d + 1 + i - 1 = d + i
    BY <2>1
  <2>5. d <= len
    BY <1>7, <1>1
  <2> QED
    BY <2>1, <2>3, <2>4, <2>5
<1>9. StillPending(n) = rest
  BY DEF StillPending, Beyond, d
<1> HIDE DEF rest
<1>10. DOMAIN rest = 1 .. len - d
  BY <1>8, <1>7, <1>1
<1>11. Consecutive(rest)
  <2> SUFFICES ASSUME NEW i \in DOMAIN rest
               PROVE  rest[i].nonce = rest[1].nonce + i - 1
    BY DEF Consecutive
  <2>1. i \in 1 .. len - d /\ 1 \in 1 .. len - d
    BY <1>10, <1>1, <1>7
  <2>2. d + i \in 1 .. len /\ d + 1 \in 1 .. len
    BY <2>1, <1>1, <1>7
  <2>3. rest[i] = pending[d + i] /\ rest[1] = pending[d + 1]
    BY <2>1, <1>8
  <2>4. PICK a \in Nat : a = pending[1].nonce
    BY <2>2, <1>1, <1>3
  <2>5. rest[i].nonce = a + (d + i) - 1 /\ rest[1].nonce = a + (d + 1) - 1
    BY <2>2, <2>3, <2>4, <1>4
  <2>6. a + (d + i) - 1 = a + (d + 1) - 1 + i - 1
    BY <2>1, <1>1, <1>7
  <2> QED
    BY <2>5, <2>6
<1>12. Begins(rest)
  <2> SUFFICES ASSUME rest # <<>> PROVE rest[1].nonce <= mined + 1
    BY DEF Begins
  <2>1. 1 \in 1 .. len - d
    BY <1>8, <1>7, <1>1
  <2>2. rest[1] = pending[d + 1] /\ d + 1 \in 1 .. len
    BY <2>1, <1>8, <1>7, <1>1
  <2>3. CASE d = 0
    <3>1. pending # <<>>
      BY <2>2, <1>1
    <3> QED
      BY <3>1, <2>2, <2>3 DEF Sound, Begins
  <2>4. CASE d > 0
    <3>1. d \in 1 .. len
      BY <2>4, <1>7
    <3>2. ~ (pending[d].nonce > n)
      BY <3>1, <1>7, <1>1
    <3>3. PICK a \in Nat : a = pending[1].nonce
      BY <3>1, <1>1, <1>3
    <3>4. pending[d + 1].nonce = a + (d + 1) - 1 /\ pending[d].nonce = a + d - 1
      BY <2>2, <3>1, <3>3, <1>4
    <3> QED
      BY <2>2, <3>1, <3>2, <3>3, <3>4, <1>5
  <2> QED
    BY <2>3, <2>4, <1>7
<1>13. ASSUME NEW r \in CallInfo, r.nonce > mined, Has(pending, r)
       PROVE  Has(rest, r)
  <2>1. PICK i \in 1 .. len : pending[i].nonce = r.nonce /\ pending[i].expiry >= r.until
    BY <1>13, <1>1 DEF Has
  <2>2. pending[i].nonce > n
    BY <2>1, <1>13, <1>5, <1>3
  <2>3. i > d
    BY <2>2, <1>7, <1>1
  <2>4. i - d \in 1 .. len - d /\ d + (i - d) = i
    BY <2>3, <1>7, <1>1
  <2>5. rest[i - d] = pending[i]
    BY <2>4, <1>8
  <2> QED
    BY <2>1, <2>4, <2>5, <1>10 DEF Has
<1> QED
  BY <1>8, <1>9, <1>11, <1>12, <1>13 DEF Sound

(* A list with one more nonce at its end.                                  *)
LEMMA AppendKeeps ==
  ASSUME NEW list \in Seq(PendingInfo), Sound(list), mined \in Nonces,
         NEW info \in PendingInfo,
         list = <<>> => info.nonce <= mined + 1,
         list # <<>> => info.nonce = list[Len(list)].nonce + 1
  PROVE  /\ Append(list, info) \in Seq(PendingInfo)
         /\ Sound(Append(list, info))
         /\ \A r \in CallInfo : Has(list, r) => Has(Append(list, info), r)
         /\ \A r \in CallInfo : r.nonce = info.nonce /\ r.until <= info.expiry
                                  => Has(Append(list, info), r)
         /\ \A r \in CallInfo : r.nonce = info.nonce => ~ Has(list, r)
<1> DEFINE len == Len(list)
           new == Append(list, info)
<1>1. len \in Nat /\ DOMAIN list = 1 .. len
  OBVIOUS
<1>2. \A i \in 1 .. len : list[i].nonce \in Nat /\ list[i].expiry \in Nat
  <2> SUFFICES ASSUME NEW i \in 1 .. len PROVE list[i].nonce \in Nat /\ list[i].expiry \in Nat
    OBVIOUS
  <2>1. list[i] \in PendingInfo
    OBVIOUS
  <2> QED
    BY <2>1 DEF PendingInfo
<1>3. /\ new \in Seq(PendingInfo)
      /\ DOMAIN new = 1 .. len + 1
      /\ \A i \in 1 .. len : new[i] = list[i]
      /\ new[len + 1] = info
  OBVIOUS
<1> HIDE DEF new, len
<1>4. \A i \in 1 .. len : list[i].nonce = list[1].nonce + i - 1
  BY <1>1 DEF Sound, Consecutive
<1>5. len # 0 => list # <<>> /\ 1 \in 1 .. len /\ len \in 1 .. len
  BY <1>1
<1>6. len = 0 => list = <<>>
  BY DEF len
<1>7. info.nonce \in Nat /\ info.expiry \in Nat /\ mined \in Int
  BY DEF PendingInfo, Nonces, Unset
<1>8. Consecutive(new)
  <2> SUFFICES ASSUME NEW i \in 1 .. len + 1
               PROVE  new[i].nonce = new[1].nonce + i - 1
    BY <1>3 DEF Consecutive
  <2>1. CASE len = 0
    <3>1. i = 1 /\ new[1] = info
      BY <2>1, <1>3
    <3> QED
      BY <3>1, <1>7
  <2>2. CASE len # 0
    <3>1. PICK a \in Nat : a = list[1].nonce
      BY <2>2, <1>2, <1>5
    <3>2. new[1].nonce = a
      BY <3>1, <2>2, <1>3, <1>5
    <3>3. info.nonce = a + len - 1 + 1
      BY <3>1, <2>2, <1>4, <1>5 DEF len
    <3>4. CASE i \in 1 .. len
      BY <3>4, <3>1, <3>2, <1>3, <1>4
    <3>5. CASE i = len + 1
      BY <3>5, <3>2, <3>3, <1>3, <1>1
    <3> QED
      BY <3>4, <3>5, <1>1
  <2> QED
    BY <2>1, <2>2
<1>9. Begins(new)
  <2>1. CASE len = 0
    BY <2>1, <1>3, <1>6 DEF Begins
  <2>2. CASE len # 0
    BY <2>2, <1>3, <1>5 DEF Begins, Sound
  <2> QED
    BY <2>1, <2>2
<1>10. ASSUME NEW r \in CallInfo, Has(list, r)
       PROVE  Has(new, r)
  BY <1>10, <1>1, <1>3 DEF Has
<1>11. ASSUME NEW r \in CallInfo, r.nonce = info.nonce, r.until <= info.expiry
       PROVE  Has(new, r)
  <2>1. len + 1 \in DOMAIN new /\ r.until \in Int
    BY <1>1, <1>3 DEF CallInfo, Nonces, Unset
  <2> QED
    BY <1>11, <2>1, <1>3, <1>7 DEF Has
<1>12. ASSUME NEW r \in CallInfo, r.nonce = info.nonce, Has(list, r)
       PROVE  FALSE
  <2>1. PICK i \in 1 .. len : list[i].nonce = info.nonce
    BY <1>12, <1>1 DEF Has
  <2>2. PICK a \in Nat : a = list[1].nonce
    BY <2>1, <1>1, <1>2
  <2>3. list[i].nonce = a + i - 1 /\ list[len].nonce = a + len - 1
    BY <2>1, <2>2, <1>1, <1>4
  <2>4. info.nonce = a + len - 1 + 1
    BY <2>1, <2>3, <1>1, <1>5 DEF len
  <2> QED
    BY <2>1, <2>3, <2>4, <1>1
<1> QED
  BY <1>3, <1>8, <1>9, <1>10, <1>11, <1>12 DEF Sound, new

(* An expired nonce is renewed in its place.                               *)
LEMMA ReuseKeeps ==
  ASSUME pending \in Seq(PendingInfo), Sound(pending), now \in Nat,
         PendingTTL \in Nat, NEW k \in ExpiredPending
  PROVE  /\ Reuse(k) \in Seq(PendingInfo)
         /\ Sound(Reuse(k))
         /\ \A r \in CallInfo : Has(pending, r) => Has(Reuse(k), r)
         /\ \A r \in CallInfo : r.nonce = pending[k].nonce /\ r.until <= now + PendingTTL
                                  => Has(Reuse(k), r)
         /\ \A r \in CallInfo : r.nonce = pending[k].nonce /\ Has(pending, r)
                                  => r.until < now
<1> DEFINE new == Reuse(k)
<1>1. k \in DOMAIN pending /\ now > pending[k].expiry
  BY DEF ExpiredPending
<1>2. \A i \in DOMAIN pending :
        pending[i] \in PendingInfo /\ pending[i].nonce \in Nat /\ pending[i].expiry \in Nat
  <2> SUFFICES ASSUME NEW i \in DOMAIN pending PROVE pending[i] \in PendingInfo
    BY DEF PendingInfo
  <2> QED
    OBVIOUS
<1>3. [pending[k] EXCEPT !.expiry = now + PendingTTL] \in PendingInfo
  BY <1>1, <1>2 DEF PendingInfo
<1>4. /\ new \in Seq(PendingInfo)
      /\ DOMAIN new = DOMAIN pending
      /\ \A i \in DOMAIN pending \ {k} : new[i] = pending[i]
      /\ new[k] = [pending[k] EXCEPT !.expiry = now + PendingTTL]
  BY <1>1, <1>3 DEF Reuse
<1>5. new[k].nonce = pending[k].nonce /\ new[k].expiry = now + PendingTTL
  BY <1>1, <1>2, <1>4 DEF PendingInfo
<1>6. \A i \in DOMAIN pending : new[i].nonce = pending[i].nonce /\ new[i].expiry >= pending[i].expiry
  <2> SUFFICES ASSUME NEW i \in DOMAIN pending
               PROVE  new[i].nonce = pending[i].nonce /\ new[i].expiry >= pending[i].expiry
    OBVIOUS
  <2>1. CASE i = k
    BY <2>1, <1>1, <1>2, <1>5
  <2>2. CASE i # k
    BY <2>2, <1>2, <1>4
  <2> QED
    BY <2>1, <2>2
<1>7. pending # <<>> /\ new # <<>> /\ 1 \in DOMAIN pending
  BY <1>1, <1>4
<1> HIDE DEF new
<1>8. Sound(new)
  BY <1>4, <1>6, <1>7 DEF Sound, Consecutive, Begins
<1>9. ASSUME NEW r \in CallInfo, Has(pending, r)
      PROVE  Has(new, r)
  <2>1. PICK i \in DOMAIN pending : pending[i].nonce = r.nonce /\ pending[i].expiry >= r.until
    BY <1>9 DEF Has
  <2>2. new[i] \in PendingInfo /\ r.until \in Int
    BY <1>4 DEF CallInfo, Nonces, Unset
  <2>3. new[i].expiry \in Int
    BY <2>2 DEF PendingInfo
  <2> QED
    BY <2>1, <2>2, <2>3, <1>2, <1>4, <1>6 DEF Has
<1>10. ASSUME NEW r \in CallInfo, r.nonce = pending[k].nonce, r.until <= now + PendingTTL
       PROVE  Has(new, r)
  <2>1. r.until \in Int
    BY DEF CallInfo, Nonces, Unset
  <2> QED
    BY <2>1, <1>10, <1>1, <1>4, <1>5 DEF Has
<1>11. ASSUME NEW r \in CallInfo, r.nonce = pending[k].nonce, Has(pending, r)
       PROVE  r.until < now
  <2>1. PICK i \in DOMAIN pending : pending[i].nonce = r.nonce /\ pending[i].expiry >= r.until
    BY <1>11 DEF Has
  <2>2. i = k
    BY <2>1, <1>1, <1>11, OnePlace DEF Sound
  <2>3. r.until \in Int
    BY DEF CallInfo, Nonces, Unset
  <2> QED
    BY <2>1, <2>2, <2>3, <1>1, <1>2
<1> QED
  BY <1>4, <1>8, <1>9, <1>10, <1>11 DEF new

-----------------------------------------------------------------------------
(* What getNextNonce gives is new or expired.                              *)

(* The nonce of a call is one that it answered or is about to.             *)
Given(r) == Answered(r) \/ r.at = "assigning"

LEMMA NextNonce ==
  ASSUME TypeOK, Sound(pending),
         pending = <<>> => leading \in NonceInfo /\ leading.nonce <= mined,
         NEW c \in Calls, NEW r \in CallInfo, NEW puts,
         GetNextNonce(c, r, puts), mined' = mined
  PROVE  \E n \in Nat : \E m \in {n, Unset} :
           /\ pending' \in Seq(PendingInfo) /\ Sound(pending)'
           /\ \A x \in CallInfo : Has(pending, x) => Has(pending', x)
           /\ \A x \in CallInfo : x.nonce = n /\ x.until <= now + PendingTTL
                                    => Has(pending', x)
           /\ \A x \in CallInfo : x.nonce = n /\ Has(pending, x) => x.until < now
           /\ call' = [call EXCEPT ![c] =
                [r EXCEPT !.at = "assigning", !.since = 0, !.seen = Unset,
                          !.nonce = m, !.until = now + PendingTTL]]
           /\ pendingPuts' = Append(puts, [by |-> c, value |-> pending'])
<1> DEFINE Goal(n) ==
           \E m \in {n, Unset} :
             /\ pending' \in Seq(PendingInfo) /\ Sound(pending)'
             /\ \A x \in CallInfo : Has(pending, x) => Has(pending', x)
             /\ \A x \in CallInfo : x.nonce = n /\ x.until <= now + PendingTTL
                                      => Has(pending', x)
             /\ \A x \in CallInfo : x.nonce = n /\ Has(pending, x) => x.until < now
             /\ call' = [call EXCEPT ![c] =
                  [r EXCEPT !.at = "assigning", !.since = 0, !.seen = Unset,
                            !.nonce = m, !.until = now + PendingTTL]]
             /\ pendingPuts' = Append(puts, [by |-> c, value |-> pending'])
<1>1. /\ pending \in Seq(PendingInfo) /\ now \in Nat /\ mined \in Nonces
      /\ PendingTTL \in Nat /\ mined \in Int /\ mined >= -1
  BY NonceAssumption DEF TypeOK, Nonces, Unset
<1>2. pendingPuts' = Append(puts, [by |-> c, value |-> pending'])
  BY DEF GetNextNonce
<1>3. \A n : Assign(c, r, n) => \E m \in {n, Unset} :
        call' = [call EXCEPT ![c] =
          [r EXCEPT !.at = "assigning", !.since = 0, !.seen = Unset,
                    !.nonce = m, !.until = now + PendingTTL]]
  BY DEF Assign
<1>4. \A list : Sound(list) /\ pending' = list => Sound(pending)'
  BY DEF Sound, Consecutive, Begins
<1>5. ASSUME NEW k \in ExpiredPending, pending' = Reuse(k), Assign(c, r, pending[k].nonce)
      PROVE  \E n \in Nat : Goal(n)
  <2>1. pending[k].nonce \in Nat
    <3>1. pending[k] \in PendingInfo
      BY <1>1 DEF ExpiredPending
    <3> QED
      BY <3>1 DEF PendingInfo
  <2>2. /\ pending' \in Seq(PendingInfo) /\ Sound(pending')
        /\ \A x \in CallInfo : Has(pending, x) => Has(pending', x)
        /\ \A x \in CallInfo : x.nonce = pending[k].nonce /\ x.until <= now + PendingTTL
                                 => Has(pending', x)
        /\ \A x \in CallInfo : x.nonce = pending[k].nonce /\ Has(pending, x) => x.until < now
    BY <1>1, <1>5, ReuseKeeps
  <2>3. Goal(pending[k].nonce)
    BY <1>2, <1>3, <1>4, <1>5, <2>2
  <2> QED
    BY <2>1, <2>3
<1>6. ASSUME NEW n \in Nat, pending' = Append(pending, [nonce |-> n, expiry |-> now + PendingTTL]),
             Assign(c, r, n),
             pending = <<>> => n <= mined + 1,
             pending # <<>> => n = pending[Len(pending)].nonce + 1
      PROVE  Goal(n)
  <2> DEFINE info == [nonce |-> n, expiry |-> now + PendingTTL]
  <2>1. info \in PendingInfo /\ info.nonce = n /\ info.expiry = now + PendingTTL
    BY <1>1 DEF PendingInfo
  <2> HIDE DEF info
  <2>2. /\ Append(pending, info) \in Seq(PendingInfo)
        /\ Sound(Append(pending, info))
        /\ \A x \in CallInfo : Has(pending, x) => Has(Append(pending, info), x)
        /\ \A x \in CallInfo : x.nonce = info.nonce /\ x.until <= info.expiry
                                 => Has(Append(pending, info), x)
        /\ \A x \in CallInfo : x.nonce = info.nonce => ~ Has(pending, x)
    BY <1>1, <1>6, <2>1, AppendKeeps
  <2>3. pending' = Append(pending, info)
    BY <1>6 DEF info
  <2> QED
    BY <1>2, <1>3, <1>4, <1>6, <2>1, <2>2, <2>3
<1> SUFFICES \E n \in Nat : Goal(n)
  OBVIOUS
<1> HIDE DEF Goal
<1>7. CASE ExpiredPending # {}
  <2>1. PICK k \in ExpiredPending : pending' = Reuse(k) /\ Assign(c, r, pending[k].nonce)
    <3>1. pending # <<>>
      BY <1>7 DEF ExpiredPending
    <3> QED
      BY <1>7, <3>1 DEF GetNextNonce
  <2> QED
    BY <1>5, <2>1
<1>8. CASE ExpiredPending = {} /\ pending # <<>>
  <2>1. pending[Len(pending)] \in PendingInfo
    BY <1>1, <1>8
  <2>2. pending[Len(pending)].nonce + 1 \in Nat
    BY <2>1 DEF PendingInfo
  <2> QED
    BY <1>6, <1>8, <2>2 DEF GetNextNonce
<1>9. CASE ExpiredPending = {} /\ pending = <<>>
  <2>1. leading.nonce + 1 \in Nat /\ leading.nonce + 1 <= mined + 1
    BY <1>1, <1>9 DEF NonceInfo, Nonces, Unset
  <2>2. pending' = <<[nonce |-> leading.nonce + 1, expiry |-> now + PendingTTL]>>
        /\ Assign(c, r, leading.nonce + 1)
    BY <1>9 DEF GetNextNonce
  <2>3. pending' = Append(pending, [nonce |-> leading.nonce + 1, expiry |-> now + PendingTTL])
    BY <1>9, <2>2
  <2> QED
    BY <1>6, <1>9, <2>1, <2>2, <2>3
<1> QED
  BY <1>7, <1>8, <1>9

(* Soundness of a list does not depend on anything but the mined nonce.    *)
LEMMA SoundStays ==
  ASSUME NEW list \in Seq(PendingInfo), Sound(list), mined \in Int, mined' \in Int, mined' >= mined
  PROVE  Sound(list)'
<1>1. list # <<>> => list[1] \in PendingInfo
  OBVIOUS
<1>2. list # <<>> => list[1].nonce \in Nat
  BY <1>1 DEF PendingInfo
<1> QED
  BY <1>2 DEF Sound, Consecutive, Begins

PutsType == Seq([by : Calls, value : Seq(PendingInfo)])

(* A call writes a new list that keeps what is not mined.                  *)
LEMMA PutKeeps ==
  ASSUME NEW db \in Seq(PendingInfo), NEW puts \in PutsType, NoncesKept(db, puts),
         call \in [Calls -> CallInfo], mined \in Nonces, mined' = mined, stored'.pending = db,
         NEW c \in Calls, NEW new \in CallInfo, new.at \in {"filtering", "assigning"},
         \A i \in DOMAIN puts : puts[i].by # c,
         call' = [call EXCEPT ![c] = new],
         pending' \in Seq(PendingInfo), Sound(pending)',
         \A x \in CallInfo : x.nonce > mined /\ Has(pending, x) => Has(pending', x),
         new.at = "assigning" /\ new.nonce > mined => Has(pending', new),
         pendingPuts' = Append(puts, [by |-> c, value |-> pending'])
  PROVE  NoncesKept(stored.pending, pendingPuts)' /\ pendingPuts' \in PutsType
<1> DEFINE put == [by |-> c, value |-> pending']
           len == Len(puts)
<1>1. put \in [by : Calls, value : Seq(PendingInfo)] /\ mined \in Int /\ mined >= mined
  BY DEF Nonces, Unset
<1>4. new.at \in {"filtering", "assigning"}
  OBVIOUS
<1>5. /\ call'[c] = new
      /\ \A d \in Calls \ {c} : call'[d] = call[d]
  OBVIOUS
<1>6. /\ pendingPuts' \in PutsType
      /\ len \in Nat
      /\ DOMAIN puts = 1 .. len
      /\ DOMAIN pendingPuts' = 1 .. len + 1
      /\ \A i \in 1 .. len : pendingPuts'[i] = puts[i]
      /\ pendingPuts'[len + 1] = put
  BY <1>1 DEF PutsType
<1>7. put.by = c /\ put.value = pending'
  OBVIOUS
<1> HIDE DEF put, len
<1>8. \A i \in 1 .. len : puts[i].by \in Calls /\ puts[i].value \in Seq(PendingInfo)
  <2> SUFFICES ASSUME NEW i \in 1 .. len
               PROVE  puts[i] \in [by : Calls, value : Seq(PendingInfo)]
    OBVIOUS
  <2>1. i \in 1 .. Len(puts)
    BY DEF len
  <2> QED
    BY <2>1, ElementOfSeq DEF PutsType
<1>9. ListsSound(stored.pending, pendingPuts)'
  <2>1. Sound(db)'
    BY <1>1, SoundStays DEF NoncesKept, ListsSound
  <2>2. ASSUME NEW i \in 1 .. len + 1
        PROVE  Sound(pendingPuts[i].value)'
    <3>1. CASE i \in 1 .. len
      <4>1. Sound(puts[i].value)'
        BY <3>1, <1>1, <1>6, <1>8, SoundStays DEF NoncesKept, ListsSound
      <4> QED
        BY <3>1, <4>1, <1>6 DEF Sound, Consecutive, Begins
    <3>2. CASE i = len + 1
      BY <3>2, <1>6, <1>7 DEF Sound, Consecutive, Begins
    <3> QED
      BY <3>1, <3>2, <1>6
  <2>3. Sound(stored.pending)'
    BY <2>1 DEF Sound, Consecutive, Begins
  <2> QED
    BY <2>2, <2>3, <1>6 DEF ListsSound
<1>10. PutsOwned(pendingPuts)'
  <2> SUFFICES ASSUME NEW i \in 1 .. len + 1
               PROVE  /\ call'[pendingPuts'[i].by].at \in {"filtering", "assigning"}
                      /\ \A j \in 1 .. len + 1 :
                           pendingPuts'[i].by = pendingPuts'[j].by => i = j
    BY <1>6 DEF PutsOwned
  <2>1. \A j \in 1 .. len : puts[j].by # c /\ puts[j].by \in Calls
    BY <1>6, <1>8
  <2>2. CASE i = len + 1
    BY <2>1, <2>2, <1>4, <1>5, <1>6, <1>7
  <2>3. CASE i \in 1 .. len
    <3>1. call[puts[i].by].at \in {"filtering", "assigning"}
      BY <2>3, <1>6 DEF NoncesKept, PutsOwned
    <3>2. \A j \in 1 .. len : puts[i].by = puts[j].by => i = j
      BY <2>3, <1>6 DEF NoncesKept, PutsOwned
    <3> QED
      BY <2>1, <2>3, <3>1, <3>2, <1>5, <1>6, <1>7
  <2> QED
    BY <2>2, <2>3, <1>6
<1>11. AnsweredKept(stored.pending, pendingPuts)'
  <2> SUFFICES ASSUME NEW d \in Requests, Answered(call'[d]), call'[d].nonce > mined
               PROVE  /\ Has(pending', call'[d]) /\ Has(db, call'[d])
                      /\ \A i \in 1 .. len + 1 : Has(pendingPuts'[i].value, call'[d])
    BY <1>6 DEF AnsweredKept
  <2>1. d # c /\ d \in Calls
    BY <1>4, <1>5 DEF Answered, Calls
  <2>2. call'[d] = call[d] /\ call[d] \in CallInfo
    BY <2>1, <1>1, <1>5
  <2>3. /\ Has(pending, call[d]) /\ Has(db, call[d])
        /\ \A i \in 1 .. len : Has(puts[i].value, call[d])
    BY <2>2, <1>6 DEF NoncesKept, AnsweredKept
  <2>4. Has(pending', call[d])
    BY <2>2, <2>3
  <2> QED
    BY <2>2, <2>3, <2>4, <1>6, <1>7
<1>12. AssignedKept(pendingPuts)'
  <2> SUFFICES ASSUME NEW d \in Requests, call'[d].at = "assigning", call'[d].nonce > mined
               PROVE  /\ Has(pending', call'[d])
                      /\ \A i, j \in 1 .. len + 1 :
                           pendingPuts'[i].by = d /\ i <= j => Has(pendingPuts'[j].value, call'[d])
    BY <1>6 DEF AssignedKept
  <2>1. CASE d = c
    <3>2. Has(pending', new)
      BY <2>1, <1>5
    <3>3. \A i \in 1 .. len : pendingPuts'[i].by # c
      BY <1>6
    <3>4. \A i, j \in 1 .. len + 1 : pendingPuts'[i].by = c /\ i <= j => j = len + 1
      <4> SUFFICES ASSUME NEW i \in 1 .. len + 1, NEW j \in 1 .. len + 1,
                          pendingPuts'[i].by = c, i <= j
                   PROVE  j = len + 1
        OBVIOUS
      <4>1. i \notin 1 .. len
        BY <3>3
      <4> QED
        BY <4>1, <1>6
    <3> QED
      BY <2>1, <3>2, <3>4, <1>5, <1>6, <1>7
  <2>2. CASE d # c
    <3>1. call'[d] = call[d] /\ call[d] \in CallInfo
      BY <2>2, <1>1, <1>5 DEF Calls
    <3>2. /\ Has(pending, call[d])
          /\ \A i, j \in 1 .. len : puts[i].by = d /\ i <= j => Has(puts[j].value, call[d])
      BY <3>1, <1>6 DEF NoncesKept, AssignedKept
    <3>3. Has(pending', call[d])
      BY <2>2, <3>1, <3>2
    <3> QED
      BY <2>2, <3>1, <3>2, <3>3, <1>6, <1>7
  <2> QED
    BY <2>1, <2>2
<1> QED
  BY <1>6, <1>9, <1>10, <1>11, <1>12 DEF NoncesKept

LEMMA AllocationKeeps ==
  ASSUME TypeOK, NoSharedNonce,
         NEW db \in Seq(PendingInfo), NEW puts \in PutsType, NoncesKept(db, puts),
         pending = <<>> => leading \in NonceInfo /\ leading.nonce <= mined,
         \A d \in Requests : call[d].until # Unset => Given(call[d]),
         NEW c \in Requests, NEW r \in CallInfo, ~ Given(call[c]),
         \A i \in DOMAIN puts : puts[i].by # c,
         GetNextNonce(c, r, puts), now' = now, mined' = mined, stored'.pending = db
  PROVE  /\ NoncesKept(stored.pending, pendingPuts)'
         /\ NoSharedNonce'
         /\ pending' \in Seq(PendingInfo) /\ pendingPuts' \in PutsType
         /\ call'[c].at = "assigning" /\ call'[c].op = r.op /\ call'[c].seen = Unset
         /\ call'[c].until = now + PendingTTL
         /\ call' \in [Calls -> CallInfo]
         /\ \A d \in Calls \ {c} : call'[d] = call[d]
         /\ \A d \in Requests \ {c} : Holds(d) => call[d].nonce # call'[c].nonce
<1> c \in Calls
  BY DEF Calls
<1>1. /\ pending \in Seq(PendingInfo) /\ now \in Nat /\ mined \in Int /\ mined >= -1
      /\ PendingTTL \in Nat /\ call \in [Calls -> CallInfo]
  BY NonceAssumption DEF TypeOK, Nonces, Unset, CallInfo
<1>2. Sound(pending)
  BY DEF NoncesKept, ListsSound
<1> DEFINE Effect(n, m) ==
           /\ pending' \in Seq(PendingInfo) /\ Sound(pending)'
           /\ \A x \in CallInfo : Has(pending, x) => Has(pending', x)
           /\ \A x \in CallInfo : x.nonce = n /\ x.until <= now + PendingTTL
                                    => Has(pending', x)
           /\ \A x \in CallInfo : x.nonce = n /\ Has(pending, x) => x.until < now
           /\ call' = [call EXCEPT ![c] =
                [r EXCEPT !.at = "assigning", !.since = 0, !.seen = Unset,
                          !.nonce = m, !.until = now + PendingTTL]]
           /\ pendingPuts' = Append(puts, [by |-> c, value |-> pending'])
<1>3a. PICK n \in Nat : \E m \in {n, Unset} : Effect(n, m)
  BY <1>2, NextNonce
<1>3b. PICK m \in {n, Unset} : Effect(n, m)
  BY <1>3a
<1>3. Effect(n, m)
  BY <1>3b
<1> DEFINE new == [r EXCEPT !.at = "assigning", !.since = 0, !.seen = Unset,
                            !.nonce = m, !.until = now + PendingTTL]
           put == [by |-> c, value |-> pending']
           len == Len(puts)
<1>4. /\ new \in CallInfo /\ new.at = "assigning" /\ new.nonce = m /\ new.op = r.op
      /\ new.until = now + PendingTTL /\ new.seen = Unset
  <2>1. m \in Nonces /\ now + PendingTTL \in Nonces /\ Unset \in Nonces
        /\ "assigning" \in AtDatabase
    BY <1>1 DEF Nonces, AtDatabase
  <2>2. new \in CallInfo
    BY <2>1 DEF CallInfo
  <2> QED
    BY <2>2 DEF CallInfo
<1>5. /\ call' \in [Calls -> CallInfo]
      /\ call'[c] = new
      /\ \A d \in Calls \ {c} : call'[d] = call[d]
  BY <1>1, <1>3, <1>4
<1> HIDE DEF new
<1>6. NoncesKept(stored.pending, pendingPuts)' /\ pendingPuts' \in PutsType
  <2>1. \A x \in CallInfo : x.nonce > mined /\ Has(pending, x) => Has(pending', x)
    BY <1>3
  <2>2. new.nonce > mined => Has(pending', new)
    BY <1>1, <1>3, <1>4 DEF Unset
  <2>3. call' = [call EXCEPT ![c] = new]
    BY <1>3 DEF new
  <2>4. mined \in Nonces /\ new.at \in {"filtering", "assigning"} /\ new \in CallInfo
    BY <1>4 DEF TypeOK
  <2>5. /\ pending' \in Seq(PendingInfo) /\ Sound(pending)'
        /\ pendingPuts' = Append(puts, [by |-> c, value |-> pending'])
    BY <1>3
  <2> HIDE DEF Effect
  <2> QED
    BY <2>1, <2>2, <2>3, <2>4, <2>5, <1>1, PutKeeps
<1>7. ASSUME NEW d \in Requests, d # c, Holds(d)
      PROVE  call[d].nonce # call'[c].nonce
  <2> SUFFICES ASSUME call'[c].nonce = call[d].nonce PROVE FALSE
    OBVIOUS
  <2>1. call[d] \in CallInfo /\ d \in Calls
    BY <1>1 DEF Calls
  <2>2. call[d].until >= now /\ call[d].nonce > mined
    BY <1>7 DEF Holds
  <2>3. Given(call[d])
    BY <2>1, <2>2, <1>1 DEF Unset, CallInfo, Nonces
  <2>4. Has(pending, call[d])
    BY <2>2, <2>3 DEF Given, NoncesKept, AnsweredKept, AssignedKept
  <2>5. call[d].nonce = n => call[d].until < now
    BY <2>1, <2>4, <1>3
  <2>6. call[d].nonce = n
    BY <2>2, <1>1, <1>4, <1>5 DEF Unset
  <2> QED
    BY <2>1, <2>2, <2>5, <2>6, <1>1 DEF CallInfo, Nonces, Unset
<1>8. NoSharedNonce'
  <2>1. \A d \in Requests \ {c} : (Holds(d)' <=> Holds(d)) /\ call'[d] = call[d]
    BY <1>5 DEF Holds, Calls
  <2> SUFFICES ASSUME NEW d \in Requests, NEW e \in Requests, d # e, Holds(d)', Holds(e)'
               PROVE  call'[d].nonce # call'[e].nonce
    BY DEF NoSharedNonce
  <2>2. CASE d = c
    BY <2>1, <2>2, <1>7
  <2>3. CASE e = c
    BY <2>1, <2>3, <1>7
  <2>4. CASE d # c /\ e # c
    BY <2>1, <2>4 DEF NoSharedNonce
  <2> QED
    BY <2>2, <2>3, <2>4
<1> QED
  BY <1>3, <1>4, <1>5, <1>6, <1>7, <1>8

-----------------------------------------------------------------------------
(* The other changes of a call, of the database and of the chain.          *)

(* What a write is.                                                        *)
LEMMA PutType ==
  ASSUME NEW puts \in PutsType, NEW i \in DOMAIN puts
  PROVE  puts[i].by \in Calls /\ puts[i].value \in Seq(PendingInfo)
<1>1. i \in 1 .. Len(puts)
  BY DEF PutsType
<1>2. puts[i] \in [by : Calls, value : Seq(PendingInfo)]
  BY <1>1, ElementOfSeq DEF PutsType
<1> QED
  BY <1>2

(* A list has a nonce for a call without expiry, or with the same one.     *)
LEMMA HasSame ==
  ASSUME NEW list \in Seq(PendingInfo), NEW x \in CallInfo, NEW r \in CallInfo,
         Has(list, x), r.nonce = x.nonce, r.until \in {Unset, x.until}
  PROVE  Has(list, r)
<1>1. PICK i \in DOMAIN list : list[i].nonce = x.nonce /\ list[i].expiry >= x.until
  BY DEF Has
<1>2. list[i] \in PendingInfo
  BY <1>1
<1> QED
  BY <1>1, <1>2 DEF Has, PendingInfo, Unset

(* A call that is given nothing new holds nothing new.                     *)
LEMMA HoldersStay ==
  ASSUME NoSharedNonce, call \in [Calls -> CallInfo], now \in Nat, now' = now, mined' = mined,
         NEW c \in Calls, NEW r \in CallInfo, call' = [call EXCEPT ![c] = r],
         r.until = Unset \/ (r.nonce = call[c].nonce /\ r.until = call[c].until)
  PROVE  NoSharedNonce'
<1>1. \A d \in Requests : Holds(d)' => Holds(d) /\ call'[d].nonce = call[d].nonce
  BY DEF Holds, Calls, Unset
<1> QED
  BY <1>1 DEF NoSharedNonce

(* A call moves on and has no write of the pending nonces under way.       *)
MovesOn(db, puts, c, r) ==
  /\ NoncesKept(db, puts) /\ NoSharedNonce
  /\ call \in [Calls -> CallInfo] /\ now \in Nat
  /\ now' = now /\ mined' = mined /\ pending' = pending
  /\ stored'.pending = db /\ pendingPuts' = puts
  /\ call' = [call EXCEPT ![c] = r]
  /\ \A i \in DOMAIN puts : puts[i].by # c
  /\ r.at # "assigning"
  /\ c \in Requests /\ Answered(r) /\ r.nonce > mined =>
       /\ Has(pending, r) /\ Has(db, r)
       /\ \A i \in DOMAIN puts : Has(puts[i].value, r)
  /\ r.until = Unset \/ (r.nonce = call[c].nonce /\ r.until = call[c].until)

LEMMA CallStepKeeps ==
  ASSUME NEW db, NEW puts \in PutsType, NEW c \in Calls, NEW r \in CallInfo,
         MovesOn(db, puts, c, r)
  PROVE  NoncesKept(stored.pending, pendingPuts)' /\ NoSharedNonce'
<1> USE DEF MovesOn
<1>1. call'[c] = r /\ \A d \in Calls \ {c} : call'[d] = call[d]
  OBVIOUS
<1>2. ListsSound(stored.pending, pendingPuts)'
  BY DEF NoncesKept, ListsSound, Sound, Consecutive, Begins
<1>3. \A i \in DOMAIN puts : puts[i].by \in Calls
  BY PutType
<1>4. PutsOwned(pendingPuts)'
  <2> SUFFICES ASSUME NEW i \in DOMAIN puts
               PROVE  /\ call'[puts[i].by].at \in {"filtering", "assigning"}
                      /\ \A j \in DOMAIN puts : puts[i].by = puts[j].by => i = j
    BY DEF PutsOwned
  <2>1. call'[puts[i].by] = call[puts[i].by]
    BY <1>1, <1>3
  <2> QED
    BY <2>1 DEF NoncesKept, PutsOwned
<1>5. AnsweredKept(stored.pending, pendingPuts)'
  <2> SUFFICES ASSUME NEW d \in Requests, Answered(call'[d]), call'[d].nonce > mined
               PROVE  /\ Has(pending, call'[d]) /\ Has(db, call'[d])
                      /\ \A i \in DOMAIN puts : Has(puts[i].value, call'[d])
    BY DEF AnsweredKept
  <2>1. CASE d = c
    BY <2>1, <1>1
  <2>2. CASE d # c
    BY <2>2, <1>1 DEF NoncesKept, AnsweredKept, Calls
  <2> QED
    BY <2>1, <2>2
<1>6. AssignedKept(pendingPuts)'
  <2> SUFFICES ASSUME NEW d \in Requests, call'[d].at = "assigning", call'[d].nonce > mined
               PROVE  /\ Has(pending, call'[d])
                      /\ \A i, j \in DOMAIN puts :
                           puts[i].by = d /\ i <= j => Has(puts[j].value, call'[d])
    BY DEF AssignedKept
  <2>1. call'[d] = call[d]
    BY <1>1 DEF Calls
  <2> QED
    BY <2>1 DEF NoncesKept, AssignedKept
<1>7. NoSharedNonce'
  BY HoldersStay
<1> QED
  BY <1>2, <1>4, <1>5, <1>6, <1>7 DEF NoncesKept

(* The oldest write reaches the database.                                  *)
LEMMA HeadSaved ==
  ASSUME NEW db, pendingPuts \in PutsType, pendingPuts # <<>>, NoncesKept(db, pendingPuts)
  PROVE  LET put == Head(pendingPuts)
             rest == Tail(pendingPuts)
         IN /\ put.value \in Seq(PendingInfo) /\ put.by \in Calls /\ rest \in PutsType
            /\ call[put.by].at \in {"filtering", "assigning"}
            /\ NoncesKept(put.value, rest)
            /\ \A i \in DOMAIN rest : rest[i].by # put.by
            /\ put.by \in Requests /\ call[put.by].at = "assigning"
                 /\ call[put.by].nonce > mined =>
                 /\ Has(pending, call[put.by]) /\ Has(put.value, call[put.by])
                 /\ \A i \in DOMAIN rest : Has(rest[i].value, call[put.by])
<1> DEFINE put == Head(pendingPuts)
           rest == Tail(pendingPuts)
           len == Len(pendingPuts)
<1>1. /\ len \in Nat /\ len >= 1 /\ DOMAIN pendingPuts = 1 .. len
      /\ put = pendingPuts[1] /\ put.by \in Calls /\ put.value \in Seq(PendingInfo)
      /\ rest \in PutsType
      /\ DOMAIN rest = 1 .. len - 1
      /\ \A i \in 1 .. len - 1 : rest[i] = pendingPuts[i + 1]
  <2>1. /\ len \in Nat /\ DOMAIN pendingPuts = 1 .. len /\ put = pendingPuts[1]
        /\ len >= 1
    BY DEF PutsType
  <2>2. put.by \in Calls /\ put.value \in Seq(PendingInfo)
    BY <2>1, PutType
  <2>3. rest \in PutsType /\ Len(rest) = len - 1
    BY HeadTailProperties DEF PutsType
  <2>4. DOMAIN rest = 1 .. len - 1 /\ \A i \in 1 .. len - 1 : rest[i] = pendingPuts[i + 1]
    BY <2>3, HeadTailProperties DEF PutsType
  <2> QED
    BY <2>1, <2>2, <2>3, <2>4
<1> HIDE DEF put, rest, len
<1>2. \A i \in 1 .. len - 1 : i + 1 \in 1 .. len /\ 1 <= i + 1 /\ i + 1 # 1
  BY <1>1
<1>3. 1 \in 1 .. len
  BY <1>1
<1>4. ListsSound(put.value, rest)
  BY <1>1, <1>2, <1>3 DEF NoncesKept, ListsSound
<1>5. PutsOwned(rest)
  <2> SUFFICES ASSUME NEW i \in 1 .. len - 1
               PROVE  /\ call[rest[i].by].at \in {"filtering", "assigning"}
                      /\ \A j \in 1 .. len - 1 : rest[i].by = rest[j].by => i = j
    BY <1>1 DEF PutsOwned
  <2>1. i + 1 \in 1 .. len
    BY <1>2
  <2>2. /\ call[pendingPuts[i + 1].by].at \in {"filtering", "assigning"}
        /\ \A j \in 1 .. len : pendingPuts[i + 1].by = pendingPuts[j].by => i + 1 = j
    BY <2>1, <1>1 DEF NoncesKept, PutsOwned
  <2>3. \A j \in 1 .. len - 1 : rest[i].by = rest[j].by => i + 1 = j + 1
    BY <2>2, <1>1, <1>2
  <2> QED
    BY <2>2, <2>3, <1>1
<1>6. AnsweredKept(put.value, rest)
  BY <1>1, <1>2, <1>3 DEF NoncesKept, AnsweredKept
<1>7. AssignedKept(rest)
  <2> SUFFICES ASSUME NEW c \in Requests, call[c].at = "assigning", call[c].nonce > mined
               PROVE  /\ Has(pending, call[c])
                      /\ \A i, j \in 1 .. len - 1 :
                           rest[i].by = c /\ i <= j => Has(rest[j].value, call[c])
    BY <1>1 DEF AssignedKept
  <2>1. /\ Has(pending, call[c])
        /\ \A i, j \in 1 .. len :
             pendingPuts[i].by = c /\ i <= j => Has(pendingPuts[j].value, call[c])
    BY <1>1 DEF NoncesKept, AssignedKept
  <2>2. \A i, j \in 1 .. len - 1 : i <= j => i + 1 <= j + 1
    BY <1>1
  <2> QED
    BY <2>1, <2>2, <1>1, <1>2
<1>8. \A i \in 1 .. len - 1 : rest[i].by # put.by
  BY <1>1, <1>2, <1>3 DEF NoncesKept, PutsOwned
<1>9. ASSUME put.by \in Requests, call[put.by].at = "assigning", call[put.by].nonce > mined
      PROVE  /\ Has(pending, call[put.by]) /\ Has(put.value, call[put.by])
             /\ \A i \in 1 .. len - 1 : Has(rest[i].value, call[put.by])
  <2>1. /\ Has(pending, call[put.by])
        /\ \A i, j \in 1 .. len :
             pendingPuts[i].by = put.by /\ i <= j => Has(pendingPuts[j].value, call[put.by])
    BY <1>1, <1>9 DEF NoncesKept, AssignedKept
  <2>2. \A j \in 1 .. len : Has(pendingPuts[j].value, call[put.by])
    BY <2>1, <1>1, <1>3
  <2> QED
    BY <2>1, <2>2, <1>1, <1>2, <1>3
<1>10. call[put.by].at \in {"filtering", "assigning"}
  BY <1>1, <1>3 DEF NoncesKept, PutsOwned
<1> QED
  BY <1>1, <1>4, <1>5, <1>6, <1>7, <1>8, <1>9, <1>10 DEF NoncesKept, put, rest

(* Time passes, or a block is mined.                                       *)
LEMMA TimeKeeps ==
  ASSUME TypeOK, NoncesKept(stored.pending, pendingPuts), NoSharedNonce,
         UNCHANGED <<pending, call, stored, pendingPuts>>,
         now' \in Nat, now' >= now, mined' \in Nonces, mined' >= mined
  PROVE  NoncesKept(stored.pending, pendingPuts)' /\ NoSharedNonce'
<1>1. /\ pending \in Seq(PendingInfo) /\ stored.pending \in Seq(PendingInfo)
      /\ pendingPuts \in PutsType /\ mined \in Int /\ mined' \in Int
      /\ now \in Int /\ call \in [Calls -> CallInfo]
  BY DEF TypeOK, PutsType, Nonces, Unset, CallInfo
<1>2. \A c \in Requests : call[c] \in CallInfo /\ call[c].nonce \in Int /\ call[c].until \in Int
  <2> SUFFICES ASSUME NEW c \in Requests PROVE call[c] \in CallInfo
    BY DEF CallInfo, Nonces, Unset
  <2> QED
    BY <1>1 DEF Calls
<1>3. \A c \in Requests : call[c].nonce > mined' => call[c].nonce > mined
  BY <1>1, <1>2
<1>4. ListsSound(stored.pending, pendingPuts)'
  <2>1. Sound(pending)' /\ Sound(stored.pending)'
    <3>1. Sound(pending)'
      BY <1>1, SoundStays DEF NoncesKept, ListsSound
    <3> DEFINE db == stored.pending
    <3>2. Sound(db)'
      <4>1. Sound(db) /\ db \in Seq(PendingInfo)
        BY <1>1 DEF NoncesKept, ListsSound
      <4> QED
        BY <4>1, <1>1, SoundStays DEF Sound, Consecutive, Begins
    <3> QED
      BY <3>1, <3>2
  <2>2. ASSUME NEW i \in DOMAIN pendingPuts
        PROVE  Sound(pendingPuts[i].value)'
    <3> DEFINE list == pendingPuts[i].value
    <3>2. list \in Seq(PendingInfo) /\ Sound(list)
      BY <1>1, PutType DEF NoncesKept, ListsSound
    <3> QED
      BY <3>2, <1>1, SoundStays DEF Sound, Consecutive, Begins
  <2> QED
    BY <2>1, <2>2 DEF ListsSound
<1>5. PutsOwned(pendingPuts)'
  BY DEF NoncesKept, PutsOwned
<1>6. AnsweredKept(stored.pending, pendingPuts)'
  BY <1>3 DEF NoncesKept, AnsweredKept
<1>7. AssignedKept(pendingPuts)'
  BY <1>3 DEF NoncesKept, AssignedKept
<1>8. NoSharedNonce'
  <2>1. \A c \in Requests : Holds(c)' => Holds(c)
    BY <1>1, <1>2 DEF Holds
  <2> QED
    BY <2>1 DEF NoSharedNonce
<1> QED
  BY <1>4, <1>5, <1>6, <1>7, <1>8 DEF NoncesKept

-----------------------------------------------------------------------------
(* Steps of the calls.                                                     *)

LeadingType == NonceInfo \cup {NoLeading}
LeadingPutsType == Seq([by : Calls, value : NonceInfo])

(* The record of a call that goes on, and of one that asks the node.       *)
Gone(r, at) ==
  [r EXCEPT !.at = at, !.since = 0, !.seen = Unset,
            !.op = IF at \in {"done", "failed"} THEN "none" ELSE @]
Asked(r, at) == [r EXCEPT !.at = at, !.since = now, !.seen = mined]

LEMMA GoneFields ==
  ASSUME NEW r \in CallInfo, NEW at \in {"done", "failed"} \cup AtNode \cup AtDatabase
  PROVE  LET g == Gone(r, at)
         IN /\ g \in CallInfo /\ g.at = at /\ g.seen = Unset
            /\ g.nonce = r.nonce /\ g.until = r.until
            /\ g.op = IF at \in {"done", "failed"} THEN "none" ELSE r.op
<1> DEFINE g == Gone(r, at)
<1>1. g \in CallInfo
  BY DEF Gone, CallInfo, Nonces, Unset
<1> QED
  BY <1>1 DEF Gone, CallInfo

LEMMA AskedFields ==
  ASSUME NEW r \in CallInfo, NEW at \in AtNode, now \in Nat, mined \in Nonces
  PROVE  LET g == Asked(r, at)
         IN /\ g \in CallInfo /\ g.at = at /\ g.seen = mined
            /\ g.nonce = r.nonce /\ g.until = r.until /\ g.op = r.op
<1> DEFINE g == Asked(r, at)
<1>1. g \in CallInfo
  BY DEF Asked, CallInfo
<1> QED
  BY <1>1 DEF Asked, CallInfo

(* A new call.                                                             *)
LEMMA NewFields ==
  ASSUME NEW op \in Operations \cup {"none"}, NEW n \in Nonces
  PROVE  LET g == NewCall(op, n)
         IN /\ g \in CallInfo /\ g.op = op /\ g.at = "idle" /\ g.seen = Unset
            /\ g.nonce = n /\ g.until = Unset
  BY DEF NewCall, CallInfo, Nonces, Unset

(* What the invariant says of the types, and of what getNextNonce needs.   *)
LEMMA StateFacts ==
  ASSUME IInv
  PROVE  /\ call \in [Calls -> CallInfo] /\ now \in Nat /\ mined \in Nonces
         /\ mined \in Int /\ mined >= -1
         /\ pending \in Seq(PendingInfo)
         /\ stored.pending \in Seq(PendingInfo) /\ stored.leading \in LeadingType
         /\ pendingPuts \in PutsType /\ leadingPuts \in LeadingPutsType
         /\ leading \in LeadingType
         /\ \A d \in Requests : call[d].until # Unset => Given(call[d])
         /\ pending = <<>> /\ leading # NoLeading =>
              leading \in NonceInfo /\ leading.nonce <= mined
<1>1. TypeOK
  BY DEF IInv
<1>2. /\ call \in [Calls -> CallInfo] /\ now \in Nat /\ mined \in Nonces
      /\ mined \in Int /\ mined >= -1
      /\ pending \in Seq(PendingInfo)
      /\ stored.pending \in Seq(PendingInfo) /\ stored.leading \in LeadingType
      /\ pendingPuts \in PutsType /\ leadingPuts \in LeadingPutsType
      /\ leading \in LeadingType
  BY <1>1 DEF TypeOK, CallInfo, PutsType, LeadingPutsType, LeadingType, Nonces, Unset
<1>3. ASSUME NEW d \in Requests, call[d].until # Unset
      PROVE  Given(call[d])
  <2>1. call[d] \in CallInfo /\ CallSound(call[d], mined, leading)
    BY <1>2 DEF IInv, Calls
  <2> QED
    BY <2>1, <1>3 DEF CallSound, Given, Answered, CallInfo, AtNode, AtDatabase
<1>4. ASSUME pending = <<>>, leading # NoLeading
      PROVE  leading \in NonceInfo /\ leading.nonce <= mined
  <2>1. leading \in NonceInfo /\ leading.nonce \in Int
    BY <1>2, <1>4 DEF LeadingType, NonceInfo, Nonces, Unset
  <2>2. ASSUME NEW c \in Requests, Answered(call[c]), call[c].nonce = leading.nonce,
               leading.nonce > mined
        PROVE  FALSE
    <3>1. Has(pending, call[c])
      BY <2>2 DEF IInv, NoncesKept, AnsweredKept
    <3> QED
      BY <3>1, <1>4 DEF Has
  <2> QED
    BY <2>1, <2>2, <1>2, <1>4 DEF IInv, LeadingSound, Led
<1> QED
  BY <1>2, <1>3, <1>4

(* One call moves; what was answered stays answered.                       *)
LEMMA CallMoves ==
  ASSUME IInv, NEW c \in Calls, NEW r \in CallInfo, call' = [call EXCEPT ![c] = r],
         mined' = mined, leading # NoLeading => leading' # NoLeading,
         CallSound(r, mined, leading'),
         c \in Requests /\ Answered(call[c]) => Answered(r) /\ r.nonce = call[c].nonce,
         c = Boot => /\ r.at \in {"idle", "counting", "leading", "filtering", "done", "failed"}
                     /\ r.op \in {"boot", "none"}
  PROVE  /\ call' \in [Calls -> CallInfo]
         /\ \A d \in Calls : CallSound(call'[d], mined', leading')
         /\ BootSound'
         /\ \A info : Led(info, mined, call) => Led(info, mined', call')
<1>1. call \in [Calls -> CallInfo] /\ Boot \in Calls
  BY StateFacts DEF Calls
<1>2. /\ call' \in [Calls -> CallInfo] /\ call'[c] = r
      /\ \A d \in Calls \ {c} : call'[d] = call[d]
  BY <1>1
<1>3. ASSUME NEW d \in Calls
      PROVE  CallSound(call'[d], mined', leading')
  <2>1. CASE d = c
    BY <2>1, <1>2
  <2>2. CASE d # c
    <3>1. CallSound(call[d], mined, leading)
      BY DEF IInv
    <3> QED
      BY <3>1, <2>2, <1>2 DEF CallSound
  <2> QED
    BY <2>1, <2>2
<1>4. BootSound'
  BY <1>1, <1>2 DEF IInv, BootSound
<1>5. \A d \in Requests :
        Answered(call[d]) => Answered(call'[d]) /\ call'[d].nonce = call[d].nonce
  BY <1>2 DEF Calls
<1>6. \A info : Led(info, mined, call) => Led(info, mined', call')
  BY <1>5 DEF Led
<1> QED
  BY <1>2, <1>3, <1>4, <1>6

(* One call moves and no list changes: nothing is given.                   *)
LEMMA QuietStep ==
  ASSUME IInv, NEW c \in Calls, NEW r \in CallInfo, call' = [call EXCEPT ![c] = r],
         UNCHANGED <<now, mined, pending, stored, pendingPuts>>,
         leading # NoLeading => leading' # NoLeading,
         call[c].at \notin {"filtering", "assigning"}, r.at # "assigning",
         CallSound(r, mined, leading'),
         c \in Requests /\ Answered(call[c]) => Answered(r) /\ r.nonce = call[c].nonce,
         c = Boot => /\ r.at \in {"idle", "counting", "leading", "filtering", "done", "failed"}
                     /\ r.op \in {"boot", "none"},
         c \in Requests /\ Answered(r) /\ r.nonce > mined =>
           \E d \in Requests : /\ Answered(call[d]) /\ call[d].nonce = r.nonce
                               /\ r.until \in {Unset, call[d].until},
         r.until = Unset \/ (r.nonce = call[c].nonce /\ r.until = call[c].until)
  PROVE  /\ NoncesKept(stored.pending, pendingPuts)' /\ NoSharedNonce'
         /\ call' \in [Calls -> CallInfo]
         /\ \A d \in Calls : CallSound(call'[d], mined', leading')
         /\ BootSound'
         /\ \A info : Led(info, mined, call) => Led(info, mined', call')
<1> DEFINE db == stored.pending
<1>1. /\ call \in [Calls -> CallInfo] /\ now \in Nat /\ pending \in Seq(PendingInfo)
      /\ db \in Seq(PendingInfo) /\ pendingPuts \in PutsType
  BY StateFacts
<1>2. NoncesKept(db, pendingPuts) /\ NoSharedNonce
  BY DEF IInv
<1>3. \A i \in DOMAIN pendingPuts : pendingPuts[i].by # c
  BY <1>2 DEF NoncesKept, PutsOwned
<1>4. ASSUME c \in Requests, Answered(r), r.nonce > mined
      PROVE  /\ Has(pending, r) /\ Has(db, r)
             /\ \A i \in DOMAIN pendingPuts : Has(pendingPuts[i].value, r)
  <2>1. PICK d \in Requests : /\ Answered(call[d]) /\ call[d].nonce = r.nonce
                              /\ r.until \in {Unset, call[d].until}
    BY <1>4
  <2>2. call[d] \in CallInfo
    BY <1>1 DEF Calls
  <2>3. /\ Has(pending, call[d]) /\ Has(db, call[d])
        /\ \A i \in DOMAIN pendingPuts : Has(pendingPuts[i].value, call[d])
    BY <2>1, <1>2, <1>4 DEF NoncesKept, AnsweredKept
  <2>4. \A i \in DOMAIN pendingPuts : pendingPuts[i].value \in Seq(PendingInfo)
    BY <1>1, PutType
  <2> HIDE DEF db
  <2> QED
    BY <2>1, <2>2, <2>3, <2>4, <1>1, HasSame
<1>5. /\ stored'.pending = db /\ now' = now /\ mined' = mined
      /\ pending' = pending /\ pendingPuts' = pendingPuts
  OBVIOUS
<1>7. r.at # "assigning" /\ (r.until = Unset \/ (r.nonce = call[c].nonce /\ r.until = call[c].until))
  OBVIOUS
<1> HIDE DEF db
<1>6. MovesOn(db, pendingPuts, c, r)
  BY <1>1, <1>2, <1>3, <1>4, <1>5, <1>7 DEF MovesOn
<1>8. NoncesKept(stored.pending, pendingPuts)' /\ NoSharedNonce'
  BY <1>1, <1>6, CallStepKeeps
<1> QED
  BY <1>8, CallMoves

(* The leading nonce and its writes stay as they are.                      *)
LEMMA LeadingStays ==
  ASSUME LeadingSound, \A info : Led(info, mined, call) => Led(info, mined', call'),
         leading' = leading, stored'.leading = stored.leading, leadingPuts' = leadingPuts
  PROVE  LeadingSound'
  BY DEF LeadingSound

(* A leading nonce is set and written.                                     *)
LEMMA LeadingSet ==
  ASSUME LeadingSound, \A info : Led(info, mined, call) => Led(info, mined', call'),
         leadingPuts \in LeadingPutsType, NEW c \in Calls, NEW info \in NonceInfo,
         Led(info, mined', call'), leading' = info, stored'.leading = stored.leading,
         leadingPuts' = Append(leadingPuts, [by |-> c, value |-> info])
  PROVE  LeadingSound' /\ leadingPuts' \in LeadingPutsType
<1> DEFINE put == [by |-> c, value |-> info]
           len == Len(leadingPuts)
<1>1. put \in [by : Calls, value : NonceInfo] /\ put.value = info
  OBVIOUS
<1>2. /\ leadingPuts' \in LeadingPutsType
      /\ len \in Nat /\ DOMAIN leadingPuts = 1 .. len /\ DOMAIN leadingPuts' = 1 .. len + 1
      /\ \A i \in 1 .. len : leadingPuts'[i] = leadingPuts[i]
      /\ leadingPuts'[len + 1] = put
  BY <1>1 DEF LeadingPutsType
<1> HIDE DEF put, len
<1>3. \A i \in 1 .. len + 1 : Led(leadingPuts'[i].value, mined', call')
  <2> SUFFICES ASSUME NEW i \in 1 .. len + 1 PROVE Led(leadingPuts'[i].value, mined', call')
    OBVIOUS
  <2>1. CASE i \in 1 .. len
    BY <2>1, <1>2 DEF LeadingSound
  <2>2. CASE i = len + 1
    BY <2>2, <1>1, <1>2
  <2> QED
    BY <2>1, <2>2, <1>2
<1> QED
  BY <1>2, <1>3 DEF LeadingSound

(* The oldest write of a leading nonce reaches the database.               *)
LEMMA LeadingWritten ==
  ASSUME LeadingSound, \A info : Led(info, mined, call) => Led(info, mined', call'),
         leadingPuts \in LeadingPutsType, leadingPuts # <<>>, leading' = leading,
         stored'.leading = Head(leadingPuts).value, leadingPuts' = Tail(leadingPuts)
  PROVE  /\ LeadingSound' /\ leadingPuts' \in LeadingPutsType
         /\ stored'.leading \in LeadingType
<1> DEFINE len == Len(leadingPuts)
           put == Head(leadingPuts)
<1>1. /\ leadingPuts' \in LeadingPutsType
      /\ len \in Nat /\ len >= 1 /\ DOMAIN leadingPuts = 1 .. len
      /\ put = leadingPuts[1]
      /\ DOMAIN leadingPuts' = 1 .. len - 1
      /\ \A i \in 1 .. len - 1 : leadingPuts'[i] = leadingPuts[i + 1]
  <2>1. /\ len \in Nat /\ len >= 1 /\ DOMAIN leadingPuts = 1 .. len /\ put = leadingPuts[1]
    BY DEF LeadingPutsType
  <2>2. leadingPuts' \in LeadingPutsType /\ Len(leadingPuts') = len - 1
    BY HeadTailProperties DEF LeadingPutsType
  <2>3. DOMAIN leadingPuts' = 1 .. len - 1
        /\ \A i \in 1 .. len - 1 : leadingPuts'[i] = leadingPuts[i + 1]
    BY <2>2, HeadTailProperties DEF LeadingPutsType
  <2> QED
    BY <2>1, <2>2, <2>3
<1>2. put \in [by : Calls, value : NonceInfo]
  <2>1. 1 \in 1 .. Len(leadingPuts)
    BY <1>1
  <2> QED
    <3>1. leadingPuts[1] \in [by : Calls, value : NonceInfo]
      BY <2>1, ElementOfSeq DEF LeadingPutsType
    <3> QED
      BY <1>1, <3>1
<1> HIDE DEF len
<1>3. \A i \in 1 .. len - 1 : i + 1 \in 1 .. len
  BY <1>1
<1>4. Led(stored'.leading, mined', call')
  BY <1>1 DEF LeadingSound
<1>5. \A i \in 1 .. len - 1 : Led(leadingPuts'[i].value, mined', call')
  BY <1>1, <1>3 DEF LeadingSound
<1>6. put.value \in NonceInfo
  BY <1>2
<1> QED
  BY <1>1, <1>4, <1>5, <1>6 DEF LeadingSound, LeadingType

(* The types, from those of the parts.                                     *)
LEMMA Types ==
  ASSUME NonceAssumption
  PROVE  TypeOK <=>
           /\ now \in 0 .. MaxTime /\ leading \in LeadingType /\ pending \in Seq(PendingInfo)
           /\ initialized \in BOOLEAN /\ call \in [Calls -> CallInfo]
           /\ stored \in [leading : LeadingType, pending : Seq(PendingInfo)]
           /\ leadingPuts \in LeadingPutsType /\ pendingPuts \in PutsType
           /\ mined \in Nonces /\ mempool \subseteq Nat /\ restarts \in 0 .. MaxRestarts
  BY DEF TypeOK, LeadingType, CallInfo, LeadingPutsType, PutsType

-----------------------------------------------------------------------------
(* Each action keeps the invariant.                                        *)

LEMMA ResendKeeps ==
  ASSUME IInv, NEW c \in Requests, Resend(c)
  PROVE  IInv'
<1>1. c \in Calls /\ c # Boot
  BY NonceAssumption DEF Calls
<1>2. PICK n \in Known : call' = [call EXCEPT ![c] = Asked(NewCall("resend", n), "sending")]
  BY DEF Resend, Ask, Asked
<1> DEFINE r == Asked(NewCall("resend", n), "sending")
<1>3. PICK d \in Requests : Answered(call[d]) /\ call[d].nonce = n
  BY <1>2 DEF Known
<1>4. n \in Nonces
  <2>1. call[d] \in CallInfo
    BY StateFacts DEF Calls
  <2> QED
    BY <2>1, <1>3 DEF CallInfo
<1>5. /\ r \in CallInfo /\ r.at = "sending" /\ r.seen = mined
      /\ r.nonce = n /\ r.until = Unset /\ r.op = "resend"
  <2>1. /\ NewCall("resend", n) \in CallInfo /\ NewCall("resend", n).nonce = n
        /\ NewCall("resend", n).until = Unset /\ NewCall("resend", n).op = "resend"
    BY <1>4, NewFields DEF Operations
  <2> QED
    BY <2>1, StateFacts, AskedFields DEF AtNode
<1> HIDE DEF r
<1>6. /\ call' = [call EXCEPT ![c] = r] /\ call[c].at = "idle"
      /\ UNCHANGED <<now, leading, pending, initialized, stored, leadingPuts, pendingPuts,
                     mined, mempool, restarts>>
  BY <1>2 DEF Resend, r, manager, database, chain
<1>7. CallSound(r, mined, leading')
  BY <1>5, <1>6, StateFacts DEF CallSound
<1>8. /\ NoncesKept(stored.pending, pendingPuts)' /\ NoSharedNonce'
      /\ call' \in [Calls -> CallInfo]
      /\ \A e \in Calls : CallSound(call'[e], mined', leading')
      /\ BootSound'
      /\ \A info : Led(info, mined, call) => Led(info, mined', call')
  BY <1>1, <1>3, <1>5, <1>6, <1>7, QuietStep DEF Answered
<1>9. LeadingSound'
  BY <1>6, <1>8, LeadingStays DEF IInv
<1>10. TypeOK'
  BY <1>6, <1>8 DEF IInv, TypeOK, CallInfo
<1> QED
  BY <1>8, <1>9, <1>10 DEF IInv

LEMMA MergeNonceKeeps ==
  ASSUME IInv, NEW c \in Calls, MergeNonce(c)
  PROVE  IInv'
<1>1. PICK count \in call[c].seen + 1 .. mined + 1 :
        LET info == [nonce |-> ExternalNonce(count), expiry |-> call[c].since + LocalTTL]
        IN /\ leading' = info
           /\ PutLeading(c, info)
           /\ call' = [call EXCEPT ![c].at = "leading", ![c].since = 0, ![c].seen = info.nonce]
  BY DEF MergeNonce
<1> DEFINE info == [nonce |-> ExternalNonce(count), expiry |-> call[c].since + LocalTTL]
           r == [call[c] EXCEPT !.at = "leading", !.since = 0, !.seen = count - 1]
<1>2. /\ call[c] \in CallInfo /\ CallSound(call[c], mined, leading)
      /\ call[c].at = "counting" /\ call[c].seen \in Int /\ call[c].seen >= -1 /\ mined \in Int
      /\ call \in [Calls -> CallInfo]
  <2>1. call[c] \in CallInfo
    BY StateFacts
  <2> QED
    BY <2>1, StateFacts DEF IInv, MergeNonce, CallInfo, Nonces, Unset
<1>3. count \in Nat /\ count - 1 \in Nonces /\ count - 1 <= mined
  BY <1>1, <1>2 DEF Nonces, Unset
<1>4. info \in NonceInfo /\ info.nonce = count - 1 /\ info # NoLeading
  BY <1>2, <1>3, NonceAssumption DEF NonceInfo, ExternalNonce, CallInfo
<1>5. /\ r \in CallInfo /\ r.at = "leading" /\ r.seen = count - 1
      /\ r.nonce = call[c].nonce /\ r.until = call[c].until /\ r.op = call[c].op
  <2>1. r \in CallInfo
    BY <1>2, <1>3 DEF CallInfo, AtDatabase
  <2> QED
    BY <1>2, <2>1 DEF CallInfo
<1>6. /\ call' = [call EXCEPT ![c] = r] /\ leading' = info
      /\ leadingPuts' = Append(leadingPuts, [by |-> c, value |-> info])
      /\ UNCHANGED <<now, pending, initialized, stored, pendingPuts, mined, mempool, restarts>>
  <2>1. call' = [call EXCEPT ![c].at = "leading", ![c].since = 0, ![c].seen = count - 1]
    BY <1>1 DEF ExternalNonce
  <2>2. call' = [call EXCEPT ![c] = r]
    BY <1>2, <2>1
  <2> QED
    BY <1>1, <2>2 DEF MergeNonce, PutLeading, chain
<1> HIDE DEF info, r
<1>7. CallSound(r, mined, leading')
  BY <1>2, <1>3, <1>4, <1>5, <1>6 DEF CallSound
<1>8. /\ NoncesKept(stored.pending, pendingPuts)' /\ NoSharedNonce'
      /\ call' \in [Calls -> CallInfo]
      /\ \A e \in Calls : CallSound(call'[e], mined', leading')
      /\ BootSound'
      /\ \A any : Led(any, mined, call) => Led(any, mined', call')
  <2>1. /\ ~ Answered(call[c]) /\ ~ Answered(r)
        /\ c = Boot => r.op \in {"boot", "none"}
    BY <1>2, <1>5 DEF Answered, IInv, BootSound
  <2> QED
    BY <1>2, <1>4, <1>5, <1>6, <1>7, <2>1, QuietStep
<1>9. LeadingSound' /\ leadingPuts' \in LeadingPutsType
  <2>1. Led(info, mined', call')
    BY <1>3, <1>4, <1>6 DEF Led
  <2> QED
    BY <1>4, <1>6, <1>8, <2>1, StateFacts, LeadingSet DEF IInv
<1>10. TypeOK'
  BY <1>4, <1>6, <1>8, <1>9 DEF IInv, TypeOK, CallInfo, LeadingPutsType
<1> QED
  BY <1>8, <1>9, <1>10 DEF IInv

LEMMA GetNonceFromNodeKeeps ==
  ASSUME IInv, NEW c \in Calls, GetNonceFromNode(c)
  PROVE  IInv'
<1>1. PICK count \in call[c].seen + 1 .. mined + 1 :
        LET info == [nonce |-> ExternalNonce(count), expiry |-> now + PendingTTL]
        IN leading' = info /\ PutLeading(c, info)
  BY DEF GetNonceFromNode
<1> DEFINE info == [nonce |-> ExternalNonce(count), expiry |-> now + PendingTTL]
           r == Gone(call[c], "committing")
<1>2. /\ call[c] \in CallInfo /\ CallSound(call[c], mined, leading)
      /\ call[c].at = "reading" /\ call[c].seen \in Int /\ call[c].seen >= -1 /\ mined \in Int
      /\ call \in [Calls -> CallInfo] /\ now \in Nat /\ mined >= -1
  <2>1. call[c] \in CallInfo
    BY StateFacts
  <2> QED
    BY <2>1, StateFacts DEF IInv, GetNonceFromNode, CallInfo, Nonces, Unset
<1>3. count \in Nat /\ count - 1 \in Nonces /\ count - 1 <= mined
  BY <1>1, <1>2 DEF Nonces, Unset
<1>4. info \in NonceInfo /\ info.nonce = count - 1 /\ info # NoLeading
  BY <1>2, <1>3, NonceAssumption DEF NonceInfo, ExternalNonce
<1>5. /\ r \in CallInfo /\ r.at = "committing" /\ r.seen = Unset
      /\ r.nonce = call[c].nonce /\ r.until = call[c].until /\ r.op = call[c].op
  BY <1>2, GoneFields DEF AtDatabase
<1>6. /\ call' = [call EXCEPT ![c] = r] /\ leading' = info
      /\ leadingPuts' = Append(leadingPuts, [by |-> c, value |-> info])
      /\ UNCHANGED <<now, pending, initialized, stored, pendingPuts, mined, mempool, restarts>>
  BY <1>1 DEF GetNonceFromNode, PutLeading, Go, Gone, chain
<1> HIDE DEF info, r
<1>7. CallSound(r, mined, leading') /\ r.nonce = Unset /\ r.op = "nonce"
  BY <1>2, <1>5 DEF CallSound, Unset
<1>8. /\ NoncesKept(stored.pending, pendingPuts)' /\ NoSharedNonce'
      /\ call' \in [Calls -> CallInfo]
      /\ \A e \in Calls : CallSound(call'[e], mined', leading')
      /\ BootSound'
      /\ \A any : Led(any, mined, call) => Led(any, mined', call')
  <2>1. ~ Answered(call[c]) /\ c # Boot /\ ~ (r.nonce > mined)
    BY <1>2, <1>7 DEF Answered, IInv, BootSound, Unset
  <2> QED
    BY <1>2, <1>4, <1>5, <1>6, <1>7, <2>1, QuietStep
<1>9. LeadingSound' /\ leadingPuts' \in LeadingPutsType
  <2>1. Led(info, mined', call')
    BY <1>3, <1>4, <1>6 DEF Led
  <2> QED
    BY <1>4, <1>6, <1>8, <2>1, StateFacts, LeadingSet DEF IInv
<1>10. TypeOK'
  BY <1>4, <1>6, <1>8, <1>9 DEF IInv, TypeOK, CallInfo, LeadingPutsType
<1> QED
  BY <1>8, <1>9, <1>10 DEF IInv

LEMMA NodeFailsKeeps ==
  ASSUME IInv, NEW c \in Calls, NodeFails(c)
  PROVE  IInv'
<1> DEFINE old == [call[c] EXCEPT !.nonce = Unset]
           r == Gone(old, "failed")
<1>1. /\ call[c] \in CallInfo /\ CallSound(call[c], mined, leading)
      /\ call[c].at \in {"counting", "reading"} /\ mined \in Int /\ mined >= -1
  BY StateFacts DEF IInv, NodeFails
<1>2. old \in CallInfo /\ old.nonce = Unset /\ old.until = Unset
  <2>1. old \in CallInfo
    BY <1>1 DEF CallInfo, Nonces
  <2> QED
    BY <1>1, <2>1 DEF CallInfo, CallSound
<1>3. /\ r \in CallInfo /\ r.at = "failed" /\ r.seen = Unset /\ r.op = "none"
      /\ r.nonce = Unset /\ r.until = Unset
  BY <1>2, GoneFields
<1>4. /\ call' = [call EXCEPT ![c] = r]
      /\ UNCHANGED <<now, leading, pending, initialized, stored, leadingPuts, pendingPuts,
                     mined, mempool, restarts>>
  BY DEF NodeFails, Go, Gone, manager, database, chain
<1> HIDE DEF r
<1>5. CallSound(r, mined, leading')
  BY <1>1, <1>3 DEF CallSound, Unset
<1>6. /\ NoncesKept(stored.pending, pendingPuts)' /\ NoSharedNonce'
      /\ call' \in [Calls -> CallInfo]
      /\ \A e \in Calls : CallSound(call'[e], mined', leading')
      /\ BootSound'
      /\ \A info : Led(info, mined, call) => Led(info, mined', call')
  <2>1. ~ Answered(call[c]) /\ ~ (r.nonce > mined)
    BY <1>1, <1>3 DEF Answered, Unset
  <2> QED
    BY <1>1, <1>3, <1>4, <1>5, <2>1, QuietStep
<1>7. LeadingSound'
  BY <1>4, <1>6, LeadingStays DEF IInv
<1>8. TypeOK'
  BY <1>4, <1>6 DEF IInv, TypeOK, CallInfo
<1> QED
  BY <1>6, <1>7, <1>8 DEF IInv

LEMMA SendFailsKeeps ==
  ASSUME IInv, NEW c \in Calls, SendFails(c)
  PROVE  IInv'
<1> DEFINE r == Gone(call[c], "failed")
<1>1. /\ call[c] \in CallInfo /\ CallSound(call[c], mined, leading)
      /\ call[c].at \in {"sending", "sent"} /\ mined \in Int /\ mined >= -1
  BY StateFacts DEF IInv, SendFails
<1>2. /\ r \in CallInfo /\ r.at = "failed" /\ r.seen = Unset /\ r.op = "none"
      /\ r.nonce = call[c].nonce /\ r.until = call[c].until
  BY <1>1, GoneFields
<1>3. /\ call' = [call EXCEPT ![c] = r]
      /\ UNCHANGED <<now, leading, pending, initialized, stored, leadingPuts, pendingPuts,
                     mined, mempool, restarts>>
  BY DEF SendFails, Go, Gone, manager, database, chain
<1> HIDE DEF r
<1>4. CallSound(r, mined, leading')
  BY <1>1, <1>2 DEF CallSound, Unset
<1>5. /\ NoncesKept(stored.pending, pendingPuts)' /\ NoSharedNonce'
      /\ call' \in [Calls -> CallInfo]
      /\ \A e \in Calls : CallSound(call'[e], mined', leading')
      /\ BootSound'
      /\ \A info : Led(info, mined, call) => Led(info, mined', call')
  <2>1. Answered(call[c]) /\ Answered(r) /\ c # Boot
    BY <1>1, <1>2 DEF Answered, IInv, BootSound
  <2> QED
    BY <1>1, <1>2, <1>3, <1>4, <2>1, QuietStep
<1>6. LeadingSound'
  BY <1>3, <1>5, LeadingStays DEF IInv
<1>7. TypeOK'
  BY <1>3, <1>5 DEF IInv, TypeOK, CallInfo
<1> QED
  BY <1>5, <1>6, <1>7 DEF IInv

LEMMA AcceptKeeps ==
  ASSUME IInv, NEW c \in Calls, Accept(c)
  PROVE  IInv'
<1> DEFINE r == Gone(call[c], "sent")
<1>1. /\ call[c] \in CallInfo /\ CallSound(call[c], mined, leading)
      /\ call[c].at = "sending" /\ mined \in Int /\ mined >= -1
      /\ call[c].nonce \in Nat
  <2>1. call[c] \in CallInfo /\ mined \in Int /\ mined >= -1
    BY StateFacts
  <2> QED
    BY <2>1 DEF IInv, Accept, CallInfo, Nonces, Unset
<1>2. /\ r \in CallInfo /\ r.at = "sent" /\ r.seen = Unset /\ r.op = call[c].op
      /\ r.nonce = call[c].nonce /\ r.until = call[c].until
  BY <1>1, GoneFields DEF AtNode
<1>3. /\ call' = [call EXCEPT ![c] = r] /\ mempool' = mempool \cup {call[c].nonce}
      /\ UNCHANGED <<now, leading, pending, initialized, stored, leadingPuts, pendingPuts,
                     mined, restarts>>
  BY DEF Accept, Go, Gone, manager, database
<1> HIDE DEF r
<1>4. CallSound(r, mined, leading')
  BY <1>1, <1>2 DEF CallSound, Unset
<1>5. /\ NoncesKept(stored.pending, pendingPuts)' /\ NoSharedNonce'
      /\ call' \in [Calls -> CallInfo]
      /\ \A e \in Calls : CallSound(call'[e], mined', leading')
      /\ BootSound'
      /\ \A info : Led(info, mined, call) => Led(info, mined', call')
  <2>1. Answered(call[c]) /\ Answered(r) /\ c # Boot
    BY <1>1, <1>2 DEF Answered, IInv, BootSound
  <2> QED
    BY <1>1, <1>2, <1>3, <1>4, <2>1, QuietStep
<1>6. LeadingSound'
  BY <1>3, <1>5, LeadingStays DEF IInv
<1>7. TypeOK'
  BY <1>1, <1>3, <1>5 DEF IInv, TypeOK, CallInfo
<1> QED
  BY <1>5, <1>6, <1>7 DEF IInv

LEMMA AcceptLateKeeps ==
  ASSUME IInv, NEW c \in Calls, AcceptLate(c)
  PROVE  IInv'
<1>1. /\ UNCHANGED <<now, leading, pending, initialized, call, stored, leadingPuts,
                     pendingPuts, mined, restarts>>
      /\ mempool' = mempool \cup {call[c].nonce}
  BY DEF AcceptLate, manager, database
<1>2. call[c].nonce \in Nat
  <2>1. call[c] \in CallInfo /\ mined \in Int /\ mined >= -1
    BY StateFacts
  <2> QED
    BY <2>1 DEF AcceptLate, CallInfo, Nonces, Unset
<1>3. TypeOK'
  BY <1>1, <1>2 DEF IInv, TypeOK
<1> QED
  BY <1>1, <1>3 DEF IInv, NoncesKept, ListsSound, Sound, Consecutive, Begins, PutsOwned,
                    AnsweredKept, AssignedKept, LeadingSound, BootSound, NoSharedNonce,
                    Holds, Led, CallSound

LEMMA CommitNonceKeeps ==
  ASSUME IInv, NEW c \in Calls, CommitNonce(c)
  PROVE  IInv'
<1> DEFINE n == call[c].nonce
           set == [nonce |-> n, expiry |-> now + LocalTTL]
           r(at) == Gone(call[c], at)
<1>1. /\ call[c] \in CallInfo /\ CallSound(call[c], mined, leading)
      /\ call[c].at = "sent" /\ mined \in Int /\ mined >= -1 /\ now \in Nat
      /\ n \in Nonces
  <2>1. call[c] \in CallInfo
    BY StateFacts
  <2> QED
    BY <2>1, StateFacts DEF IInv, CommitNonce, CallInfo
<1>2. set \in NonceInfo /\ set # NoLeading /\ set.nonce = n
  BY <1>1, NonceAssumption DEF NonceInfo
<1>3. c # Boot /\ c \in Requests
  BY <1>1 DEF IInv, BootSound, Calls
<1>4. ASSUME NEW at \in {"committing", "failed"}
      PROVE  /\ r(at) \in CallInfo /\ r(at).at = at /\ r(at).seen = Unset
             /\ r(at).nonce = n /\ r(at).until = call[c].until
             /\ r(at).op \in {call[c].op, "none"}
  BY <1>1, GoneFields DEF AtDatabase
<1>5. /\ UNCHANGED <<now, pending, initialized, stored, pendingPuts, mined, mempool, restarts>>
      /\ \/ /\ call' = [call EXCEPT ![c] = r("committing")]
            /\ leading' = set
            /\ leadingPuts' = Append(leadingPuts, [by |-> c, value |-> set])
         \/ /\ call' = [call EXCEPT ![c] = r("failed")]
            /\ UNCHANGED <<leading, leadingPuts>>
  BY DEF CommitNonce, PutLeading, Go, Gone, chain
<1> HIDE DEF r, set
<1>6. ASSUME NEW at \in {"committing", "failed"}, call' = [call EXCEPT ![c] = r(at)],
             leading # NoLeading => leading' # NoLeading
      PROVE  /\ NoncesKept(stored.pending, pendingPuts)' /\ NoSharedNonce'
       /\ call' \in [Calls -> CallInfo]
             /\ \A e \in Calls : CallSound(call'[e], mined', leading')
             /\ BootSound'
             /\ \A info : Led(info, mined, call) => Led(info, mined', call')
  <2>1. CallSound(r(at), mined, leading')
    BY <1>1, <1>4 DEF CallSound, Unset
  <2>2. Answered(call[c]) /\ Answered(r(at)) /\ r(at).at # "assigning"
    BY <1>1, <1>4 DEF Answered
  <2> QED
    BY <1>1, <1>3, <1>4, <1>5, <1>6, <2>1, <2>2, QuietStep
<1>7. CASE /\ call' = [call EXCEPT ![c] = r("committing")]
           /\ leading' = set
           /\ leadingPuts' = Append(leadingPuts, [by |-> c, value |-> set])
  <2>1. /\ NoncesKept(stored.pending, pendingPuts)' /\ NoSharedNonce'
        /\ call' \in [Calls -> CallInfo]
        /\ \A e \in Calls : CallSound(call'[e], mined', leading')
        /\ BootSound'
        /\ \A info : Led(info, mined, call) => Led(info, mined', call')
    BY <1>2, <1>6, <1>7
  <2>2. Led(set, mined', call')
    <3>1. Answered(call'[c]) /\ call'[c].nonce = set.nonce
      BY <1>2, <1>4, <1>7, StateFacts DEF Answered
    <3> QED
      BY <3>1, <1>3 DEF Led
  <2>3. LeadingSound' /\ leadingPuts' \in LeadingPutsType
    BY <1>2, <1>5, <1>7, <2>1, <2>2, StateFacts, LeadingSet DEF IInv
  <2>4. TypeOK'
    BY <1>2, <1>5, <1>7, <2>1, <2>3 DEF IInv, TypeOK, CallInfo, LeadingPutsType
  <2> QED
    BY <2>1, <2>3, <2>4 DEF IInv
<1>8. CASE /\ call' = [call EXCEPT ![c] = r("failed")]
           /\ UNCHANGED <<leading, leadingPuts>>
  <2>1. /\ NoncesKept(stored.pending, pendingPuts)' /\ NoSharedNonce'
        /\ call' \in [Calls -> CallInfo]
        /\ \A e \in Calls : CallSound(call'[e], mined', leading')
        /\ BootSound'
        /\ \A info : Led(info, mined, call) => Led(info, mined', call')
    BY <1>6, <1>8
  <2>2. LeadingSound'
    BY <1>5, <1>8, <2>1, LeadingStays DEF IInv
  <2>3. TypeOK'
    BY <1>5, <1>8, <2>1 DEF IInv, TypeOK, CallInfo
  <2> QED
    BY <2>1, <2>2, <2>3 DEF IInv
<1> QED
  BY <1>5, <1>7, <1>8

(* What AfterMerge does to a call that has no write under way.             *)
LEMMA AfterMergeKeeps ==
  ASSUME IInv, NEW db \in Seq(PendingInfo), NEW puts \in PutsType, NoncesKept(db, puts),
         NEW c \in Calls, NEW r \in CallInfo, AfterMerge(c, r, puts),
         \A i \in DOMAIN puts : puts[i].by # c,
         call[c].at \in {"idle", "leading", "filtering"},
         CallSound(r, mined, leading), r.until = Unset, leading # NoLeading,
         c = Boot => r.op \in {"boot", "none"},
         UNCHANGED <<now, mined, leading>>, stored'.pending = db
  PROVE  /\ NoncesKept(stored.pending, pendingPuts)' /\ NoSharedNonce'
         /\ pending' \in Seq(PendingInfo) /\ pendingPuts' \in PutsType
         /\ initialized \in BOOLEAN => initialized' \in BOOLEAN
         /\ call' \in [Calls -> CallInfo]
         /\ \A d \in Calls : CallSound(call'[d], mined', leading')
         /\ BootSound'
         /\ \A info : Led(info, mined, call) => Led(info, mined', call')
<1>1. /\ TypeOK /\ NoSharedNonce /\ call \in [Calls -> CallInfo] /\ now \in Nat
      /\ mined \in Int /\ mined >= -1 /\ mined \in Nonces
      /\ ~ Answered(call[c]) /\ ~ Given(call[c])
  BY StateFacts DEF IInv, Answered, Given
<1>2. CASE r.op \in Allocating /\ GetNextNonce(c, r, puts)
  <2>1. c \in Requests
    BY <1>2 DEF Calls, Allocating
  <2>2. /\ NoncesKept(stored.pending, pendingPuts)'
        /\ NoSharedNonce'
        /\ pending' \in Seq(PendingInfo) /\ pendingPuts' \in PutsType
        /\ call'[c].at = "assigning" /\ call'[c].op = r.op /\ call'[c].seen = Unset
        /\ call' \in [Calls -> CallInfo]
        /\ \A d \in Calls \ {c} : call'[d] = call[d]
    BY <1>1, <1>2, <2>1, StateFacts, AllocationKeeps
  <2> DEFINE new == call'[c]
  <2>3. call' = [call EXCEPT ![c] = new]
    BY <1>1, <2>2
  <2>4. new \in CallInfo
    BY <2>2
  <2> HIDE DEF new
  <2>5. CallSound(new, mined, leading')
    BY <1>1, <1>2, <2>2 DEF CallSound, Allocating, Unset, new
  <2>6. /\ call' \in [Calls -> CallInfo]
        /\ \A d \in Calls : CallSound(call'[d], mined', leading')
        /\ BootSound'
        /\ \A info : Led(info, mined, call) => Led(info, mined', call')
    <3>1. c # Boot
      BY <2>1, NonceAssumption
    <3> QED
      BY <1>1, <2>3, <2>4, <2>5, <3>1, CallMoves
  <2> QED
    BY <1>2, <2>2, <2>6 DEF GetNextNonce
<1>3. CASE /\ r.op \in {"nonce", "boot"}
           /\ Go(c, r, "done")
           /\ initialized' = TRUE /\ pendingPuts' = puts /\ UNCHANGED pending
  <2> DEFINE g == Gone(r, "done")
  <2>1. /\ g \in CallInfo /\ g.at = "done" /\ g.seen = Unset /\ g.op = "none"
        /\ g.nonce = r.nonce /\ g.until = Unset
    BY GoneFields
  <2>2. call' = [call EXCEPT ![c] = g]
    BY <1>3 DEF Go, Gone
  <2> HIDE DEF g
  <2>3. g.nonce = Unset /\ ~ (g.nonce > mined)
    BY <1>1, <1>3, <2>1 DEF CallSound, Unset
  <2>4. MovesOn(db, puts, c, g)
    BY <1>1, <1>3, <2>1, <2>2, <2>3 DEF MovesOn
  <2>5. NoncesKept(stored.pending, pendingPuts)' /\ NoSharedNonce'
    BY <2>1, <2>4, CallStepKeeps
  <2>6. CallSound(g, mined, leading')
    BY <1>1, <2>1, <2>3 DEF CallSound, Unset
  <2>7. /\ call' \in [Calls -> CallInfo]
        /\ \A d \in Calls : CallSound(call'[d], mined', leading')
        /\ BootSound'
        /\ \A info : Led(info, mined, call) => Led(info, mined', call')
    BY <1>1, <2>1, <2>2, <2>6, CallMoves
  <2> QED
    BY <1>3, <2>5, <2>7, StateFacts
<1> QED
  BY <1>2, <1>3 DEF AfterMerge

LEMMA RequestKeeps ==
  ASSUME IInv, NEW c \in Requests, Request(c)
  PROVE  IInv'
<1> DEFINE news == {NewCall(op, Unset) : op \in {"trade", "next", "nonce"}}
                     \cup {NewCall("approve", n) : n \in Known \ {0}}
           db == stored.pending
<1>1. PICK r \in news :
        \/ /\ Fresh
           /\ AfterMerge(c, r, pendingPuts)
        \/ /\ ~Fresh
           /\ Ask(c, r, IF r.op = "nonce" /\ leading = NoLeading THEN "reading" ELSE "counting")
           /\ UNCHANGED <<pending, initialized, pendingPuts>>
  BY DEF Request
<1>2. /\ call[c].at = "idle"
      /\ UNCHANGED <<now, leading, stored, leadingPuts, mined, mempool, restarts>>
  BY DEF Request, chain
<1>3. /\ c \in Calls /\ c # Boot /\ call \in [Calls -> CallInfo]
      /\ mined \in Int /\ mined >= -1 /\ mined \in Nonces /\ now \in Nat
      /\ db \in Seq(PendingInfo) /\ pendingPuts \in PutsType
      /\ NoncesKept(db, pendingPuts)
  BY StateFacts, NonceAssumption DEF Calls, IInv
<1>4. /\ r \in CallInfo /\ r.at = "idle" /\ r.seen = Unset /\ r.until = Unset
      /\ r.op \in {"trade", "next", "nonce", "approve"}
      /\ r.op = "nonce" => r.nonce = Unset
  <2>1. CASE r \in {NewCall(op, Unset) : op \in {"trade", "next", "nonce"}}
    <3>1. PICK op \in {"trade", "next", "nonce"} : r = NewCall(op, Unset)
      BY <2>1
    <3>2. op \in Operations /\ Unset \in Nonces
      BY DEF Operations, Allocating, Nonces
    <3> QED
      BY <3>1, <3>2, NewFields
  <2>2. CASE r \in {NewCall("approve", n) : n \in Known \ {0}}
    <3>1. PICK n \in Known : r = NewCall("approve", n)
      BY <2>2
    <3>2. PICK d \in Requests : n = call[d].nonce
      BY DEF Known
    <3>3. n \in Nonces /\ "approve" \in Operations
      <4>1. call[d] \in CallInfo
        BY <1>3 DEF Calls
      <4> QED
        BY <3>2, <4>1 DEF CallInfo, Operations, Allocating
    <3> QED
      BY <3>1, <3>3, NewFields
  <2> QED
    BY <2>1, <2>2
<1>5. \A i \in DOMAIN pendingPuts : pendingPuts[i].by # c
  BY <1>2, <1>3 DEF NoncesKept, PutsOwned
<1>6. /\ NoncesKept(stored.pending, pendingPuts)' /\ NoSharedNonce'
      /\ call' \in [Calls -> CallInfo]
      /\ \A e \in Calls : CallSound(call'[e], mined', leading')
      /\ BootSound'
      /\ \A info : Led(info, mined, call) => Led(info, mined', call')
      /\ pending' \in Seq(PendingInfo) /\ pendingPuts' \in PutsType
      /\ initialized' \in BOOLEAN
  <2>0. initialized \in BOOLEAN
    BY DEF IInv, TypeOK
  <2>1. CASE Fresh /\ AfterMerge(c, r, pendingPuts)
    <3>1. leading # NoLeading
      BY <2>1 DEF Fresh
    <3>2. CallSound(r, mined, leading)
      BY <1>3, <1>4 DEF CallSound, Unset
    <3>3. stored'.pending = db
      BY <1>2
    <3> HIDE DEF db
    <3> QED
      BY <1>2, <1>3, <1>4, <1>5, <2>0, <2>1, <3>1, <3>2, <3>3, AfterMergeKeeps
  <2>2. CASE /\ ~Fresh
             /\ Ask(c, r, IF r.op = "nonce" /\ leading = NoLeading THEN "reading" ELSE "counting")
             /\ UNCHANGED <<pending, initialized, pendingPuts>>
    <3>1. PICK at \in {"reading", "counting"} :
            Ask(c, r, at) /\ (at = "reading" => r.op = "nonce")
      BY <2>2
    <3> DEFINE g == Asked(r, at)
    <3>2. /\ g \in CallInfo /\ g.at = at /\ g.seen = mined
          /\ g.nonce = r.nonce /\ g.until = Unset /\ g.op = r.op
      BY <1>3, <1>4, AskedFields DEF AtNode
    <3>3. call' = [call EXCEPT ![c] = g]
      BY <3>1 DEF Ask, Asked
    <3> HIDE DEF g
    <3>4. CallSound(g, mined, leading')
      BY <1>3, <1>4, <3>1, <3>2 DEF CallSound, Allocating
    <3>5. ~ Answered(call[c]) /\ ~ Answered(g)
      BY <1>2, <3>1, <3>2 DEF Answered
    <3> QED
      BY <1>2, <1>3, <2>0, <2>2, <3>1, <3>2, <3>3, <3>4, <3>5, QuietStep, StateFacts
  <2> QED
    BY <1>1, <2>1, <2>2
<1>7. LeadingSound'
  BY <1>2, <1>6, LeadingStays DEF IInv
<1>8. TypeOK'
  BY <1>2, <1>6 DEF IInv, TypeOK, CallInfo, PutsType
<1> QED
  BY <1>6, <1>7, <1>8 DEF IInv

(* The pending nonces lose what the node has counted.                      *)
LEMMA FilterKeeps ==
  ASSUME IInv, NEW c \in Calls, call[c].at = "leading",
         pending' = StillPending(call[c].seen),
         pendingPuts' = Append(pendingPuts, [by |-> c, value |-> pending']),
         Go(c, call[c], "filtering"),
         UNCHANGED <<now, mined, leading>>, stored'.pending = stored.pending
  PROVE  /\ NoncesKept(stored.pending, pendingPuts)' /\ NoSharedNonce'
         /\ pending' \in Seq(PendingInfo) /\ pendingPuts' \in PutsType
         /\ call' \in [Calls -> CallInfo]
         /\ \A d \in Calls : CallSound(call'[d], mined', leading')
         /\ BootSound'
         /\ \A info : Led(info, mined, call) => Led(info, mined', call')
<1> DEFINE r == Gone(call[c], "filtering")
           db == stored.pending
           n == call[c].seen
<1>1. /\ call[c] \in CallInfo /\ CallSound(call[c], mined, leading)
      /\ call \in [Calls -> CallInfo] /\ n \in Nonces
      /\ mined \in Int /\ mined >= -1 /\ mined \in Nonces /\ now \in Nat
      /\ pending \in Seq(PendingInfo) /\ db \in Seq(PendingInfo) /\ pendingPuts \in PutsType
      /\ NoncesKept(db, pendingPuts) /\ NoSharedNonce /\ Sound(pending)
  <2>1. call[c] \in CallInfo
    BY StateFacts
  <2> QED
    BY <2>1, StateFacts DEF IInv, CallInfo, NoncesKept, ListsSound
<1>2. /\ r \in CallInfo /\ r.at = "filtering" /\ r.seen = Unset /\ r.op = call[c].op
      /\ r.nonce = call[c].nonce /\ r.until = call[c].until
  BY <1>1, GoneFields DEF AtDatabase
<1>3. call' = [call EXCEPT ![c] = r]
  BY DEF Go, Gone
<1> HIDE DEF r
<1>4. \A i \in DOMAIN pendingPuts : pendingPuts[i].by # c
  BY <1>1 DEF NoncesKept, PutsOwned
<1>5. /\ pending' \in Seq(PendingInfo) /\ Sound(StillPending(n))
      /\ \A x \in CallInfo : x.nonce > mined /\ Has(pending, x) => Has(pending', x)
  <2>1. n <= mined
    BY <1>1 DEF CallSound
  <2> QED
    BY <1>1, <2>1, StillPendingKeeps
<1>6. Sound(pending)'
  <2>1. pending' = StillPending(n)
    OBVIOUS
  <2> QED
    BY <1>5, <2>1 DEF Sound, Consecutive, Begins
<1>7. stored'.pending = db
  OBVIOUS
<1> HIDE DEF db
<1>8. NoncesKept(stored.pending, pendingPuts)' /\ pendingPuts' \in PutsType
  <2> DEFINE puts == pendingPuts
  <2>1. /\ puts \in PutsType /\ NoncesKept(db, puts) /\ \A i \in DOMAIN puts : puts[i].by # c
        /\ pendingPuts' = Append(puts, [by |-> c, value |-> pending'])
    BY <1>1, <1>4
  <2>2. mined' = mined
    OBVIOUS
  <2> HIDE DEF puts
  <2> QED
    BY <1>1, <1>2, <1>3, <1>5, <1>6, <1>7, <2>1, <2>2, PutKeeps
<1>9. NoSharedNonce'
  BY <1>1, <1>2, <1>3, HoldersStay
<1>10. CallSound(r, mined, leading')
  BY <1>1, <1>2 DEF CallSound, Unset
<1>11. /\ ~ Answered(call[c])
       /\ c = Boot => r.op \in {"boot", "none"}
  BY <1>2 DEF Answered, IInv, BootSound
<1>12. /\ call' \in [Calls -> CallInfo]
       /\ \A d \in Calls : CallSound(call'[d], mined', leading')
       /\ BootSound'
       /\ \A info : Led(info, mined, call) => Led(info, mined', call')
  BY <1>2, <1>3, <1>10, <1>11, CallMoves
<1> QED
  BY <1>5, <1>8, <1>9, <1>12

LEMMA LeadingSavedKeeps ==
  ASSUME IInv, NEW c \in Calls, LeadingSaved(c)
  PROVE  IInv'
<1> DEFINE db == stored.pending
<1>1. /\ leadingPuts # <<>>
      /\ stored' = [stored EXCEPT !.leading = Head(leadingPuts).value]
      /\ leadingPuts' = Tail(leadingPuts)
      /\ UNCHANGED <<now, leading, mined, mempool, restarts>>
  BY DEF LeadingSaved, chain
<1>2. /\ call[c] \in CallInfo /\ CallSound(call[c], mined, leading)
      /\ call \in [Calls -> CallInfo]
      /\ mined \in Int /\ mined >= -1 /\ mined \in Nonces /\ now \in Nat
      /\ pending \in Seq(PendingInfo) /\ db \in Seq(PendingInfo) /\ pendingPuts \in PutsType
      /\ leadingPuts \in LeadingPutsType
      /\ NoncesKept(db, pendingPuts) /\ NoSharedNonce
      /\ stored \in [leading : LeadingType, pending : Seq(PendingInfo)]
      /\ initialized \in BOOLEAN
  <2>1. call[c] \in CallInfo
    BY StateFacts
  <2> QED
    BY <2>1, StateFacts DEF IInv, TypeOK, LeadingType
<1>3. stored'.pending = db /\ stored'.leading = Head(leadingPuts).value
  BY <1>1, <1>2
<1>4. /\ NoncesKept(stored.pending, pendingPuts)' /\ NoSharedNonce'
      /\ pending' \in Seq(PendingInfo) /\ pendingPuts' \in PutsType
      /\ initialized' \in BOOLEAN
      /\ call' \in [Calls -> CallInfo]
      /\ \A d \in Calls : CallSound(call'[d], mined', leading')
      /\ BootSound'
      /\ \A info : Led(info, mined, call) => Led(info, mined', call')
  <2>1. CASE /\ call[c].at = "leading"
             /\ pending' = StillPending(call[c].seen)
             /\ pendingPuts' = Append(pendingPuts, [by |-> c, value |-> pending'])
             /\ Go(c, call[c], "filtering")
             /\ UNCHANGED initialized
    BY <1>1, <1>2, <1>3, <2>1, FilterKeeps
  <2>2. CASE call[c].at = "leading" /\ AfterMerge(c, call[c], pendingPuts)
    <3>1. \A i \in DOMAIN pendingPuts : pendingPuts[i].by # c
      BY <1>2, <2>2 DEF NoncesKept, PutsOwned
    <3>2. call[c].until = Unset /\ leading # NoLeading
      BY <1>2, <2>2 DEF CallSound
    <3>3. c = Boot => call[c].op \in {"boot", "none"}
      BY DEF IInv, BootSound
    <3> HIDE DEF db
    <3> QED
      BY <1>1, <1>2, <1>3, <2>2, <3>1, <3>2, <3>3, AfterMergeKeeps
  <2>3. CASE /\ call[c].at = "committing"
             /\ Go(c, call[c], "done")
             /\ UNCHANGED <<pending, pendingPuts, initialized>>
    <3> DEFINE g == Gone(call[c], "done")
    <3>1. /\ g \in CallInfo /\ g.at = "done" /\ g.seen = Unset /\ g.op = "none"
          /\ g.nonce = call[c].nonce /\ g.until = call[c].until
      BY <1>2, GoneFields
    <3>2. call' = [call EXCEPT ![c] = g]
      BY <2>3 DEF Go, Gone
    <3> HIDE DEF g
    <3>3. \A i \in DOMAIN pendingPuts : pendingPuts[i].by # c
      BY <1>2, <2>3 DEF NoncesKept, PutsOwned
    <3>4. Answered(call[c]) /\ Answered(g)
      BY <2>3, <3>1 DEF Answered
    <3>5. MovesOn(db, pendingPuts, c, g)
      <4>1. c \in Requests /\ g.nonce > mined =>
              /\ Has(pending, call[c]) /\ Has(db, call[c])
              /\ \A i \in DOMAIN pendingPuts : Has(pendingPuts[i].value, call[c])
        BY <1>2, <3>1, <3>4 DEF NoncesKept, AnsweredKept
      <4>2. \A list : Has(list, call[c]) => Has(list, g)
        BY <3>1 DEF Has
      <4> HIDE DEF db
      <4> QED
        BY <1>1, <1>2, <1>3, <2>3, <3>1, <3>2, <3>3, <4>1, <4>2 DEF MovesOn
    <3>6. NoncesKept(stored.pending, pendingPuts)' /\ NoSharedNonce'
      <4> HIDE DEF db
      <4> QED
        BY <1>2, <3>1, <3>5, CallStepKeeps
    <3>7. CallSound(g, mined, leading')
      BY <1>2, <3>1 DEF CallSound, Unset
    <3>8. /\ call' \in [Calls -> CallInfo]
          /\ \A d \in Calls : CallSound(call'[d], mined', leading')
          /\ BootSound'
          /\ \A info : Led(info, mined, call) => Led(info, mined', call')
      BY <1>1, <3>1, <3>2, <3>4, <3>7, CallMoves
    <3> QED
      BY <1>2, <2>3, <3>6, <3>8
  <2> QED
    BY <2>1, <2>2, <2>3 DEF LeadingSaved
<1>5. /\ LeadingSound' /\ leadingPuts' \in LeadingPutsType
      /\ stored'.leading \in LeadingType
  BY <1>1, <1>2, <1>3, <1>4, LeadingWritten DEF IInv
<1>6. stored' \in [leading : LeadingType, pending : Seq(PendingInfo)]
  BY <1>1, <1>2, <1>3, <1>5
<1>7. TypeOK'
  BY <1>1, <1>4, <1>5, <1>6 DEF IInv, TypeOK, CallInfo, PutsType, LeadingPutsType, LeadingType
<1> QED
  BY <1>4, <1>5, <1>7 DEF IInv

LEMMA PendingSavedKeeps ==
  ASSUME IInv, NEW c \in Calls, PendingSaved(c)
  PROVE  IInv'
<1> DEFINE db == Head(pendingPuts).value
           rest == Tail(pendingPuts)
<1>1. /\ pendingPuts # <<>> /\ Head(pendingPuts).by = c
      /\ stored' = [stored EXCEPT !.pending = db]
      /\ UNCHANGED <<now, leading, leadingPuts, mined, mempool, restarts>>
  BY DEF PendingSaved, chain
<1>2. /\ call[c] \in CallInfo /\ CallSound(call[c], mined, leading)
      /\ call \in [Calls -> CallInfo]
      /\ mined \in Int /\ mined >= -1 /\ mined \in Nonces /\ now \in Nat
      /\ pending \in Seq(PendingInfo) /\ pendingPuts \in PutsType
      /\ NoncesKept(stored.pending, pendingPuts) /\ NoSharedNonce
      /\ stored \in [leading : LeadingType, pending : Seq(PendingInfo)]
      /\ initialized \in BOOLEAN
  <2>1. call[c] \in CallInfo
    BY StateFacts
  <2> QED
    BY <2>1, StateFacts DEF IInv, TypeOK, LeadingType
<1>3. /\ db \in Seq(PendingInfo) /\ rest \in PutsType
      /\ NoncesKept(db, rest)
      /\ \A i \in DOMAIN rest : rest[i].by # c
      /\ c \in Requests /\ call[c].at = "assigning" /\ call[c].nonce > mined =>
           /\ Has(pending, call[c]) /\ Has(db, call[c])
           /\ \A i \in DOMAIN rest : Has(rest[i].value, call[c])
  BY <1>1, <1>2, HeadSaved
<1>4. stored'.pending = db /\ stored'.leading = stored.leading
  BY <1>1, <1>2
<1> HIDE DEF db, rest
<1>5. /\ NoncesKept(stored.pending, pendingPuts)' /\ NoSharedNonce'
      /\ pending' \in Seq(PendingInfo) /\ pendingPuts' \in PutsType
      /\ initialized' \in BOOLEAN
      /\ call' \in [Calls -> CallInfo]
      /\ \A d \in Calls : CallSound(call'[d], mined', leading')
      /\ BootSound'
      /\ \A info : Led(info, mined, call) => Led(info, mined', call')
  <2>1. CASE call[c].at = "filtering" /\ AfterMerge(c, call[c], rest)
    <3>1. call[c].until = Unset /\ leading # NoLeading
      BY <1>2, <2>1 DEF CallSound
    <3>2. c = Boot => call[c].op \in {"boot", "none"}
      BY DEF IInv, BootSound
    <3> QED
      BY <1>1, <1>2, <1>3, <1>4, <2>1, <3>1, <3>2, AfterMergeKeeps
  <2>2. ASSUME NEW g \in CallInfo, call[c].at = "assigning",
               call' = [call EXCEPT ![c] = g],
               g.at \in {"done", "failed", "sending"}, g.seen \in {Unset, mined},
               g.nonce = call[c].nonce, g.until = call[c].until,
               g.op \in {"none", call[c].op},
               pendingPuts' = rest, UNCHANGED <<pending, initialized>>
        PROVE  /\ NoncesKept(stored.pending, pendingPuts)' /\ NoSharedNonce'
               /\ pending' \in Seq(PendingInfo) /\ pendingPuts' \in PutsType
               /\ initialized' \in BOOLEAN
               /\ call' \in [Calls -> CallInfo]
               /\ \A d \in Calls : CallSound(call'[d], mined', leading')
               /\ BootSound'
               /\ \A info : Led(info, mined, call) => Led(info, mined', call')
    <3>1. MovesOn(db, rest, c, g)
      <4>1. \A list : Has(list, call[c]) => Has(list, g)
        BY <2>2 DEF Has
      <4> QED
        BY <1>1, <1>2, <1>3, <1>4, <2>2, <4>1 DEF MovesOn
    <3>2. NoncesKept(stored.pending, pendingPuts)' /\ NoSharedNonce'
      BY <1>3, <3>1, CallStepKeeps
    <3>3. CallSound(g, mined, leading')
      BY <1>2, <2>2 DEF CallSound, Unset
    <3>4. ~ Answered(call[c]) /\ c # Boot
      BY <2>2 DEF Answered, IInv, BootSound
    <3>5. /\ call' \in [Calls -> CallInfo]
          /\ \A d \in Calls : CallSound(call'[d], mined', leading')
          /\ BootSound'
          /\ \A info : Led(info, mined, call) => Led(info, mined', call')
      BY <1>1, <2>2, <3>3, <3>4, CallMoves
    <3> QED
      BY <1>2, <1>3, <2>2, <3>2, <3>5
  <2>3. CASE /\ call[c].at = "assigning"
             /\ \/ Go(c, call[c], "done")
                \/ Go(c, call[c], "failed")
                \/ Ask(c, call[c], "sending")
             /\ pendingPuts' = rest /\ UNCHANGED <<pending, initialized>>
    <3>1. CASE \E at \in {"done", "failed"} : Go(c, call[c], at)
      <4>1. PICK at \in {"done", "failed"} : Go(c, call[c], at)
        BY <3>1
      <4> DEFINE g == Gone(call[c], at)
      <4>2. /\ g \in CallInfo /\ g.at = at /\ g.seen = Unset /\ g.op = "none"
            /\ g.nonce = call[c].nonce /\ g.until = call[c].until
        BY <1>2, GoneFields
      <4>3. call' = [call EXCEPT ![c] = g]
        BY <4>1 DEF Go, Gone
      <4> HIDE DEF g
      <4> QED
        BY <2>2, <2>3, <4>2, <4>3
    <3>2. CASE Ask(c, call[c], "sending")
      <4> DEFINE g == Asked(call[c], "sending")
      <4>1. /\ g \in CallInfo /\ g.at = "sending" /\ g.seen = mined /\ g.op = call[c].op
            /\ g.nonce = call[c].nonce /\ g.until = call[c].until
        BY <1>2, AskedFields DEF AtNode
      <4>2. call' = [call EXCEPT ![c] = g]
        BY <3>2 DEF Ask, Asked
      <4> HIDE DEF g
      <4> QED
        BY <2>2, <2>3, <4>1, <4>2
    <3> QED
      BY <2>3, <3>1, <3>2
  <2> QED
    BY <2>1, <2>3 DEF PendingSaved, rest
<1>6. LeadingSound'
  BY <1>1, <1>4, <1>5, LeadingStays DEF IInv
<1>7. stored' \in [leading : LeadingType, pending : Seq(PendingInfo)]
  BY <1>1, <1>2, <1>3
<1>8. TypeOK'
  BY <1>1, <1>5, <1>7 DEF IInv, TypeOK, CallInfo, PutsType, LeadingType
<1> QED
  BY <1>5, <1>6, <1>8 DEF IInv

(* The chain and the clock.                                                *)
LEMMA PassKeeps ==
  ASSUME IInv, Mine \/ Drop \/ Tick
  PROVE  IInv'
<1>1. /\ call \in [Calls -> CallInfo] /\ now \in Nat /\ mined \in Nonces /\ mined \in Int
      /\ mined >= -1 /\ TypeOK /\ MaxTime \in Nat
      /\ NoncesKept(stored.pending, pendingPuts) /\ NoSharedNonce
  BY StateFacts, NonceAssumption DEF IInv
<1>2. /\ UNCHANGED <<leading, pending, initialized, call, stored, leadingPuts, pendingPuts, restarts>>
      /\ now' \in 0 .. MaxTime /\ now' >= now
      /\ mined' \in Nonces /\ mined' >= mined
      /\ mempool' \subseteq Nat
  <2>1. CASE Mine
    BY <2>1, <1>1 DEF Mine, TypeOK, Nonces, Unset, manager, database
  <2>2. CASE Drop
    BY <2>2, <1>1 DEF Drop, TypeOK, Nonces, Unset, manager, database
  <2>3. CASE Tick
    BY <2>3, <1>1 DEF Tick, TypeOK, Nonces, Unset, manager, database, chain
  <2> QED
    BY <2>1, <2>2, <2>3
<1>3. NoncesKept(stored.pending, pendingPuts)' /\ NoSharedNonce'
  BY <1>1, <1>2, TimeKeeps
<1>4. TypeOK'
  BY <1>1, <1>2 DEF TypeOK
<1>5. LeadingSound'
  <2>1. ASSUME NEW info \in LeadingType, Led(info, mined, call)
        PROVE  Led(info, mined', call')
    <3>1. info # NoLeading => info.nonce \in Int
      BY <2>1 DEF LeadingType, NonceInfo, Nonces, Unset
    <3>2. mined' \in Int
      BY <1>2 DEF Nonces, Unset
    <3> QED
      BY <2>1, <3>1, <3>2, <1>1, <1>2 DEF Led
  <2>2. leading \in LeadingType /\ stored.leading \in LeadingType
    BY StateFacts
  <2>3. \A i \in DOMAIN leadingPuts : leadingPuts[i].value \in LeadingType
    <3> SUFFICES ASSUME NEW i \in DOMAIN leadingPuts
                 PROVE  leadingPuts[i].value \in NonceInfo
      BY DEF LeadingType
    <3>1. leadingPuts \in LeadingPutsType
      BY StateFacts
    <3>2. leadingPuts[i] \in [by : Calls, value : NonceInfo]
      <4>1. i \in 1 .. Len(leadingPuts)
        BY <3>1 DEF LeadingPutsType
      <4> QED
        BY <3>1, <4>1, ElementOfSeq DEF LeadingPutsType
    <3> QED
      BY <3>2
  <2> QED
    BY <1>2, <2>1, <2>2, <2>3 DEF IInv, LeadingSound
<1>6. \A c \in Calls : CallSound(call'[c], mined', leading')
  <2> SUFFICES ASSUME NEW c \in Calls PROVE CallSound(call[c], mined', leading)
    BY <1>2
  <2>1. call[c] \in CallInfo /\ CallSound(call[c], mined, leading)
    BY <1>1 DEF IInv
  <2>2. call[c].seen \in Int /\ mined' \in Int
    BY <2>1, <1>2 DEF CallInfo, Nonces, Unset
  <2> QED
    BY <2>1, <2>2, <1>1, <1>2 DEF CallSound
<1>7. BootSound'
  BY <1>2 DEF IInv, BootSound
<1> QED
  BY <1>3, <1>4, <1>5, <1>6, <1>7 DEF IInv

LEMMA RestartKeeps ==
  ASSUME IInv, Restart
  PROVE  IInv'
<1> DEFINE merges == leading' # NoLeading /\ leading'.expiry <= now
           boot == [NewCall("boot", Unset) EXCEPT
                      !.at = IF merges THEN "counting" ELSE "done",
                      !.since = now, !.seen = mined]
           cut(r) == [NewCall("none", Unset) EXCEPT
                        !.at = IF r.at = "idle" THEN "idle" ELSE "failed",
                        !.nonce = IF Answered(r) THEN r.nonce ELSE Unset,
                        !.until = IF Answered(r) THEN r.until ELSE Unset]
           db == stored.pending
<1>1. /\ call \in [Calls -> CallInfo] /\ now \in Nat /\ mined \in Nonces /\ mined \in Int
      /\ mined >= -1 /\ TypeOK /\ db \in Seq(PendingInfo)
      /\ NoncesKept(db, pendingPuts) /\ NoSharedNonce
      /\ stored.leading \in LeadingType
      /\ MaxRestarts \in Nat
  BY StateFacts, NonceAssumption DEF IInv
<1>2. /\ restarts < MaxRestarts /\ restarts' = restarts + 1
      /\ leading' = stored.leading /\ pending' = db
      /\ leadingPuts' = <<>> /\ pendingPuts' = <<>>
      /\ call' = [c \in Calls |-> IF c = Boot THEN boot ELSE cut(call[c])]
      /\ initialized' = ~merges
      /\ UNCHANGED <<now, stored, mined, mempool>>
  BY DEF Restart, chain
<1>3. /\ boot \in CallInfo /\ boot.op = "boot" /\ boot.nonce = Unset /\ boot.until = Unset
      /\ boot.seen = mined /\ boot.at \in {"counting", "done"}
  <2>1. /\ NewCall("boot", Unset) \in CallInfo
        /\ NewCall("boot", Unset).op = "boot" /\ NewCall("boot", Unset).nonce = Unset
        /\ NewCall("boot", Unset).until = Unset
    BY NewFields DEF Operations, Nonces
  <2>2. boot \in CallInfo
    BY <1>1, <2>1 DEF CallInfo, AtNode
  <2> QED
    BY <2>1, <2>2 DEF CallInfo
<1>4. ASSUME NEW r \in CallInfo
      PROVE  /\ cut(r) \in CallInfo /\ cut(r).op = "none" /\ cut(r).seen = Unset
             /\ cut(r).at \in {"idle", "failed"}
             /\ cut(r).at = "idle" => r.at = "idle" /\ cut(r).until = Unset
             /\ Answered(r) => /\ Answered(cut(r))
                               /\ cut(r).nonce = r.nonce /\ cut(r).until = r.until
             /\ ~ Answered(r) => cut(r).nonce = Unset /\ cut(r).until = Unset
  <2>1. /\ NewCall("none", Unset) \in CallInfo
        /\ NewCall("none", Unset).op = "none" /\ NewCall("none", Unset).seen = Unset
    BY NewFields DEF Nonces
  <2> DEFINE at == IF r.at = "idle" THEN "idle" ELSE "failed"
             nonce == IF Answered(r) THEN r.nonce ELSE Unset
             until == IF Answered(r) THEN r.until ELSE Unset
  <2>2. /\ at \in {"idle", "failed"} /\ nonce \in Nonces /\ until \in Nonces
        /\ at = "idle" => r.at = "idle"
        /\ Answered(r) => nonce = r.nonce /\ until = r.until /\ at = "failed"
        /\ ~ Answered(r) => nonce = Unset /\ until = Unset
    BY DEF CallInfo, Nonces, Answered
  <2>3. cut(r) = [NewCall("none", Unset) EXCEPT !.at = at, !.nonce = nonce, !.until = until]
    OBVIOUS
  <2> HIDE DEF at, nonce, until, cut
  <2>4. cut(r) \in CallInfo
    BY <2>1, <2>2, <2>3 DEF CallInfo
  <2>5. /\ cut(r).op = "none" /\ cut(r).seen = Unset
        /\ cut(r).at = at /\ cut(r).nonce = nonce /\ cut(r).until = until
    BY <2>1, <2>2, <2>3 DEF CallInfo
  <2>6. at = "idle" => ~ Answered(r)
    BY <2>2 DEF Answered
  <2> QED
    BY <2>2, <2>4, <2>5, <2>6 DEF Answered
<1> HIDE DEF boot, cut, merges, db
<1>5. /\ call' \in [Calls -> CallInfo]
      /\ call'[Boot] = boot
      /\ \A c \in Requests : call'[c] = cut(call[c]) /\ call[c] \in CallInfo
  <2>1. Boot \in Calls /\ \A c \in Requests : c \in Calls /\ c # Boot
    BY NonceAssumption DEF Calls
  <2> QED
    BY <1>1, <1>2, <1>3, <1>4, <2>1
<1>6. ListsSound(stored.pending, pendingPuts)'
  <2>1. Sound(db)
    BY <1>1 DEF NoncesKept, ListsSound
  <2>2. Sound(pending)' /\ Sound(stored.pending)'
    BY <1>2, <2>1 DEF Sound, Consecutive, Begins, db
  <2> QED
    BY <1>2, <2>2 DEF ListsSound
<1>7. PutsOwned(pendingPuts)'
  BY <1>2 DEF PutsOwned
<1>8. \A c \in Requests : Answered(call'[c]) /\ call'[c].nonce > mined =>
        /\ Answered(call[c])
        /\ call'[c].nonce = call[c].nonce /\ call'[c].until = call[c].until
  BY <1>1, <1>4, <1>5 DEF Unset
<1>9. AnsweredKept(stored.pending, pendingPuts)'
  <2> SUFFICES ASSUME NEW c \in Requests, Answered(call'[c]), call'[c].nonce > mined
               PROVE  Has(db, call'[c])
    <3>1. stored'.pending = db /\ pending' = db /\ pendingPuts' = <<>> /\ mined' = mined
      BY <1>2 DEF db
    <3> QED
      BY <3>1 DEF AnsweredKept
  <2>1. Has(db, call[c])
    BY <1>1, <1>8 DEF NoncesKept, AnsweredKept
  <2> QED
    BY <2>1, <1>8 DEF Has
<1>10. AssignedKept(pendingPuts)'
  BY <1>4, <1>5 DEF AssignedKept
<1>11. NoSharedNonce'
  <2>1. ASSUME NEW c \in Requests, Holds(c)'
        PROVE  Holds(c) /\ call'[c].nonce = call[c].nonce
    <3>1. call'[c].nonce > mined /\ call'[c].until >= now
      BY <2>1, <1>2 DEF Holds
    <3>2. Answered(call[c])
      BY <3>1, <1>1, <1>4, <1>5 DEF Unset
    <3> QED
      BY <3>1, <3>2, <1>4, <1>5 DEF Holds
  <2> QED
    BY <2>1, <1>1 DEF NoSharedNonce
<1>12. LeadingSound'
  <2>1. \A c \in Requests :
          Answered(call[c]) => Answered(call'[c]) /\ call'[c].nonce = call[c].nonce
    BY <1>4, <1>5
  <2>2. \A info : Led(info, mined, call) => Led(info, mined', call')
    BY <1>2, <2>1 DEF Led
  <2> QED
    BY <1>2, <2>2 DEF IInv, LeadingSound
<1>13. \A c \in Calls : CallSound(call'[c], mined', leading')
  <2>1. CallSound(boot, mined', leading')
    BY <1>1, <1>2, <1>3 DEF CallSound
  <2>2. ASSUME NEW c \in Requests PROVE CallSound(call'[c], mined', leading')
    <3>1. /\ call'[c].op = "none" /\ call'[c].seen = -1 /\ call'[c].at \in {"idle", "failed"}
          /\ call'[c].at = "idle" => call'[c].until = Unset
      BY <1>4, <1>5 DEF Unset
    <3>2. mined' >= -1
      BY <1>1, <1>2
    <3> QED
      BY <3>1, <3>2 DEF CallSound
  <2> QED
    BY <1>5, <2>1, <2>2 DEF Calls
<1>14. BootSound'
  BY <1>3, <1>5 DEF BootSound
<1>15. TypeOK'
  <2>1. /\ leading' \in LeadingType /\ pending' \in Seq(PendingInfo)
        /\ leadingPuts' \in LeadingPutsType /\ pendingPuts' \in PutsType
        /\ restarts' \in 0 .. MaxRestarts /\ initialized' \in BOOLEAN
    BY <1>1, <1>2 DEF LeadingPutsType, PutsType, TypeOK, merges
  <2> QED
    BY <1>1, <1>2, <1>5, <2>1 DEF TypeOK, LeadingPutsType, PutsType, LeadingType, CallInfo
<1> QED
  BY <1>6, <1>7, <1>9, <1>10, <1>11, <1>12, <1>13, <1>14, <1>15, <1>2 DEF IInv, NoncesKept

-----------------------------------------------------------------------------
(* The theorems.                                                           *)

LEMMA InitIInv == Init => IInv
<1> SUFFICES ASSUME Init PROVE IInv
  OBVIOUS
<1>1. /\ call = [c \in Calls |-> NewCall(IF c = Boot THEN "boot" ELSE "none", Unset)]
      /\ pending = <<>> /\ stored = [leading |-> NoLeading, pending |-> <<>>]
      /\ pendingPuts = <<>> /\ leadingPuts = <<>> /\ leading = NoLeading
      /\ mined = FirstCount - 1 /\ mined \in Nonces /\ mined \in Int /\ mined >= -1
      /\ Boot \in Calls /\ now = 0
  BY NonceAssumption DEF Init, Nonces, Unset, Calls
<1>2. ASSUME NEW op \in {"boot", "none"}
      PROVE  LET r == NewCall(op, Unset)
             IN /\ r \in CallInfo /\ r.op = op /\ r.at = "idle" /\ r.seen = Unset
                /\ r.nonce = Unset /\ r.until = Unset
  BY NewFields DEF Operations, Nonces
<1>3. /\ call \in [Calls -> CallInfo]
      /\ \A c \in Calls : /\ call[c].at = "idle" /\ call[c].seen = Unset
                          /\ call[c].nonce = Unset /\ call[c].until = Unset
      /\ call[Boot].op = "boot"
  BY <1>1, <1>2
<1>4. TypeOK
  BY <1>1, <1>3, NonceAssumption DEF Init, TypeOK, CallInfo
<1>5. NoncesKept(stored.pending, pendingPuts)
  <2>1. /\ ListsSound(stored.pending, pendingPuts) /\ PutsOwned(pendingPuts)
    BY <1>1 DEF ListsSound, Sound, Consecutive, Begins, PutsOwned
  <2>2. \A c \in Requests : ~ Answered(call[c]) /\ call[c].at # "assigning"
    BY <1>3 DEF Answered, Calls
  <2> QED
    BY <2>1, <2>2 DEF NoncesKept, AnsweredKept, AssignedKept
<1>6. LeadingSound
  BY <1>1 DEF LeadingSound, Led
<1>7. \A c \in Calls : CallSound(call[c], mined, leading)
  BY <1>1, <1>3 DEF CallSound, Unset
<1>8. BootSound
  BY <1>1, <1>3 DEF BootSound
<1>9. NoSharedNonce
  <2>1. \A c \in Requests : ~ Holds(c)
    <3> SUFFICES ASSUME NEW c \in Requests, Holds(c) PROVE FALSE
      OBVIOUS
    <3>1. c \in Calls
      BY DEF Calls
    <3>2. call[c].until = -1 /\ call[c].until >= 0
      BY <1>1, <1>3, <3>1 DEF Holds, Unset
    <3> QED
      BY <3>2
  <2> QED
    BY <2>1 DEF NoSharedNonce
<1> QED
  BY <1>4, <1>5, <1>6, <1>7, <1>8, <1>9 DEF IInv

LEMMA NextIInv == IInv /\ [Next]_vars => IInv'
<1> SUFFICES ASSUME IInv, [Next]_vars PROVE IInv'
  OBVIOUS
<1>1. CASE \E c \in Requests : Request(c)
  BY <1>1, RequestKeeps
<1>2. CASE \E c \in Requests : Resend(c)
  BY <1>2, ResendKeeps
<1>3. CASE \E c \in Calls : MergeNonce(c)
  BY <1>3, MergeNonceKeeps
<1>4. CASE \E c \in Calls : GetNonceFromNode(c)
  BY <1>4, GetNonceFromNodeKeeps
<1>5. CASE \E c \in Calls : NodeFails(c)
  BY <1>5, NodeFailsKeeps
<1>6. CASE \E c \in Calls : LeadingSaved(c)
  BY <1>6, LeadingSavedKeeps
<1>7. CASE \E c \in Calls : PendingSaved(c)
  BY <1>7, PendingSavedKeeps
<1>8. CASE \E c \in Calls : Accept(c)
  BY <1>8, AcceptKeeps
<1>9. CASE \E c \in Calls : CommitNonce(c)
  BY <1>9, CommitNonceKeeps
<1>10. CASE \E c \in Calls : SendFails(c)
  BY <1>10, SendFailsKeeps
<1>11. CASE Mine \/ Drop \/ Tick
  BY <1>11, PassKeeps
<1>12. CASE Restart
  BY <1>12, RestartKeeps
<1>13. CASE \E c \in Calls : AcceptLate(c)
  BY <1>13, AcceptLateKeeps
<1>14. CASE UNCHANGED vars
  BY <1>14 DEF vars, manager, database, chain, IInv, TypeOK, NoncesKept, ListsSound, Sound,
               Consecutive, Begins, PutsOwned, AnsweredKept, AssignedKept, LeadingSound,
               BootSound, NoSharedNonce, Holds, Led, CallSound
<1> QED
  BY <1>1, <1>2, <1>3, <1>4, <1>5, <1>6, <1>7, <1>8, <1>9, <1>10, <1>11, <1>12, <1>13,
     <1>14
     DEF Next, Serve

(* The invariant holds always.                                             *)
LEMMA Invariant == Spec => []IInv
  BY InitIInv, NextIInv, PTL DEF Spec

(* The variables of the nonce manager keep their types, whatever requests, *)
(* the node, the database and restarts do.                                 *)
THEOREM TypeCorrect == Spec => []TypeOK
<1>1. IInv => TypeOK
  BY DEF IInv
<1> QED
  BY <1>1, Invariant, PTL

(* No two requests ever hold one nonce that is not mined and not expired,  *)
(* for any number of requests, restarts and late answers of the node.      *)
THEOREM NoncesNeverShared == Spec => []NoSharedNonce
<1>1. IInv => NoSharedNonce
  BY DEF IInv
<1> QED
  BY <1>1, Invariant, PTL

(* A nonce that getNextNonce has answered is in the database for as long   *)
(* as it is held, so a restart does not give it again.                     *)
THEOREM AnsweredNoncesRemembered == Spec => []AnsweredIsRemembered
<1>1. ASSUME IInv PROVE AnsweredIsRemembered
  BY <1>1 DEF IInv, NoncesKept, AnsweredKept, AnsweredIsRemembered, Has, Holds
<1> QED
  BY <1>1, Invariant, PTL

(* The pending nonces leave no hole between them and the chain.            *)
THEOREM PendingWithoutHole == Spec => []NoHole
<1>1. ASSUME IInv PROVE NoHole
  BY <1>1, StateFacts DEF IInv, NoncesKept, ListsSound, Sound, Consecutive, Begins, NoHole
<1> QED
  BY <1>1, Invariant, PTL
=============================================================================
