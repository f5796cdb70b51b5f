----------------------- MODULE AsyncThrottler_proofs -----------------------
(***************************************************************************)
(* Proofs about the throttler, for every set of limits with any weights,   *)
(* intervals, margins and links, and any number of tasks.                  *)
(*                                                                         *)
(* The capacity that is used is a sum over the task logs, so the first     *)
(* half of the module is about sums of sequences: how they change when one *)
(* entry changes, when a sequence is appended, and when flush takes        *)
(* entries out that count for nothing.                                     *)
(***************************************************************************)
EXTENDS AsyncThrottler, FiniteSetTheorems, SequenceTheorems, WellFoundedInduction, TLAPS

-----------------------------------------------------------------------------
(* Induction.                                                              *)

(* Induction up to a bound, for a set of numbers.                          *)
LEMMA InductionUpTo ==
  ASSUME NEW n \in Nat, NEW S, 0 \in S, \A k \in 0 .. n - 1 : k \in S => k + 1 \in S
  PROVE  n \in S
<1> DEFINE T == {k \in Nat : k <= n /\ k \notin S}
<1>1. SUFFICES ASSUME T # {}
               PROVE  FALSE
  OBVIOUS
<1>2. PICK k \in T : \A m \in T : <<m, k>> \notin OpToRel(<, Nat)
  <2>1. T \in SUBSET Nat
    OBVIOUS
  <2> HIDE DEF T
  <2> QED
    BY <1>1, <2>1, NatLessThanWellFounded, WFMin, Zenon
<1>3. \A m \in T : ~ (m < k)
  BY <1>2 DEF OpToRel
<1>4. k # 0 /\ k - 1 \in 0 .. n - 1 /\ k - 1 \notin T
  BY <1>3
<1>5. k - 1 \in S /\ (k - 1) + 1 = k
  BY <1>4
<1> QED
  BY <1>4, <1>5

-----------------------------------------------------------------------------
(* Sums.                                                                   *)

(* The sums of the first entries of s.                                     *)
Sums(p, s, n) ==
  /\ p \in [0 .. n -> Nat]
  /\ p[0] = 0
  /\ \A k \in 1 .. n : p[k] = p[k - 1] + s[k]

IsSum(r, s) == r = [n \in 0 .. Len(s) |-> IF n = 0 THEN 0 ELSE r[n - 1] + s[n]]

LEMMA LengthIs ==
  ASSUME NEW n \in Nat, NEW S, NEW s \in [1 .. n -> S]
  PROVE  s \in Seq(S) /\ Len(s) = n /\ DOMAIN s = 1 .. n
OBVIOUS

(* u is s followed by t.                                                   *)
Joins(u, s, n, t, m) ==
  /\ \A i \in 1 .. n : u[i] = s[i]
  /\ \A i \in 1 .. m : u[n + i] = t[i]

LEMMA ConcatIs ==
  ASSUME NEW n \in Nat, NEW m \in Nat, NEW S, NEW s \in [1 .. n -> S], NEW t \in [1 .. m -> S]
  PROVE  /\ s \o t \in [1 .. n + m -> S]
         /\ Joins(s \o t, s, n, t, m)
<1>1. s \in Seq(S) /\ t \in Seq(S) /\ Len(s) = n /\ Len(t) = m
  BY LengthIs
<1>2. /\ s \o t \in Seq(S) /\ Len(s \o t) = n + m
      /\ \A i \in 1 .. n + m : (s \o t)[i] = IF i <= n THEN s[i] ELSE t[i - n]
  BY <1>1, ConcatProperties
<1>3. s \o t \in [1 .. n + m -> S]
  BY <1>2, LenProperties
<1>4. ASSUME NEW i \in 1 .. m
      PROVE  n + i \in 1 .. n + m /\ ~ (n + i <= n) /\ (n + i) - n = i
  OBVIOUS
<1>5. ASSUME NEW i \in 1 .. n
      PROVE  i \in 1 .. n + m /\ i <= n
  OBVIOUS
<1> QED
  BY <1>2, <1>3, <1>4, <1>5 DEF Joins

(* Total is the last of the sums.                                          *)
LEMMA TotalIs ==
  ASSUME NEW n \in Nat, NEW s \in [1 .. n -> Nat]
  PROVE  \E p : Sums(p, s, n) /\ Total(s) = p[n]
<1> DEFINE S == {k \in Nat : \E r : r = [i \in 0 .. k |-> IF i = 0 THEN 0 ELSE r[i - 1] + s[i]]}
<1>1. 0 \in S
  <2>1. PICK r : r = [i \in 0 .. 0 |-> 0]
    OBVIOUS
  <2>2. \A i \in 0 .. 0 : i = 0
    OBVIOUS
  <2>3. r = [i \in 0 .. 0 |-> IF i = 0 THEN 0 ELSE r[i - 1] + s[i]]
    BY <2>1, <2>2
  <2> QED
    BY <2>3
<1>2. ASSUME NEW k \in 0 .. n - 1, k \in S
      PROVE  k + 1 \in S
  <2>1. PICK r : r = [i \in 0 .. k |-> IF i = 0 THEN 0 ELSE r[i - 1] + s[i]]
    BY <1>2
  <2>2. PICK q : q = [i \in 0 .. k + 1 |-> IF i <= k THEN r[i] ELSE r[k] + s[k + 1]]
    OBVIOUS
  <2>3. ASSUME NEW i \in 0 .. k + 1
        PROVE  q[i] = IF i = 0 THEN 0 ELSE q[i - 1] + s[i]
    <3>1. CASE i = 0
      BY <2>1, <2>2, <3>1
    <3>2. CASE i \in 1 .. k
      <4>1. q[i] = r[i] /\ q[i - 1] = r[i - 1]
        BY <2>2, <3>2
      <4>2. r[i] = r[i - 1] + s[i]
        BY <2>1, <3>2
      <4> QED
        BY <3>2, <4>1, <4>2
    <3>3. CASE i = k + 1
      <4>1. q[i - 1] = r[k] /\ i # 0
        BY <2>2, <3>3
      <4>2. q[i] = r[k] + s[k + 1]
        BY <2>2, <3>3
      <4> QED
        BY <3>3, <4>1, <4>2
    <3> QED
      BY <3>1, <3>2, <3>3
  <2>4. q = [i \in 0 .. k + 1 |-> IF i = 0 THEN 0 ELSE q[i - 1] + s[i]]
    BY <2>2, <2>3
  <2> QED
    BY <2>4
<1>3. n \in S
  <2> HIDE DEF S
  <2> QED
    BY <1>1, <1>2, InductionUpTo
<1>4. Len(s) = n
  BY LengthIs
<1>5. \E r : IsSum(r, s)
  BY <1>3, <1>4 DEF IsSum
<1>6. PICK r : IsSum(r, s) /\ Total(s) = r[Len(s)]
  <2>1. PICK q : q = CHOOSE r : IsSum(r, s)
    OBVIOUS
  <2>2. IsSum(q, s)
    BY <1>5, <2>1, Zenon
  <2>3. Total(s) = q[Len(s)]
    BY <2>1, Zenon DEF Total, IsSum
  <2> QED
    BY <2>2, <2>3
<1>7. /\ r = [k \in 0 .. n |-> IF k = 0 THEN 0 ELSE r[k - 1] + s[k]]
      /\ Total(s) = r[n]
  BY <1>4, <1>6 DEF IsSum
<1>8. r[0] = 0 /\ \A k \in 1 .. n : r[k] = r[k - 1] + s[k]
  BY <1>7
<1>9. \A k \in 0 .. n : r[k] \in Nat
  <2> DEFINE R == {k \in Nat : k <= n => r[k] \in Nat}
  <2>1. 0 \in R
    BY <1>8
  <2>2. ASSUME NEW k \in 0 .. n - 1, k \in R
        PROVE  k + 1 \in R
    <3>1. k + 1 \in 1 .. n /\ (k + 1) - 1 = k /\ r[k] \in Nat
      BY <2>2
    <3> QED
      BY <1>8, <3>1
  <2>3. ASSUME NEW m \in 0 .. n
        PROVE  m \in R
    <3>1. \A k \in 0 .. m - 1 : k \in R => k + 1 \in R
      BY <2>2
    <3> HIDE DEF R
    <3> QED
      BY <2>1, <3>1, InductionUpTo
  <2> QED
    BY <2>3
<1> QED
  BY <1>7, <1>8, <1>9 DEF Sums

(* A sum is a number, and larger terms make a larger sum.                  *)
LEMMA TotalMonotone ==
  ASSUME NEW n \in Nat, NEW s \in [1 .. n -> Nat], NEW t \in [1 .. n -> Nat],
         \A i \in 1 .. n : s[i] <= t[i]
  PROVE  Total(s) \in Nat /\ Total(t) \in Nat /\ Total(s) <= Total(t)
<1>1. PICK p : Sums(p, s, n) /\ Total(s) = p[n]
  BY TotalIs
<1>2. PICK q : Sums(q, t, n) /\ Total(t) = q[n]
  BY TotalIs
<1> DEFINE S == {k \in Nat : k <= n => p[k] <= q[k]}
<1>3. 0 \in S
  BY <1>1, <1>2 DEF Sums
<1>4. ASSUME NEW k \in 0 .. n - 1, k \in S
      PROVE  k + 1 \in S
  <2>1. k + 1 \in 1 .. n /\ (k + 1) - 1 = k /\ k \in 0 .. n /\ k + 1 \in 0 .. n
    OBVIOUS
  <2>2. p[k] <= q[k] /\ s[k + 1] <= t[k + 1]
    BY <1>4, <2>1
  <2>3. p[k + 1] = p[k] + s[k + 1] /\ q[k + 1] = q[k] + t[k + 1]
    BY <1>1, <1>2, <2>1 DEF Sums
  <2>4. p[k] \in Nat /\ q[k] \in Nat /\ s[k + 1] \in Nat /\ t[k + 1] \in Nat
    BY <1>1, <1>2, <2>1 DEF Sums
  <2> QED
    BY <2>2, <2>3, <2>4
<1>5. n \in S
  <2> HIDE DEF S
  <2> QED
    BY <1>3, <1>4, InductionUpTo
<1> QED
  BY <1>1, <1>2, <1>5 DEF Sums

LEMMA TotalType ==
  ASSUME NEW n \in Nat, NEW s \in [1 .. n -> Nat]
  PROVE  Total(s) \in Nat
BY TotalMonotone

(* When one term changes, so does the sum, by as much.                     *)
LEMMA TotalChange ==
  ASSUME NEW n \in Nat, NEW s \in [1 .. n -> Nat], NEW t \in [1 .. n -> Nat],
         NEW j \in 1 .. n, \A i \in 1 .. n : i # j => t[i] = s[i]
  PROVE  Total(t) + s[j] = Total(s) + t[j]
<1>1. PICK p : Sums(p, s, n) /\ Total(s) = p[n]
  BY TotalIs
<1>2. PICK q : Sums(q, t, n) /\ Total(t) = q[n]
  BY TotalIs
<1> DEFINE S == {k \in Nat : k <= n => /\ k < j => q[k] = p[k]
                                       /\ k >= j => q[k] + s[j] = p[k] + t[j]}
<1>3. 0 \in S
  BY <1>1, <1>2 DEF Sums
<1>4. ASSUME NEW k \in 0 .. n - 1, k \in S
      PROVE  k + 1 \in S
  <2>1. k + 1 \in 1 .. n /\ (k + 1) - 1 = k /\ k \in 0 .. n /\ k + 1 \in 0 .. n
    OBVIOUS
  <2>2. (k < j => q[k] = p[k]) /\ (k >= j => q[k] + s[j] = p[k] + t[j])
    BY <1>4, <2>1
  <2>3. p[k + 1] = p[k] + s[k + 1] /\ q[k + 1] = q[k] + t[k + 1]
    BY <1>1, <1>2, <2>1 DEF Sums
  <2>4. /\ p[k] \in Nat /\ q[k] \in Nat /\ s[k + 1] \in Nat /\ t[k + 1] \in Nat
        /\ s[j] \in Nat /\ t[j] \in Nat
    BY <1>1, <1>2, <2>1 DEF Sums
  <2>5. CASE k + 1 < j
    <3>1. t[k + 1] = s[k + 1] /\ q[k] = p[k]
      BY <2>1, <2>2, <2>5
    <3> QED
      BY <2>3, <2>5, <3>1
  <2>6. CASE k + 1 = j
    <3>0. s[k + 1] = s[j] /\ t[k + 1] = t[j]
      BY <2>6, Zenon
    <3>1. q[k] = p[k] /\ s[k + 1] = s[j] /\ t[k + 1] = t[j]
      BY <2>1, <2>2, <2>6, <3>0
    <3>2. q[k + 1] = p[k] + t[j] /\ p[k + 1] = p[k] + s[j]
      BY <2>3, <3>1
    <3>3. q[k + 1] + s[j] = p[k + 1] + t[j]
      BY <2>4, <3>2
    <3> QED
      BY <2>6, <3>3
  <2>7. CASE k + 1 > j
    <3>1. t[k + 1] = s[k + 1] /\ q[k] + s[j] = p[k] + t[j]
      BY <2>1, <2>2, <2>7
    <3>2. q[k + 1] = q[k] + s[k + 1]
      BY <2>3, <3>1
    <3>3. q[k + 1] + s[j] = p[k + 1] + t[j]
      <4>1. (q[k] + s[k + 1]) + s[j] = (p[k] + s[k + 1]) + t[j]
        <5>1. PICK a \in Nat, b \in Nat, c \in Nat, d \in Nat, e \in Nat :
                a = p[k] /\ b = q[k] /\ c = s[k + 1] /\ d = s[j] /\ e = t[j]
          BY <2>4
        <5>2. b + d = a + e
          BY <3>1, <5>1, Zenon
        <5>3. (b + c) + d = (a + c) + e
          BY <5>2
        <5> QED
          BY <5>1, <5>3, Zenon
      <4> QED
        BY <2>3, <3>2, <4>1
    <3> QED
      BY <2>7, <3>3
  <2> QED
    BY <2>1, <2>5, <2>6, <2>7
<1>5. n \in S
  <2> HIDE DEF S
  <2> QED
    BY <1>3, <1>4, InductionUpTo
<1> QED
  BY <1>1, <1>2, <1>5

(* A sum with at most one term that is not zero is that term.              *)
LEMMA TotalZero ==
  ASSUME NEW n \in Nat, NEW s \in [1 .. n -> Nat], \A i \in 1 .. n : s[i] = 0
  PROVE  Total(s) = 0
<1>1. PICK p : Sums(p, s, n) /\ Total(s) = p[n]
  BY TotalIs
<1> DEFINE S == {k \in Nat : k <= n => p[k] = 0}
<1>2. 0 \in S
  BY <1>1 DEF Sums
<1>3. ASSUME NEW k \in 0 .. n - 1, k \in S
      PROVE  k + 1 \in S
  <2>1. k + 1 \in 1 .. n /\ (k + 1) - 1 = k /\ p[k] = 0
    BY <1>3
  <2> QED
    BY <1>1, <2>1 DEF Sums
<1>4. n \in S
  <2> HIDE DEF S
  <2> QED
    BY <1>2, <1>3, InductionUpTo
<1> QED
  BY <1>1, <1>4

LEMMA TotalSingle ==
  ASSUME NEW n \in Nat, NEW s \in [1 .. n -> Nat], NEW j \in 1 .. n,
         \A i \in 1 .. n : i # j => s[i] = 0
  PROVE  Total(s) = s[j]
<1>1. PICK z : z = [i \in 1 .. n |-> 0]
  OBVIOUS
<1>2. z \in [1 .. n -> Nat] /\ \A i \in 1 .. n : z[i] = 0
  BY <1>1
<1>3. Total(z) = 0
  BY <1>2, TotalZero
<1>4. Total(s) + z[j] = Total(z) + s[j]
  BY <1>2, TotalChange
<1>5. Total(s) \in Nat /\ s[j] \in Nat
  BY TotalType
<1> QED
  BY <1>2, <1>3, <1>4, <1>5

(* The sum of two sequences after one another.                             *)
LEMMA TotalConcat ==
  ASSUME NEW n \in Nat, NEW m \in Nat, NEW s \in [1 .. n -> Nat], NEW t \in [1 .. m -> Nat],
         NEW u \in [1 .. n + m -> Nat], Joins(u, s, n, t, m)
  PROVE  Total(u) = Total(s) + Total(t)
<1>0. n + m \in Nat
  OBVIOUS
<1>1. PICK p : Sums(p, s, n) /\ Total(s) = p[n]
  BY TotalIs
<1>2. PICK q : Sums(q, t, m) /\ Total(t) = q[m]
  BY TotalIs
<1>3. PICK r : Sums(r, u, n + m) /\ Total(u) = r[n + m]
  BY <1>0, TotalIs
<1>j. /\ \A i \in 1 .. n : u[i] = s[i]
      /\ \A i \in 1 .. m : u[n + i] = t[i]
  BY DEF Joins
<1> DEFINE S == {k \in Nat : k <= n => r[k] = p[k]}
           T == {k \in Nat : k <= m => r[n + k] = p[n] + q[k]}
<1>4. n \in S
  <2>1. 0 \in S
    BY <1>1, <1>3 DEF Sums
  <2>2. ASSUME NEW k \in 0 .. n - 1, k \in S
        PROVE  k + 1 \in S
    <3>1. k + 1 \in 1 .. n /\ k + 1 \in 1 .. n + m /\ (k + 1) - 1 = k /\ r[k] = p[k]
      BY <2>2
    <3>2. r[k + 1] = r[k] + u[k + 1] /\ p[k + 1] = p[k] + s[k + 1]
      BY <1>1, <1>3, <3>1 DEF Sums
    <3> QED
      BY <1>j, <3>1, <3>2
  <2> HIDE DEF S
  <2> QED
    BY <2>1, <2>2, InductionUpTo
<1>5. m \in T
  <2>1. 0 \in T
    <3>1. r[n] = p[n] /\ p[n] \in Nat /\ q[0] = 0
      BY <1>1, <1>2, <1>4 DEF Sums
    <3> QED
      BY <3>1
  <2>2. ASSUME NEW k \in 0 .. m - 1, k \in T
        PROVE  k + 1 \in T
    <3>1. /\ k + 1 \in 1 .. m /\ k \in 0 .. m /\ n + (k + 1) \in 1 .. n + m
          /\ (n + (k + 1)) - 1 = n + k /\ (k + 1) - 1 = k
          /\ r[n + k] = p[n] + q[k]
      BY <2>2
    <3>2. r[n + (k + 1)] = r[n + k] + u[n + (k + 1)] /\ q[k + 1] = q[k] + t[k + 1]
      BY <1>2, <1>3, <3>1 DEF Sums
    <3>3. u[n + (k + 1)] = t[k + 1] /\ t[k + 1] \in Nat /\ p[n] \in Nat /\ q[k] \in Nat
      BY <1>j, <1>1, <1>2, <3>1 DEF Sums
    <3> QED
      BY <3>1, <3>2, <3>3
  <2> HIDE DEF T
  <2> QED
    BY <2>1, <2>2, InductionUpTo
<1> QED
  BY <1>1, <1>2, <1>3, <1>5

-----------------------------------------------------------------------------
(* The elements at some positions.                                         *)

Rank(K, k) == Cardinality({j \in K : j <= k})

(* The ranks of the positions are the numbers up to how many there are.    *)
LEMMA Ranks ==
  ASSUME NEW n \in Nat, NEW K \in SUBSET (1 .. n)
  PROVE  /\ IsFiniteSet(K) /\ Cardinality(K) \in Nat
         /\ \A k \in K : Rank(K, k) \in 1 .. Cardinality(K)
         /\ \A j, k \in K : j < k => Rank(K, j) < Rank(K, k)
         /\ \A i \in 1 .. Cardinality(K) : \E k \in K : Rank(K, k) = i
<1>1. IsFiniteSet(K) /\ Cardinality(K) \in Nat
  <2>1. IsFiniteSet(1 .. n)
    BY FS_Interval
  <2> QED
    BY <2>1, FS_Subset, FS_CardinalityType
<1> DEFINE Low(k) == {j \in K : j <= k}
<1>2. ASSUME NEW k \in K
      PROVE  IsFiniteSet(Low(k)) /\ Cardinality(Low(k)) \in 1 .. Cardinality(K)
  <2>1. Low(k) \in SUBSET K /\ k \in Low(k)
    OBVIOUS
  <2> HIDE DEF Low
  <2>2. IsFiniteSet(Low(k)) /\ Cardinality(Low(k)) <= Cardinality(K)
    BY <1>1, <2>1, FS_Subset
  <2>3. Cardinality(Low(k)) \in Nat /\ Cardinality(Low(k)) # 0
    BY <2>1, <2>2, FS_CardinalityType, FS_EmptySet
  <2> QED
    BY <1>1, <2>2, <2>3
<1>3. ASSUME NEW j \in K, NEW k \in K, j < k
      PROVE  Cardinality(Low(j)) < Cardinality(Low(k))
  <2>0. k <= k /\ ~ (k <= j) /\ \A x \in K : x <= j => x <= k
    BY <1>3
  <2>1. Low(j) \in SUBSET Low(k) /\ k \notin Low(j) /\ k \in Low(k)
    BY <2>0, Zenon
  <2> HIDE DEF Low
  <2>2. Cardinality(Low(j)) <= Cardinality(Low(k)) /\ Cardinality(Low(j)) # Cardinality(Low(k))
    BY <1>2, <2>1, FS_Subset
  <2> QED
    BY <1>2, <2>2
<1>4. ASSUME NEW i \in 1 .. Cardinality(K)
      PROVE  \E k \in K : Cardinality(Low(k)) = i
  <2>1. PICK m \in Nat : m = Cardinality(K)
    BY <1>1
  <2>2. PICK f : f = [k \in K |-> Cardinality(Low(k))]
    OBVIOUS
  <2>3. f \in [K -> 1 .. m] /\ \A j, k \in K : f[j] = f[k] => j = k
    <3> HIDE DEF Low
    <3>1. \A k \in K : Cardinality(Low(k)) \in 1 .. m
      BY <1>2, <2>1
    <3>2. \A j, k \in K : j < k => Cardinality(Low(j)) < Cardinality(Low(k))
      BY <1>3, Zenon
    <3>3. f \in [K -> 1 .. m]
      BY <2>2, <3>1
    <3>4. \A j, k \in K : j < k => f[j] < f[k]
      BY <2>2, <3>2
    <3>5. ASSUME NEW j \in K, NEW k \in K, f[j] = f[k]
          PROVE  j = k
      <4>1. f[j] \in Nat /\ ~ (j < k) /\ ~ (k < j) /\ j \in Nat /\ k \in Nat
        BY <3>3, <3>4, <3>5
      <4> QED
        BY <4>1
    <3> QED
      BY <3>3, <3>5
  <2>4. f \in Injection(K, 1 .. m)
    BY <2>3 DEF Injection, IsInjective
  <2>5. IsFiniteSet(1 .. m) /\ Cardinality(1 .. m) = m
    BY FS_Interval
  <2>6. f \in Surjection(K, 1 .. m)
    BY <2>1, <2>4, <2>5, FS_Injection
  <2>7. \E k \in K : f[k] = i
    BY <2>1, <2>6 DEF Surjection
  <2> QED
    BY <2>2, <2>7
<1> QED
  BY <1>1, <1>2, <1>3, <1>4 DEF Rank

(* Members lists each of the positions once, by rank.                      *)
Listing(pos, K) ==
  /\ pos \in [1 .. Cardinality(K) -> K]
  /\ \A k \in K : pos[Rank(K, k)] = k
  /\ \A i, j \in 1 .. Cardinality(K) : pos[i] = pos[j] => i = j

(* u lists the elements of s at the positions K.                           *)
Lists(u, pos, s, K) ==
  /\ Listing(pos, K)
  /\ \A i \in 1 .. Cardinality(K) : u[i] = s[pos[i]]

LEMMA MembersAre ==
  ASSUME NEW n \in Nat, NEW S, NEW s \in [1 .. n -> S], NEW K \in SUBSET (1 .. n)
  PROVE  /\ Cardinality(K) \in Nat
         /\ Members(s, K) \in [1 .. Cardinality(K) -> S]
         /\ \E pos : Lists(Members(s, K), pos, s, K)
<1>1. /\ IsFiniteSet(K) /\ Cardinality(K) \in Nat
      /\ \A k \in K : Rank(K, k) \in 1 .. Cardinality(K)
      /\ \A j, k \in K : j < k => Rank(K, j) < Rank(K, k)
      /\ \A i \in 1 .. Cardinality(K) : \E k \in K : Rank(K, k) = i
  BY Ranks
<1>2. PICK m \in Nat : m = Cardinality(K)
  BY <1>1
<1>3. PICK pos : pos = [i \in 1 .. m |-> CHOOSE k \in K : Rank(K, k) = i]
  OBVIOUS
<1>4. \A i \in 1 .. m : pos[i] \in K /\ Rank(K, pos[i]) = i
  <2> SUFFICES ASSUME NEW i \in 1 .. m
               PROVE  pos[i] \in K /\ Rank(K, pos[i]) = i
    OBVIOUS
  <2>1. \E k \in K : Rank(K, k) = i
    BY <1>1, <1>2
  <2>2. pos[i] = CHOOSE k \in K : Rank(K, k) = i
    BY <1>3
  <2> QED
    BY <2>1, <2>2, Zenon
<1>5. \A j, k \in K : Rank(K, j) = Rank(K, k) => j = k
  <2> SUFFICES ASSUME NEW j \in K, NEW k \in K, Rank(K, j) = Rank(K, k)
               PROVE  j = k
    OBVIOUS
  <2>1. Rank(K, j) \in Nat /\ ~ (j < k) /\ ~ (k < j) /\ j \in Nat /\ k \in Nat
    BY <1>1
  <2> QED
    BY <2>1
<1>6. \A k \in K : pos[Rank(K, k)] = k
  BY <1>1, <1>2, <1>4, <1>5
<1>7. Listing(pos, K)
  <2>1. pos \in [1 .. m -> K]
    BY <1>3, <1>4
  <2>2. \A i, j \in 1 .. m : pos[i] = pos[j] => i = j
    BY <1>4
  <2> QED
    BY <1>2, <1>6, <2>1, <2>2 DEF Listing
<1>8. Members(s, K) = [i \in 1 .. m |-> s[pos[i]]]
  <2>1. Members(s, K) = [i \in 1 .. m |-> s[CHOOSE k \in K : Rank(K, k) = i]]
    BY <1>2, Zenon DEF Members, Rank
  <2>2. \A i \in 1 .. m : pos[i] = CHOOSE k \in K : Rank(K, k) = i
    BY <1>3
  <2> QED
    BY <2>1, <2>2
<1>9. \A i \in 1 .. m : s[pos[i]] \in S
  BY <1>4
<1> QED
  BY <1>1, <1>2, <1>7, <1>8, <1>9 DEF Lists

(* Leaving out terms that are zero leaves the sum as it is.                *)
LEMMA TotalMembers ==
  ASSUME NEW n \in Nat, NEW v \in [1 .. n -> Nat], NEW K \in SUBSET (1 .. n),
         \A i \in (1 .. n) \ K : v[i] = 0,
         NEW u \in [1 .. Cardinality(K) -> Nat], NEW pos, Lists(u, pos, v, K)
  PROVE  Total(u) = Total(v)
<1>1. /\ IsFiniteSet(K) /\ Cardinality(K) \in Nat
      /\ \A k \in K : Rank(K, k) \in 1 .. Cardinality(K)
  BY Ranks
<1>2. PICK m \in Nat : m = Cardinality(K)
  BY <1>1
<1>l. Listing(pos, K)
  BY DEF Lists
<1>3. PICK w \in [1 .. m -> Nat] : w = u /\ \A i \in 1 .. m : w[i] = v[pos[i]]
  BY <1>2 DEF Lists
<1>4. PICK p : Sums(p, v, n) /\ Total(v) = p[n]
  BY TotalIs
<1>5. PICK q : Sums(q, w, m) /\ Total(w) = q[m]
  BY TotalIs
<1> DEFINE Low(k) == {j \in K : j <= k}
<1>a. Low(0) = {} /\ Low(n) = K
  <2>1. \A j \in K : ~ (j <= 0) /\ j <= n
    OBVIOUS
  <2> QED
    BY <2>1, Zenon
<1>b. ASSUME NEW k \in 0 .. n - 1
      PROVE  /\ k + 1 \in K => /\ Low(k + 1) = Low(k) \cup {k + 1}
                                /\ k + 1 \notin Low(k) /\ Low(k) \in SUBSET K
             /\ k + 1 \notin K => Low(k + 1) = Low(k)
  <2>1. \A j \in K : j <= k + 1 <=> j <= k \/ j = k + 1
    OBVIOUS
  <2>2. ~ (k + 1 <= k)
    OBVIOUS
  <2> QED
    BY <2>1, <2>2
<1> HIDE DEF Low
<1> DEFINE S == {k \in Nat : k <= n => Cardinality(Low(k)) \in 0 .. m
                                       /\ q[Cardinality(Low(k))] = p[k]}
<1>6. 0 \in S
  <2>2. Cardinality(Low(0)) = 0
    BY <1>a, FS_EmptySet
  <2>3. q[0] = p[0]
    BY <1>4, <1>5 DEF Sums
  <2> QED
    BY <2>2, <2>3
<1>7. ASSUME NEW k \in 0 .. n - 1, k \in S
      PROVE  k + 1 \in S
  <2>1. k + 1 \in 1 .. n /\ (k + 1) - 1 = k /\ k \in 0 .. n /\ k + 1 \in 0 .. n
    OBVIOUS
  <2>2. PICK c \in 0 .. m : c = Cardinality(Low(k)) /\ q[c] = p[k]
    BY <1>7, <2>1
  <2>3. p[k + 1] = p[k] + v[k + 1] /\ p[k] \in Nat /\ v[k + 1] \in Nat
    BY <1>4, <2>1 DEF Sums
  <2>4. CASE k + 1 \in K
    <3>1. Low(k + 1) = Low(k) \cup {k + 1} /\ k + 1 \notin Low(k) /\ Low(k) \in SUBSET K
      BY <1>b, <2>4
    <3>2. Cardinality(Low(k + 1)) = c + 1
      <4>1. IsFiniteSet(Low(k))
        BY <1>1, <3>1, FS_Subset
      <4>2. Cardinality(Low(k) \cup {k + 1}) = Cardinality(Low(k)) + 1
        BY <3>1, <4>1, FS_AddElement, Zenon
      <4> QED
        BY <2>2, <3>1, <4>2
    <3>3. Rank(K, k + 1) = c + 1 /\ c + 1 \in 1 .. m
      BY <1>1, <1>2, <2>4, <3>2 DEF Rank, Low
    <3>4. pos[c + 1] = k + 1
      BY <1>l, <2>4, <3>3 DEF Listing
    <3>5. w[c + 1] = v[k + 1]
      BY <1>3, <3>3, <3>4
    <3>6. q[c + 1] = q[c] + w[c + 1]
      <4>1. (c + 1) - 1 = c
        OBVIOUS
      <4> QED
        BY <1>5, <3>3, <4>1 DEF Sums
    <3>7. q[c + 1] = p[k + 1]
      BY <2>2, <2>3, <3>5, <3>6
    <3> QED
      BY <2>1, <3>2, <3>3, <3>7
  <2>5. CASE k + 1 \notin K
    <3>1. Low(k + 1) = Low(k)
      BY <1>b, <2>5
    <3>2. v[k + 1] = 0
      BY <2>1, <2>5
    <3>3. p[k + 1] = p[k]
      BY <2>3, <3>2
    <3> QED
      BY <2>1, <2>2, <3>1, <3>3
  <2> QED
    BY <2>4, <2>5
<1>8. n \in S
  <2> HIDE DEF S
  <2> QED
    BY <1>6, <1>7, InductionUpTo
<1>10. q[m] = p[n]
  BY <1>2, <1>8, <1>a
<1> QED
  BY <1>2, <1>3, <1>4, <1>5, <1>10

-----------------------------------------------------------------------------
(* Limits and weights.                                                     *)

Share == [id : Limits, weight : Nat \ {0}]
Entry == [id : Limits, weight : Nat \ {0}, age : Nat]

LEMMA LimitTypes ==
  ASSUME NEW l \in Limits
  PROVE  /\ Interval[l] \in Nat /\ Margin[l] \in Nat /\ MaxDelay \in Nat
         /\ MaxDelay <= Margin[l] /\ Interval[l] >= 1
         /\ Window(l) = Interval[l] + Margin[l] /\ Window(l) \in Nat
         /\ Limit(l) \in Nat
<1>1. Limit(l) \in Nat
  <2>1. PICK r \in Nat, s \in Nat : r = RawLimit[l] /\ s = SharePct
    BY ThrottlerAssumption
  <2>2. r * s \in Nat
    OBVIOUS
  <2>3. PICK x : x = (r * s) \div 100
    OBVIOUS
  <2>4. x \in Nat
    BY <2>2, <2>3
  <2>5. \E m \in {1, x} : \A y \in {1, x} : m >= y
    <3>1. CASE x >= 1
      BY <2>4, <3>1
    <3>2. CASE x < 1
      BY <2>4, <3>2
    <3> QED
      BY <2>4, <3>1, <3>2
  <2>6. Limit(l) \in {1, x}
    <3>1. Limit(l) = CHOOSE m \in {1, x} : \A y \in {1, x} : m >= y
      BY <2>1, <2>3, Zenon DEF Limit, Max
    <3> QED
      BY <2>5, <3>1, Zenon
  <2> QED
    BY <2>4, <2>6
<1>2. /\ Interval[l] \in Nat /\ Margin[l] \in Nat /\ MaxDelay \in Nat
      /\ MaxDelay <= Margin[l] /\ Interval[l] >= 1
  BY ThrottlerAssumption, DelayAssumption
<1> QED
  BY <1>1, <1>2 DEF Window

(* The related limits are configured ones, and all different.              *)
Different(related, n) == \A i, j \in 1 .. n : related[i].id = related[j].id => i = j

LEMMA RelatedAre ==
  ASSUME NEW p
  PROVE  \E n \in Nat :
           /\ RelatedLimits(p) \in [1 .. n -> Share]
           /\ Different(RelatedLimits(p), n)
           /\ p \notin Limits => n = 0
           /\ p \in Limits => n >= 1 /\ RelatedLimits(p)[n] = [id |-> p, weight |-> Weight[p]]
<1>1. CASE p \notin Limits
  <2>1. RelatedLimits(p) \in [1 .. 0 -> Share] /\ Different(RelatedLimits(p), 0)
    BY <1>1 DEF RelatedLimits, Different
  <2> QED
    BY <1>1, <2>1
<1>2. CASE p \in Limits
  <2>1. Links[p] \in Seq([id : Ids, weight : Nat \ {0}]) /\ Weight[p] \in Nat \ {0}
    BY <1>2, ThrottlerAssumption
  <2>n. PICK n \in Nat : n = Len(Links[p])
    BY <2>1, LenProperties, Zenon
  <2>2. PICK s : s = Links[p] /\ s \in [1 .. n -> [id : Ids, weight : Nat \ {0}]]
    BY <2>1, <2>n, LenProperties, Zenon
  <2>3. PICK K : K = {i \in DOMAIN s : s[i].id \in Limits} /\ K \in SUBSET (1 .. n)
    BY <2>2
  <2>m. PICK m \in Nat : m = Cardinality(K)
    BY <2>2, <2>3, MembersAre
  <2>r. PICK R : R = [id : Ids, weight : Nat \ {0}] /\ s \in [1 .. n -> R]
    BY <2>2
  <2>t. Members(s, K) \in [1 .. Cardinality(K) -> R] /\ \E pos : Lists(Members(s, K), pos, s, K)
    BY <2>3, <2>r, MembersAre
  <2>u. PICK t \in [1 .. m -> R] : t = Members(s, K)
    BY <2>m, <2>t
  <2>4. PICK pos : Listing(pos, K) /\ \A i \in 1 .. m : t[i] = s[pos[i]]
    BY <2>m, <2>t, <2>u DEF Lists
  <2>5. \A i \in 1 .. m : pos[i] \in K
    BY <2>4, <2>m DEF Listing
  <2>6. \A i \in 1 .. m : t[i] \in Share /\ t[i].id # p
    <3> SUFFICES ASSUME NEW i \in 1 .. m
                 PROVE  t[i] \in Share /\ t[i].id # p
      OBVIOUS
    <3>1. pos[i] \in DOMAIN s /\ s[pos[i]].id \in Limits /\ t[i] = s[pos[i]]
      BY <2>3, <2>4, <2>5
    <3>2. s[pos[i]].id # p
      BY <1>2, <2>2, <3>1, LinkAssumption
    <3>3. s[pos[i]] \in [id : Ids, weight : Nat \ {0}]
      BY <2>2, <3>1
    <3> QED
      BY <3>1, <3>2, <3>3 DEF Share
  <2>7. \A i, j \in 1 .. m : t[i].id = t[j].id => i = j
    <3> SUFFICES ASSUME NEW i \in 1 .. m, NEW j \in 1 .. m, t[i].id = t[j].id
                 PROVE  i = j
      OBVIOUS
    <3>1. pos[i] \in DOMAIN s /\ pos[j] \in DOMAIN s /\ s[pos[i]].id = s[pos[j]].id
      BY <2>3, <2>4, <2>5
    <3>2. pos[i] = pos[j]
      BY <1>2, <2>2, <3>1, LinkAssumption
    <3> QED
      BY <2>4, <2>m, <3>2 DEF Listing
  <2>8. PICK x \in Share : x = [id |-> p, weight |-> Weight[p]]
    BY <1>2, <2>1 DEF Share
  <2>9. PICK r : r = RelatedLimits(p) /\ r = t \o <<x>>
    BY <1>2, <2>2, <2>3, <2>u, <2>8 DEF RelatedLimits
  <2>10. t \in [1 .. m -> Share]
    BY <2>6
  <2>11. t \in Seq(Share) /\ Len(t) = m
    BY <2>10, LengthIs
  <2>12. /\ r \in [1 .. m + 1 -> Share]
         /\ \A i \in 1 .. m : r[i] = t[i]
         /\ r[m + 1] = x
    <3>1. <<x>> \in [1 .. 1 -> Share] /\ <<x>>[1] = x
      BY <2>8
    <3>2. PICK y \in [1 .. 1 -> Share] : y = <<x>>
      BY <3>1
    <3>3. 1 \in Nat /\ m + 1 \in Nat
      OBVIOUS
    <3>4. t \o y \in [1 .. m + 1 -> Share] /\ Joins(t \o y, t, m, y, 1)
      BY <2>10, <3>3, ConcatIs
    <3> QED
      BY <2>9, <3>1, <3>2, <3>4 DEF Joins
  <2>13. ASSUME NEW i \in 1 .. m + 1, NEW j \in 1 .. m + 1, r[i].id = r[j].id
         PROVE  i = j
    <3>1. x.id = p
      BY <2>8
    <3>2. CASE i \in 1 .. m /\ j \in 1 .. m
      BY <2>7, <2>12, <2>13, <3>2
    <3>3. CASE i = m + 1 /\ j \in 1 .. m
      BY <2>6, <2>12, <2>13, <3>1, <3>3
    <3>4. CASE i \in 1 .. m /\ j = m + 1
      BY <2>6, <2>12, <2>13, <3>1, <3>4
    <3>5. CASE i = m + 1 /\ j = m + 1
      BY <3>5
    <3> QED
      BY <3>2, <3>3, <3>4, <3>5
  <2>14. m + 1 \in Nat /\ m + 1 >= 1
    OBVIOUS
  <2> QED
    BY <1>2, <2>8, <2>9, <2>12, <2>13, <2>14 DEF Different
<1> QED
  BY <1>1, <1>2

(* What the related limits of a call take of a limit: the weight of the    *)
(* one that is this limit.                                                 *)
Shares(related, l) == [i \in DOMAIN related |-> IF related[i].id = l THEN related[i].weight ELSE 0]

LEMMA WeightIs ==
  ASSUME NEW n \in Nat, NEW related \in [1 .. n -> Share], NEW l,
         Different(related, n)
  PROVE  /\ Shares(related, l) \in [1 .. n -> Nat]
         /\ WeightUnder(related, l) = Total(Shares(related, l))
         /\ WeightUnder(related, l) \in Nat
         /\ \A i \in 1 .. n : related[i].id = l => WeightUnder(related, l) = related[i].weight
         /\ (\A i \in 1 .. n : related[i].id # l) => WeightUnder(related, l) = 0
<1>1. PICK v \in [1 .. n -> Nat] :
        /\ v = Shares(related, l)
        /\ v = [i \in 1 .. n |-> IF related[i].id = l THEN related[i].weight ELSE 0]
  BY DEF Shares, Share
<1>2. WeightUnder(related, l) = Total(v)
  BY <1>1, Zenon DEF WeightUnder, Shares
<1>3. ASSUME NEW i \in 1 .. n, related[i].id = l
      PROVE  Total(v) = related[i].weight
  <2>1. v[i] = related[i].weight /\ \A j \in 1 .. n : j # i => v[j] = 0
    BY <1>1, <1>3 DEF Different
  <2> QED
    BY <2>1, TotalSingle
<1>4. ASSUME \A i \in 1 .. n : related[i].id # l
      PROVE  Total(v) = 0
  <2>1. \A i \in 1 .. n : v[i] = 0
    BY <1>1, <1>4
  <2> QED
    BY <2>1, TotalZero
<1>5. Total(v) \in Nat
  BY TotalType
<1> QED
  BY <1>1, <1>2, <1>3, <1>4, <1>5

LEMMA WeightOfPath ==
  ASSUME NEW p, NEW l
  PROVE  WeightUnder(RelatedLimits(p), l) \in Nat
<1>1. PICK n \in Nat :
        /\ RelatedLimits(p) \in [1 .. n -> Share]
        /\ Different(RelatedLimits(p), n)
  BY RelatedAre, Zenon
<1> QED
  BY <1>1, WeightIs, Zenon

-----------------------------------------------------------------------------
(* The task logs.                                                          *)

(* What each entry counts for.                                             *)
Counts(ts, l, age) ==
  [i \in DOMAIN ts |-> IF ts[i].id = l /\ ts[i].age <= age THEN ts[i].weight ELSE 0]

LEMMA UsedIs ==
  ASSUME NEW n \in Nat, NEW ts \in [1 .. n -> Entry], NEW l, NEW age \in Nat
  PROVE  /\ Counts(ts, l, age) \in [1 .. n -> Nat]
         /\ UsedWithin(ts, l, age) = Total(Counts(ts, l, age))
         /\ UsedWithin(ts, l, age) \in Nat
<1>1. Counts(ts, l, age) \in [1 .. n -> Nat]
  BY DEF Counts, Entry
<1>2. UsedWithin(ts, l, age) = Total(Counts(ts, l, age))
  BY Zenon DEF UsedWithin, Counts
<1> QED
  BY <1>1, <1>2, TotalType

(* No entry is older than a tick over its window.                          *)
Fresh(ts) == \A i \in DOMAIN ts : ts[i].age <= Window(ts[i].id) + 1

(* flush takes only expired entries out, so what counts still counts.      *)
LEMMA FlushKeeps ==
  ASSUME NEW n \in Nat, NEW ts \in [1 .. n -> Entry], Fresh(ts)
  PROVE  \E m \in Nat :
           /\ Flush(ts) \in [1 .. m -> Entry] /\ Fresh(Flush(ts))
           /\ \A l \in Limits : \A age \in 0 .. Window(l) :
                UsedWithin(Flush(ts), l, age) = UsedWithin(ts, l, age)
<1> DEFINE RunLength(k) == k - Max({j \in 0 .. k : j = 0 \/ ~ Expired(ts[j])})
<1>1. PICK K : K = {k \in DOMAIN ts : RunLength(k) % 2 = 0} /\ Flush(ts) = Members(ts, K)
  BY Zenon DEF Flush
<1>2. K \in SUBSET (1 .. n)
  BY <1>1
<1>3. ASSUME NEW k \in 1 .. n, ~ Expired(ts[k])
      PROVE  k \in K
  <2>1. PICK J : J = {j \in 0 .. k : j = 0 \/ ~ Expired(ts[j])}
    OBVIOUS
  <2>2. k \in J /\ \A j \in J : k >= j /\ j \in Nat
    BY <1>3, <2>1
  <2>3. Max(J) \in J /\ \A j \in J : Max(J) >= j
    <3>1. \E x \in J : \A y \in J : x >= y
      BY <2>2
    <3> QED
      BY <3>1, Zenon DEF Max
  <2>4. Max(J) = k
    <3>1. PICK x \in Nat : x = Max(J) /\ x >= k /\ k >= x
      BY <2>2, <2>3
    <3> QED
      BY <3>1
  <2>5. RunLength(k) = 0
    BY <2>1, <2>4
  <2>6. 0 % 2 = 0
    OBVIOUS
  <2> HIDE DEF RunLength
  <2> QED
    BY <1>1, <2>5, <2>6
<1> HIDE DEF RunLength
<1>4. PICK m \in Nat : m = Cardinality(K)
  BY <1>2, MembersAre
<1>5. Members(ts, K) \in [1 .. Cardinality(K) -> Entry] /\ \E pos : Lists(Members(ts, K), pos, ts, K)
  BY <1>2, MembersAre
<1>6. PICK u \in [1 .. m -> Entry] : u = Flush(ts)
  BY <1>1, <1>4, <1>5
<1>a. PICK pos : Lists(u, pos, ts, K)
  BY <1>1, <1>5, <1>6
<1>7. \A i \in 1 .. m : u[i] = ts[pos[i]] /\ pos[i] \in K
  BY <1>4, <1>a DEF Lists, Listing
<1>8. Fresh(u)
  <2> SUFFICES ASSUME NEW i \in 1 .. m
               PROVE  u[i].age <= Window(u[i].id) + 1
    BY <1>6 DEF Fresh
  <2>1. u[i] = ts[pos[i]] /\ pos[i] \in DOMAIN ts
    BY <1>2, <1>7
  <2> QED
    BY <2>1 DEF Fresh
<1>9. ASSUME NEW l \in Limits, NEW age \in 0 .. Window(l)
      PROVE  UsedWithin(u, l, age) = UsedWithin(ts, l, age)
  <2>0. Window(l) \in Nat /\ age \in Nat /\ age <= Window(l)
    BY LimitTypes
  <2>1. PICK v \in [1 .. n -> Nat] : v = Counts(ts, l, age)
    BY <2>0, UsedIs
  <2>2. UsedWithin(ts, l, age) = Total(v)
    BY <2>0, <2>1, UsedIs
  <2>3. UsedWithin(u, l, age) = Total(Counts(u, l, age))
    BY <2>0, UsedIs
  <2>4. PICK w \in [1 .. m -> Nat] : w = Counts(u, l, age)
    BY <2>0, UsedIs
  <2>b. Lists(w, pos, v, K)
    <3>1. ASSUME NEW i \in 1 .. m
          PROVE  w[i] = v[pos[i]]
      <4>1. u[i] = ts[pos[i]] /\ pos[i] \in DOMAIN ts
        BY <1>2, <1>7
      <4> QED
        BY <2>1, <2>4, <4>1 DEF Counts
    <3> QED
      BY <1>4, <1>a, <3>1 DEF Lists
  <2>5. \A i \in (1 .. n) \ K : v[i] = 0
    <3> SUFFICES ASSUME NEW i \in 1 .. n, i \notin K
                 PROVE  v[i] = 0
      OBVIOUS
    <3>1. Expired(ts[i])
      BY <1>3
    <3>2. ts[i].age > Window(ts[i].id) /\ ts[i].age \in Nat
      BY <3>1 DEF Expired, Entry
    <3>3. ~ (ts[i].id = l /\ ts[i].age <= age)
      BY <2>0, <3>2
    <3> QED
      BY <2>1, <3>3 DEF Counts
  <2>6. Total(w) = Total(v)
    BY <1>2, <1>4, <2>5, <2>b, TotalMembers
  <2> QED
    BY <2>2, <2>3, <2>4, <2>6
<1> QED
  BY <1>6, <1>8, <1>9

(* acquire logs at least what the call takes of each limit.                *)
LEMMA AppendAdds ==
  ASSUME NEW n \in Nat, NEW ts \in [1 .. n -> Entry], Fresh(ts), NEW p \in Limits
  PROVE  \E m \in Nat :
           /\ AppendLogs(ts, p) \in [1 .. m -> Entry] /\ Fresh(AppendLogs(ts, p))
           /\ \A l \in Limits : \A age \in Nat :
                UsedWithin(AppendLogs(ts, p), l, age)
                  >= UsedWithin(ts, l, age) + WeightUnder(RelatedLimits(p), l)
<1>1. PICK k \in Nat :
        /\ RelatedLimits(p) \in [1 .. k -> Share]
        /\ Different(RelatedLimits(p), k)
  BY RelatedAre, Zenon
<1>2. PICK r \in [1 .. k -> Share] : r = RelatedLimits(p)
  BY <1>1
<1>3. PICK x \in Share : x = [id |-> p, weight |-> Weight[p]]
  BY ThrottlerAssumption DEF Share
<1>4. PICK y \in [1 .. 1 -> Share] : y = <<x>>
  <2>1. <<x>> \in [1 .. 1 -> Share] /\ <<x>>[1] = x
    OBVIOUS
  <2> QED
    BY <2>1
<1>5. 1 \in Nat /\ 1 + k \in Nat
  OBVIOUS
<1>6. y \o r \in [1 .. 1 + k -> Share] /\ Joins(y \o r, y, 1, r, k)
  BY <1>5, ConcatIs
<1>7. PICK logged \in [1 .. 1 + k -> Share] : logged = y \o r
  BY <1>6
<1>8. PICK tail : tail = [i \in 1 .. 1 + k |-> TaskLog(logged[i])]
  OBVIOUS
<1>9. \A i \in 1 .. 1 + k :
        /\ tail[i] \in Entry
        /\ tail[i].id = logged[i].id /\ tail[i].weight = logged[i].weight /\ tail[i].age = 0
  BY <1>8 DEF TaskLog, Share, Entry
<1>10. tail \in [1 .. 1 + k -> Entry]
  BY <1>8, <1>9
<1>11. AppendLogs(ts, p) = ts \o tail
  <2>1. DOMAIN logged = 1 .. 1 + k
    OBVIOUS
  <2>2. logged = <<[id |-> p, weight |-> Weight[p]]>> \o RelatedLimits(p)
    BY <1>2, <1>3, <1>4, <1>7
  <2> QED
    BY <1>8, <2>1, <2>2 DEF AppendLogs
<1>12. PICK m \in Nat : m = n + (1 + k)
  OBVIOUS
<1>13. ts \o tail \in [1 .. m -> Entry] /\ Joins(ts \o tail, ts, n, tail, 1 + k)
  BY <1>5, <1>10, <1>12, ConcatIs
<1>14. PICK u \in [1 .. m -> Entry] : u = ts \o tail
  BY <1>13
<1>15. /\ \A i \in 1 .. n : u[i] = ts[i]
       /\ \A i \in 1 .. 1 + k : u[n + i] = tail[i]
  BY <1>13, <1>14 DEF Joins
<1>16. Fresh(u)
  <2> SUFFICES ASSUME NEW i \in 1 .. m
               PROVE  u[i].age <= Window(u[i].id) + 1
    BY DEF Fresh
  <2>1. CASE i <= n
    <3>1. i \in 1 .. n
      BY <2>1
    <3> QED
      BY <1>15, <3>1 DEF Fresh
  <2>2. CASE i > n
    <3>1. PICK j \in 1 .. 1 + k : i = n + j
      <4>1. i - n \in 1 .. 1 + k /\ i = n + (i - n)
        BY <1>12, <2>2
      <4> QED
        BY <4>1
    <3>2. u[i].age = 0 /\ u[i].id \in Limits
      BY <1>9, <1>15, <3>1 DEF Entry
    <3> QED
      BY <3>2, LimitTypes
  <2> QED
    BY <2>1, <2>2
<1>17. ASSUME NEW l \in Limits, NEW age \in Nat
       PROVE  UsedWithin(u, l, age) >= UsedWithin(ts, l, age) + WeightUnder(r, l)
  <2>1. PICK a \in [1 .. n -> Nat] : a = Counts(ts, l, age) /\ UsedWithin(ts, l, age) = Total(a)
    BY UsedIs
  <2>2. PICK b \in [1 .. 1 + k -> Nat] : b = Counts(tail, l, age)
    BY <1>5, <1>10, UsedIs
  <2>3. PICK c \in [1 .. m -> Nat] : c = Counts(u, l, age) /\ UsedWithin(u, l, age) = Total(c)
    BY UsedIs
  <2>4. PICK d \in [1 .. k -> Nat] : d = Shares(r, l) /\ WeightUnder(r, l) = Total(d)
    <3>1. Different(r, k)
      BY <1>1, <1>2
    <3>2. Shares(r, l) \in [1 .. k -> Nat] /\ WeightUnder(r, l) = Total(Shares(r, l))
      BY <3>1, WeightIs, Zenon
    <3> QED
      BY <3>2
  <2>5. PICK e \in [1 .. 1 -> Nat] : e = [i \in 1 .. 1 |-> b[1]]
    <3>1. b[1] \in Nat
      <4>1. 1 \in 1 .. 1 + k
        OBVIOUS
      <4> QED
        BY <4>1
    <3> QED
      BY <3>1
  <2>6. Joins(c, a, n, b, 1 + k)
    <3>1. \A i \in 1 .. n : c[i] = a[i]
      <4> SUFFICES ASSUME NEW i \in 1 .. n
                   PROVE  c[i] = a[i]
        OBVIOUS
      <4>1. i \in 1 .. m /\ u[i] = ts[i]
        BY <1>12, <1>15
      <4> QED
        BY <2>1, <2>3, <4>1 DEF Counts
    <3>2. \A i \in 1 .. 1 + k : c[n + i] = b[i]
      <4> SUFFICES ASSUME NEW i \in 1 .. 1 + k
                   PROVE  c[n + i] = b[i]
        OBVIOUS
      <4>1. n + i \in 1 .. m /\ u[n + i] = tail[i] /\ i \in DOMAIN tail
        BY <1>8, <1>12, <1>15
      <4> QED
        BY <2>2, <2>3, <4>1 DEF Counts
    <3> QED
      BY <3>1, <3>2 DEF Joins
  <2>7. Joins(b, e, 1, d, k)
    <3>1. \A i \in 1 .. 1 : b[i] = e[i]
      BY <2>5
    <3>2. \A i \in 1 .. k : b[1 + i] = d[i]
      <4> SUFFICES ASSUME NEW i \in 1 .. k
                   PROVE  b[1 + i] = d[i]
        OBVIOUS
      <4>1. 1 + i \in 1 .. 1 + k /\ 1 + i \in DOMAIN tail
        BY <1>8
      <4>2. logged[1 + i] = r[i]
        BY <1>6, <1>7 DEF Joins
      <4>3. tail[1 + i].id = r[i].id /\ tail[1 + i].weight = r[i].weight /\ tail[1 + i].age = 0
        BY <1>9, <4>1, <4>2
      <4>4. b[1 + i] = IF r[i].id = l THEN r[i].weight ELSE 0
        BY <2>2, <4>1, <4>3 DEF Counts
      <4> QED
        BY <2>4, <4>4 DEF Shares
    <3> QED
      BY <3>1, <3>2 DEF Joins
  <2>8. Total(c) = Total(a) + Total(b)
    BY <1>5, <1>12, <2>6, TotalConcat
  <2>9. Total(b) = Total(e) + Total(d)
    BY <1>5, <2>7, TotalConcat
  <2>10. Total(a) \in Nat /\ Total(b) \in Nat /\ Total(d) \in Nat /\ Total(e) \in Nat
    BY <1>5, TotalType
  <2> QED
    BY <2>1, <2>3, <2>4, <2>8, <2>9, <2>10
<1> QED
  BY <1>2, <1>11, <1>14, <1>16, <1>17

-----------------------------------------------------------------------------
(* The inductive invariant.                                                *)

(* The tasks in some order, to sum over them.                              *)
Task == CHOOSE e \in Bijection(1 .. Cardinality(Requests), Requests) : TRUE

(* The weight under l of the requests that have travelled for at most age  *)
(* ticks.                                                                  *)
Travels(ph, flight, l, age) ==
  [i \in 1 .. Cardinality(Requests) |->
    IF ph[Task[i]] = "sent" /\ flight[Task[i]] <= age
    THEN WeightUnder(RelatedLimits(Path[Task[i]]), l) ELSE 0]
Travelling(ph, flight, l, age) == Total(Travels(ph, flight, l, age))

(* The logs cover what was let through in every recent stretch of time.    *)
GrantsLogged ==
  \A l \in Limits : \A age \in 0 .. Window(l) : granted[l][age] <= UsedWithin(logs, l, age)

GrantsCumulate ==
  \A l \in Limits : \A age \in 1 .. Window(l) : granted[l][age - 1] <= granted[l][age]

GrantsWithinLimit == \A l \in Limits : granted[l][Window(l)] <= Limit(l)

(* What travels was let through not longer ago than it has travelled.      *)
TravelGranted ==
  \A l \in Limits : \A age \in 0 .. MaxDelay :
    Travelling(phase, inFlight, l, age) <= granted[l][age]

(* What the exchange has counted in the last ticks, and what it will count *)
(* of what travels, was let through at most a delay earlier.               *)
ArrivalsGranted ==
  \A l \in Limits : \A age \in 0 .. Window(l) - MaxDelay :
    seen[l][age] + Travelling(phase, inFlight, l, MaxDelay) <= granted[l][age + MaxDelay]

ThrottlerInv ==
  /\ TypeOK
  /\ GrantsLogged
  /\ GrantsCumulate
  /\ GrantsWithinLimit
  /\ TravelGranted
  /\ ArrivalsGranted

Phases == {"idle", "waiting", "sent"}

LEMMA TaskIs ==
  /\ Cardinality(Requests) \in Nat
  /\ Task \in [1 .. Cardinality(Requests) -> Requests]
  /\ \A r \in Requests : \E i \in 1 .. Cardinality(Requests) : Task[i] = r
  /\ \A i, j \in 1 .. Cardinality(Requests) : Task[i] = Task[j] => i = j
<1>1. Cardinality(Requests) \in Nat /\ ExistsBijection(1 .. Cardinality(Requests), Requests)
  BY ThrottlerAssumption, FS_CardinalityType
<1>2. Task \in Bijection(1 .. Cardinality(Requests), Requests)
  BY <1>1, Zenon DEF Task, ExistsBijection
<1> QED
  BY <1>1, <1>2 DEF Bijection, Injection, IsInjective, Surjection

LEMMA TravelType ==
  ASSUME NEW ph, NEW flight, NEW l, NEW age
  PROVE  /\ Travels(ph, flight, l, age) \in [1 .. Cardinality(Requests) -> Nat]
         /\ Travelling(ph, flight, l, age) \in Nat
<1>1. \A i \in 1 .. Cardinality(Requests) : WeightUnder(RelatedLimits(Path[Task[i]]), l) \in Nat
  BY WeightOfPath
<1>2. Travels(ph, flight, l, age) \in [1 .. Cardinality(Requests) -> Nat]
  BY <1>1 DEF Travels
<1> QED
  BY <1>2, TaskIs, TotalType DEF Travelling

(* A request that is sent adds its weight.                                 *)
LEMMA TravelSent ==
  ASSUME NEW ph \in [Requests -> Phases], NEW flight \in [Requests -> Nat],
         NEW r \in Requests, ph[r] # "sent", NEW l, NEW age \in Nat
  PROVE  Travelling([ph EXCEPT ![r] = "sent"], [flight EXCEPT ![r] = 0], l, age)
           = Travelling(ph, flight, l, age) + WeightUnder(RelatedLimits(Path[r]), l)
<1>1. PICK n \in Nat : n = Cardinality(Requests)
  BY TaskIs
<1>2. PICK j \in 1 .. n : Task[j] = r
  BY <1>1, TaskIs
<1>3. PICK s \in [1 .. n -> Nat] : s = Travels(ph, flight, l, age)
  BY <1>1, TravelType
<1>4. PICK t \in [1 .. n -> Nat] :
        t = Travels([ph EXCEPT ![r] = "sent"], [flight EXCEPT ![r] = 0], l, age)
  BY <1>1, TravelType
<1>5. s[j] = 0
  BY <1>1, <1>2, <1>3 DEF Travels
<1>6. t[j] = WeightUnder(RelatedLimits(Path[r]), l)
  BY <1>1, <1>2, <1>4 DEF Travels
<1>7. ASSUME NEW i \in 1 .. n, i # j
      PROVE  t[i] = s[i]
  <2>1. Task[i] \in Requests /\ Task[i] # r
    BY <1>1, <1>2, <1>7, TaskIs
  <2> QED
    BY <1>1, <1>3, <1>4, <2>1 DEF Travels
<1>8. Total(t) + s[j] = Total(s) + t[j]
  BY <1>7, TotalChange
<1>9. Total(t) \in Nat /\ Total(s) \in Nat /\ t[j] \in Nat
  BY TotalType
<1>10. Total(t) = Total(s) + t[j]
  BY <1>5, <1>8, <1>9
<1> QED
  BY <1>3, <1>4, <1>6, <1>10 DEF Travelling

(* A request that arrives takes its weight away, if it counted.            *)
LEMMA TravelArrived ==
  ASSUME NEW ph \in [Requests -> Phases], NEW flight \in [Requests -> Nat],
         NEW r \in Requests, ph[r] = "sent", NEW l, NEW age \in Nat
  PROVE  /\ Travelling([ph EXCEPT ![r] = "idle"], flight, l, age) <= Travelling(ph, flight, l, age)
         /\ flight[r] <= age =>
              Travelling(ph, flight, l, age)
                = Travelling([ph EXCEPT ![r] = "idle"], flight, l, age)
                    + WeightUnder(RelatedLimits(Path[r]), l)
<1>1. PICK n \in Nat : n = Cardinality(Requests)
  BY TaskIs
<1>2. PICK j \in 1 .. n : Task[j] = r
  BY <1>1, TaskIs
<1>3. PICK s \in [1 .. n -> Nat] : s = Travels(ph, flight, l, age)
  BY <1>1, TravelType
<1>4. PICK t \in [1 .. n -> Nat] : t = Travels([ph EXCEPT ![r] = "idle"], flight, l, age)
  BY <1>1, TravelType
<1>5. t[j] = 0
  BY <1>1, <1>2, <1>4 DEF Travels
<1>6. flight[r] <= age => s[j] = WeightUnder(RelatedLimits(Path[r]), l)
  BY <1>1, <1>2, <1>3 DEF Travels
<1>7. ASSUME NEW i \in 1 .. n, i # j
      PROVE  t[i] = s[i]
  <2>1. Task[i] \in Requests /\ Task[i] # r
    BY <1>1, <1>2, <1>7, TaskIs
  <2> QED
    BY <1>1, <1>3, <1>4, <2>1 DEF Travels
<1>8. Total(t) + s[j] = Total(s) + t[j]
  BY <1>7, TotalChange
<1>9. Total(t) \in Nat /\ Total(s) \in Nat /\ s[j] \in Nat
  BY TotalType
<1>10. Total(s) = Total(t) + s[j] /\ Total(t) <= Total(s)
  BY <1>5, <1>8, <1>9
<1> QED
  BY <1>3, <1>4, <1>6, <1>10 DEF Travelling

(* Tasks that wait or give up make no difference.                          *)
LEMMA TravelSame ==
  ASSUME NEW ph, NEW ph2, NEW flight, \A r \in Requests : ph2[r] = "sent" <=> ph[r] = "sent",
         NEW l, NEW age
  PROVE  Travelling(ph2, flight, l, age) = Travelling(ph, flight, l, age)
<1>1. \A i \in 1 .. Cardinality(Requests) : ph2[Task[i]] = "sent" <=> ph[Task[i]] = "sent"
  BY TaskIs
<1>2. Travels(ph2, flight, l, age) = Travels(ph, flight, l, age)
  BY <1>1 DEF Travels
<1> QED
  BY <1>2 DEF Travelling

(* What travels is a tick older after a tick.                              *)
LEMMA TravelOlder ==
  ASSUME NEW ph \in [Requests -> Phases], NEW flight \in [Requests -> Nat], NEW flight2,
         \A r \in Requests : ph[r] = "sent" => flight2[r] = flight[r] + 1,
         NEW l, NEW age \in Nat
  PROVE  /\ age = 0 => Travelling(ph, flight2, l, age) = 0
         /\ age # 0 => Travelling(ph, flight2, l, age) = Travelling(ph, flight, l, age - 1)
         /\ Travelling(ph, flight2, l, age) <= Travelling(ph, flight, l, age)
<1>1. PICK n \in Nat : n = Cardinality(Requests)
  BY TaskIs
<1>2. PICK s \in [1 .. n -> Nat] : s = Travels(ph, flight, l, age)
  BY <1>1, TravelType
<1>3. PICK t \in [1 .. n -> Nat] : t = Travels(ph, flight2, l, age)
  BY <1>1, TravelType
<1>4. \A i \in 1 .. n : /\ Task[i] \in Requests /\ flight[Task[i]] \in Nat
                        /\ ph[Task[i]] = "sent" => flight2[Task[i]] = flight[Task[i]] + 1
  BY <1>1, TaskIs
<1>5. ASSUME age = 0
      PROVE  Total(t) = 0
  <2>1. \A i \in 1 .. n : t[i] = 0
    <3> SUFFICES ASSUME NEW i \in 1 .. n
                 PROVE  t[i] = 0
      OBVIOUS
    <3>1. ~ (ph[Task[i]] = "sent" /\ flight2[Task[i]] <= age)
      BY <1>4, <1>5
    <3> QED
      BY <1>1, <1>3, <3>1 DEF Travels
  <2> QED
    BY <2>1, TotalZero
<1>6. ASSUME age # 0
      PROVE  t = Travels(ph, flight, l, age - 1)
  <2>1. \A i \in 1 .. n : ph[Task[i]] = "sent" =>
                            (flight2[Task[i]] <= age <=> flight[Task[i]] <= age - 1)
    BY <1>4, <1>6
  <2> QED
    BY <1>1, <1>3, <2>1 DEF Travels
<1>7. Total(t) <= Total(s)
  <2>1. ASSUME NEW i \in 1 .. n
        PROVE  t[i] <= s[i]
    <3>1. s[i] \in Nat /\ t[i] \in Nat
      OBVIOUS
    <3>2. CASE ph[Task[i]] = "sent" /\ flight2[Task[i]] <= age
      <4>1. flight[Task[i]] <= age
        BY <1>4, <3>2
      <4>2. t[i] = s[i]
        BY <1>1, <1>2, <1>3, <3>2, <4>1 DEF Travels
      <4> QED
        BY <3>1, <4>2
    <3>3. CASE ~ (ph[Task[i]] = "sent" /\ flight2[Task[i]] <= age)
      <4>1. t[i] = 0
        BY <1>1, <1>3, <3>3 DEF Travels
      <4> QED
        BY <3>1, <4>1
    <3> QED
      BY <3>2, <3>3
  <2> QED
    BY <2>1, TotalMonotone
<1> QED
  BY <1>2, <1>3, <1>5, <1>6, <1>7 DEF Travelling

-----------------------------------------------------------------------------
(* The steps.                                                              *)

LEMMA ThrottlerInit == Init => ThrottlerInv
<1> SUFFICES ASSUME Init
             PROVE  ThrottlerInv
  OBVIOUS
<1> USE DEF Init
<1>1. \A l \in Limits : \A age \in 0 .. Window(l) : granted[l][age] = 0 /\ seen[l][age] = 0
  BY DEF NoWeight
<1>2. \A l \in Limits : /\ Window(l) \in Nat /\ Limit(l) \in Nat /\ MaxDelay \in Nat
                        /\ MaxDelay <= Window(l)
  BY LimitTypes
<1>3. logs \in [1 .. 0 -> Entry] /\ logs \in Seq(Entry)
  OBVIOUS
<1>4. TypeOK
  <2>1. DOMAIN granted = Limits /\ \A l \in Limits : granted[l] \in [0 .. Window(l) -> Nat]
    BY DEF NoWeight
  <2>2. DOMAIN seen = Limits /\ \A l \in Limits : seen[l] \in [0 .. Window(l) -> Nat]
    BY DEF NoWeight
  <2>3. /\ phase \in [Requests -> {"idle", "waiting", "sent"}]
        /\ calls \in [Requests -> 0 .. MaxCalls]
        /\ inFlight \in [Requests -> 0 .. MaxDelay]
    BY ThrottlerAssumption
  <2>4. logs \in Seq([id : Limits, weight : Nat \ {0}, age : Nat])
    BY <1>3 DEF Entry
  <2>5. \A i \in DOMAIN logs : logs[i].age <= Window(logs[i].id) + 1
    OBVIOUS
  <2> QED
    BY <2>1, <2>2, <2>3, <2>4, <2>5 DEF TypeOK
<1>5. GrantsLogged
  <2>1. \A l \in Limits : \A age \in 0 .. Window(l) : UsedWithin(logs, l, age) \in Nat
    <3> SUFFICES ASSUME NEW l \in Limits, NEW age \in 0 .. Window(l)
                 PROVE  UsedWithin(logs, l, age) \in Nat
      OBVIOUS
    <3>1. age \in Nat /\ 0 \in Nat
      BY <1>2
    <3>2. PICK ts \in [1 .. 0 -> Entry] : ts = logs
      BY <1>3
    <3>3. UsedWithin(ts, l, age) \in Nat
      BY <3>1, UsedIs
    <3> QED
      BY <3>2, <3>3
  <2> QED
    BY <1>1, <2>1 DEF GrantsLogged
<1>6. GrantsCumulate
  <2> SUFFICES ASSUME NEW l \in Limits, NEW age \in 1 .. Window(l)
               PROVE  granted[l][age - 1] <= granted[l][age]
    BY DEF GrantsCumulate
  <2>1. age \in 0 .. Window(l) /\ age - 1 \in 0 .. Window(l)
    BY <1>2
  <2> QED
    BY <1>1, <2>1
<1>7. GrantsWithinLimit
  <2> SUFFICES ASSUME NEW l \in Limits
               PROVE  granted[l][Window(l)] <= Limit(l)
    BY DEF GrantsWithinLimit
  <2>1. Window(l) \in 0 .. Window(l)
    BY <1>2
  <2> QED
    BY <1>1, <1>2, <2>1
<1>8. \A l, age : Travelling(phase, inFlight, l, age) = 0
  <2> SUFFICES ASSUME NEW l, NEW age
               PROVE  Travelling(phase, inFlight, l, age) = 0
    OBVIOUS
  <2>1. PICK n \in Nat : n = Cardinality(Requests)
    BY TaskIs
  <2>2. PICK s \in [1 .. n -> Nat] : s = Travels(phase, inFlight, l, age)
    BY <2>1, TravelType
  <2>3. \A i \in 1 .. n : s[i] = 0
    BY <2>1, <2>2, TaskIs DEF Travels
  <2> QED
    BY <2>2, <2>3, TotalZero DEF Travelling
<1>9. TravelGranted
  <2> SUFFICES ASSUME NEW l \in Limits, NEW age \in 0 .. MaxDelay
               PROVE  Travelling(phase, inFlight, l, age) <= granted[l][age]
    BY DEF TravelGranted
  <2>1. age \in 0 .. Window(l)
    BY <1>2
  <2> QED
    BY <1>1, <1>8, <2>1
<1>10. ArrivalsGranted
  <2> SUFFICES ASSUME NEW l \in Limits, NEW age \in 0 .. Window(l) - MaxDelay
               PROVE  seen[l][age] + Travelling(phase, inFlight, l, MaxDelay)
                        <= granted[l][age + MaxDelay]
    BY DEF ArrivalsGranted
  <2>1. age \in 0 .. Window(l) /\ age + MaxDelay \in 0 .. Window(l)
    BY <1>2
  <2> QED
    BY <1>1, <1>8, <2>1
<1> QED
  BY <1>4, <1>5, <1>6, <1>7, <1>9, <1>10 DEF ThrottlerInv

(* The logs and what flush makes of them.                                  *)
LEMMA FlushedLogs ==
  ASSUME TypeOK
  PROVE  \E n \in Nat :
           /\ Flush(logs) \in [1 .. n -> Entry] /\ Fresh(Flush(logs))
           /\ \A l \in Limits : \A age \in 0 .. Window(l) :
                UsedWithin(Flush(logs), l, age) = UsedWithin(logs, l, age)
<1>1. logs \in Seq(Entry) /\ Fresh(logs)
  BY DEF TypeOK, Entry, Fresh
<1>2. PICK n \in Nat : n = Len(logs)
  BY <1>1, LenProperties
<1>3. logs \in [1 .. n -> Entry]
  BY <1>1, <1>2, LenProperties
<1> QED
  BY <1>1, <1>3, FlushKeeps

LEMMA LogsType ==
  ASSUME NEW n \in Nat, NEW ts \in [1 .. n -> Entry], Fresh(ts)
  PROVE  /\ ts \in Seq([id : Limits, weight : Nat \ {0}, age : Nat])
         /\ \A i \in DOMAIN ts : ts[i].age <= Window(ts[i].id) + 1
BY LengthIs DEF Entry, Fresh

(* Steps that flush at most and change nothing about what is sent.         *)
LEMMA QuietKeeps ==
  ASSUME ThrottlerInv,
         phase' \in [Requests -> Phases],
         \A r \in Requests : phase'[r] = "sent" <=> phase[r] = "sent",
         calls' \in [Requests -> 0 .. MaxCalls],
         logs' = logs \/ logs' = Flush(logs),
         UNCHANGED <<granted, inFlight, seen>>
  PROVE  ThrottlerInv'
<1>1. TypeOK
  BY DEF ThrottlerInv
<1>2. PICK n \in Nat :
        /\ Flush(logs) \in [1 .. n -> Entry] /\ Fresh(Flush(logs))
        /\ \A l \in Limits : \A age \in 0 .. Window(l) :
             UsedWithin(Flush(logs), l, age) = UsedWithin(logs, l, age)
  BY <1>1, FlushedLogs
<1>3. TypeOK'
  <2>1. /\ logs' \in Seq([id : Limits, weight : Nat \ {0}, age : Nat])
        /\ \A i \in DOMAIN logs' : logs'[i].age <= Window(logs'[i].id) + 1
    <3>1. CASE logs' = logs
      BY <1>1, <3>1 DEF TypeOK
    <3>2. CASE logs' = Flush(logs)
      BY <1>2, <3>2, LogsType
    <3> QED
      BY <3>1, <3>2
  <2> QED
    BY <1>1, <2>1 DEF TypeOK, Phases
<1>4. \A l \in Limits : \A age \in 0 .. Window(l) :
        UsedWithin(logs', l, age) = UsedWithin(logs, l, age)
  BY <1>2
<1>5. \A l, age : Travelling(phase', inFlight, l, age) = Travelling(phase, inFlight, l, age)
  BY TravelSame
<1>6. GrantsLogged'
  BY <1>4 DEF ThrottlerInv, GrantsLogged
<1>7. GrantsCumulate' /\ GrantsWithinLimit'
  BY DEF ThrottlerInv, GrantsCumulate, GrantsWithinLimit
<1>8. TravelGranted' /\ ArrivalsGranted'
  BY <1>5 DEF ThrottlerInv, TravelGranted, ArrivalsGranted
<1> QED
  BY <1>3, <1>6, <1>7, <1>8 DEF ThrottlerInv

(* A call that is let through had room under each of its limits.           *)
LEMMA LetThroughKeeps ==
  ASSUME ThrottlerInv, NEW r \in Requests, phase[r] # "sent", LetThrough(r),
         calls' \in [Requests -> 0 .. MaxCalls], seen' = seen
  PROVE  ThrottlerInv'
<1> DEFINE w(l) == WeightUnder(RelatedLimits(Path[r]), l)
<1>1. TypeOK
  BY DEF ThrottlerInv
<1>2. \A l \in Limits : /\ Window(l) \in Nat /\ Limit(l) \in Nat /\ MaxDelay \in Nat
                        /\ MaxDelay <= Window(l) /\ w(l) \in Nat
  BY LimitTypes, WeightOfPath
<1>3. PICK n \in Nat :
        /\ Flush(logs) \in [1 .. n -> Entry] /\ Fresh(Flush(logs))
        /\ \A l \in Limits : \A age \in 0 .. Window(l) :
             UsedWithin(Flush(logs), l, age) = UsedWithin(logs, l, age)
  BY <1>1, FlushedLogs
<1>4. Path[r] \in Limits /\ WithinCapacity(Flush(logs), RelatedLimits(Path[r]))
  BY DEF LetThrough
<1>5. PICK m \in Nat :
        /\ logs' \in [1 .. m -> Entry] /\ Fresh(logs')
        /\ \A l \in Limits : \A age \in Nat :
             UsedWithin(logs', l, age) >= UsedWithin(Flush(logs), l, age) + w(l)
  BY <1>3, <1>4, AppendAdds DEF LetThrough
<1>6. \A l \in Limits : \A age \in 0 .. Window(l) : granted'[l][age] = granted[l][age] + w(l)
  BY DEF LetThrough, AddWeights
<1>7. \A l \in Limits : \A age \in 0 .. Window(l) : granted[l][age] \in Nat /\ seen[l][age] \in Nat
  BY <1>1 DEF TypeOK
<1>8. \A l, age : Travelling(phase, inFlight, l, age) \in Nat
  BY TravelType
<1>9. \A l : \A age \in Nat :
        Travelling(phase', inFlight', l, age) = Travelling(phase, inFlight, l, age) + w(l)
  <2>1. phase \in [Requests -> Phases] /\ inFlight \in [Requests -> Nat]
    BY <1>1, ThrottlerAssumption DEF TypeOK, Phases
  <2>2. phase' = [phase EXCEPT ![r] = "sent"] /\ inFlight' = [inFlight EXCEPT ![r] = 0]
    BY DEF LetThrough
  <2>3. \A l : \A age \in Nat :
          Travelling([phase EXCEPT ![r] = "sent"], [inFlight EXCEPT ![r] = 0], l, age)
            = Travelling(phase, inFlight, l, age) + w(l)
    BY <2>1, TravelSent, Zenon
  <2> QED
    BY <2>2, <2>3, Zenon
<1> HIDE DEF w
<1>10. TypeOK'
  <2>1. /\ logs' \in Seq([id : Limits, weight : Nat \ {0}, age : Nat])
        /\ \A i \in DOMAIN logs' : logs'[i].age <= Window(logs'[i].id) + 1
    BY <1>5, LogsType
  <2>2. DOMAIN granted' = Limits /\ \A l \in Limits : granted'[l] \in [0 .. Window(l) -> Nat]
    <3>1. granted' = [l \in Limits |-> [a \in 0 .. Window(l) |-> granted[l][a] + w(l)]]
      BY Zenon DEF LetThrough, AddWeights, w
    <3>2. \A l \in Limits : \A a \in 0 .. Window(l) : granted[l][a] + w(l) \in Nat
      BY <1>2, <1>7
    <3> QED
      BY <3>1, <3>2
  <2>3. /\ phase' \in [Requests -> {"idle", "waiting", "sent"}]
        /\ inFlight' \in [Requests -> 0 .. MaxDelay]
    BY <1>1, <1>2, ThrottlerAssumption DEF TypeOK, LetThrough
  <2>4. DOMAIN seen' = Limits /\ \A l \in Limits : seen'[l] \in [0 .. Window(l) -> Nat]
    BY <1>1 DEF TypeOK
  <2> QED
    BY <2>1, <2>2, <2>3, <2>4 DEF TypeOK
<1>11. GrantsLogged'
  <2> SUFFICES ASSUME NEW l \in Limits, NEW age \in 0 .. Window(l)
               PROVE  granted'[l][age] <= UsedWithin(logs', l, age)
    BY DEF GrantsLogged
  <2>1. granted[l][age] <= UsedWithin(logs, l, age)
    BY DEF ThrottlerInv, GrantsLogged
  <2>2. UsedWithin(Flush(logs), l, age) = UsedWithin(logs, l, age) /\ age \in Nat
    BY <1>2, <1>3
  <2>3. UsedWithin(logs', l, age) \in Nat /\ UsedWithin(logs, l, age) \in Nat
    <3>1. UsedWithin(logs', l, age) \in Nat
      BY <1>5, <2>2, UsedIs
    <3>2. UsedWithin(Flush(logs), l, age) \in Nat
      BY <1>3, <2>2, UsedIs
    <3> QED
      BY <2>2, <3>1, <3>2
  <2>4. UsedWithin(logs', l, age) >= UsedWithin(logs, l, age) + w(l)
    BY <1>5, <2>2
  <2>5. granted'[l][age] = granted[l][age] + w(l) /\ granted[l][age] \in Nat /\ w(l) \in Nat
    BY <1>2, <1>6, <1>7
  <2> QED
    BY <2>1, <2>3, <2>4, <2>5
<1>12. GrantsCumulate'
  <2> SUFFICES ASSUME NEW l \in Limits, NEW age \in 1 .. Window(l)
               PROVE  granted'[l][age - 1] <= granted'[l][age]
    BY DEF GrantsCumulate
  <2>1. age \in 0 .. Window(l) /\ age - 1 \in 0 .. Window(l)
    BY <1>2
  <2>2. granted[l][age - 1] <= granted[l][age]
    BY DEF ThrottlerInv, GrantsCumulate
  <2> QED
    BY <1>2, <1>6, <1>7, <2>1, <2>2
<1>13. GrantsWithinLimit'
  <2> SUFFICES ASSUME NEW l \in Limits
               PROVE  granted'[l][Window(l)] <= Limit(l)
    BY DEF GrantsWithinLimit
  <2>1. Window(l) \in 0 .. Window(l)
    BY <1>2
  <2>2. granted'[l][Window(l)] = granted[l][Window(l)] + w(l)
    BY <1>6, <2>1
  <2>3. PICK k \in Nat :
          RelatedLimits(Path[r]) \in [1 .. k -> Share] /\ Different(RelatedLimits(Path[r]), k)
    BY RelatedAre, Zenon
  <2>4. CASE \E i \in 1 .. k : RelatedLimits(Path[r])[i].id = l
    <3>1. PICK i \in 1 .. k : RelatedLimits(Path[r])[i].id = l
      BY <2>4
    <3>2. w(l) = RelatedLimits(Path[r])[i].weight
      BY <2>3, <3>1, WeightIs DEF w
    <3>3. RelatedLimits(Path[r])[i] \in ToSet(RelatedLimits(Path[r]))
      BY <2>3 DEF ToSet
    <3>4. CapacityUsed(Flush(logs), l) + w(l) <= Limit(l)
      BY <1>4, <3>1, <3>2, <3>3 DEF WithinCapacity
    <3>5. granted[l][Window(l)] <= CapacityUsed(Flush(logs), l)
      BY <1>3, <2>1 DEF ThrottlerInv, GrantsLogged, CapacityUsed
    <3>6. CapacityUsed(Flush(logs), l) \in Nat
      BY <1>2, <1>3, UsedIs DEF CapacityUsed
    <3> QED
      BY <1>2, <1>7, <2>1, <2>2, <3>4, <3>5, <3>6
  <2>5. CASE ~ \E i \in 1 .. k : RelatedLimits(Path[r])[i].id = l
    <3>1. w(l) = 0
      BY <2>3, <2>5, WeightIs DEF w
    <3>2. granted[l][Window(l)] <= Limit(l) /\ granted[l][Window(l)] \in Nat
      BY <1>7, <2>1 DEF ThrottlerInv, GrantsWithinLimit
    <3> QED
      BY <2>2, <3>1, <3>2
  <2> QED
    BY <2>4, <2>5
<1>14. TravelGranted'
  <2> SUFFICES ASSUME NEW l \in Limits, NEW age \in 0 .. MaxDelay
               PROVE  Travelling(phase', inFlight', l, age) <= granted'[l][age]
    BY DEF TravelGranted
  <2>1. age \in 0 .. Window(l) /\ age \in Nat
    BY <1>2
  <2>2. Travelling(phase, inFlight, l, age) <= granted[l][age]
    BY DEF ThrottlerInv, TravelGranted
  <2> QED
    BY <1>2, <1>6, <1>7, <1>8, <1>9, <2>1, <2>2
<1>15. ArrivalsGranted'
  <2> SUFFICES ASSUME NEW l \in Limits, NEW age \in 0 .. Window(l) - MaxDelay
               PROVE  seen'[l][age] + Travelling(phase', inFlight', l, MaxDelay)
                        <= granted'[l][age + MaxDelay]
    BY DEF ArrivalsGranted
  <2>1. age \in 0 .. Window(l) /\ age + MaxDelay \in 0 .. Window(l) /\ MaxDelay \in Nat
    BY <1>2
  <2>2. seen[l][age] + Travelling(phase, inFlight, l, MaxDelay) <= granted[l][age + MaxDelay]
    BY DEF ThrottlerInv, ArrivalsGranted
  <2> QED
    BY <1>2, <1>6, <1>7, <1>8, <1>9, <2>1, <2>2
<1> QED
  BY <1>10, <1>11, <1>12, <1>13, <1>14, <1>15 DEF ThrottlerInv

(* The exchange counts a request that travelled for MaxDelay at most.      *)
LEMMA ArriveKeeps ==
  ASSUME ThrottlerInv, NEW r \in Requests, Arrive(r)
  PROVE  ThrottlerInv'
<1> DEFINE w(l) == WeightUnder(RelatedLimits(Path[r]), l)
<1>1. TypeOK
  BY DEF ThrottlerInv
<1>2. \A l \in Limits : /\ Window(l) \in Nat /\ MaxDelay \in Nat
                        /\ MaxDelay <= Window(l) /\ w(l) \in Nat
  BY LimitTypes, WeightOfPath
<1>3. \A l \in Limits : \A age \in 0 .. Window(l) : seen'[l][age] = seen[l][age] + w(l)
  BY DEF Arrive, AddWeights
<1>4. \A l \in Limits : \A age \in 0 .. Window(l) : granted[l][age] \in Nat /\ seen[l][age] \in Nat
  BY <1>1 DEF TypeOK
<1>5. \A l, age : /\ Travelling(phase, inFlight, l, age) \in Nat
                  /\ Travelling(phase', inFlight, l, age) \in Nat
  BY TravelType
<1>6. \A l : \A age \in Nat :
        /\ Travelling(phase', inFlight, l, age) <= Travelling(phase, inFlight, l, age)
        /\ inFlight[r] <= age =>
             Travelling(phase, inFlight, l, age) = Travelling(phase', inFlight, l, age) + w(l)
  <2>1. phase \in [Requests -> Phases] /\ inFlight \in [Requests -> Nat] /\ phase[r] = "sent"
    BY <1>1, ThrottlerAssumption DEF TypeOK, Phases, Arrive
  <2>2. phase' = [phase EXCEPT ![r] = "idle"]
    BY DEF Arrive
  <2>3. \A l : \A age \in Nat :
          /\ Travelling([phase EXCEPT ![r] = "idle"], inFlight, l, age)
               <= Travelling(phase, inFlight, l, age)
          /\ inFlight[r] <= age =>
               Travelling(phase, inFlight, l, age)
                 = Travelling([phase EXCEPT ![r] = "idle"], inFlight, l, age) + w(l)
    BY <2>1, TravelArrived, Zenon
  <2> QED
    BY <2>2, <2>3, Zenon
<1>7. inFlight[r] <= MaxDelay /\ inFlight' = inFlight /\ granted' = granted /\ logs' = logs
  BY <1>1, ThrottlerAssumption DEF TypeOK, Arrive
<1> HIDE DEF w
<1>8. TypeOK'
  <2>1. DOMAIN seen' = Limits /\ \A l \in Limits : seen'[l] \in [0 .. Window(l) -> Nat]
    <3>1. seen' = [l \in Limits |-> [a \in 0 .. Window(l) |-> seen[l][a] + w(l)]]
      BY Zenon DEF Arrive, AddWeights, w
    <3>2. \A l \in Limits : \A a \in 0 .. Window(l) : seen[l][a] + w(l) \in Nat
      BY <1>2, <1>4
    <3> QED
      BY <3>1, <3>2
  <2>2. phase' \in [Requests -> {"idle", "waiting", "sent"}] /\ calls' = calls
    BY <1>1 DEF TypeOK, Arrive
  <2> QED
    BY <1>1, <1>7, <2>1, <2>2 DEF TypeOK
<1>9. GrantsLogged' /\ GrantsCumulate' /\ GrantsWithinLimit'
  BY <1>7 DEF ThrottlerInv, GrantsLogged, GrantsCumulate, GrantsWithinLimit
<1>10. TravelGranted'
  <2> SUFFICES ASSUME NEW l \in Limits, NEW age \in 0 .. MaxDelay
               PROVE  Travelling(phase', inFlight, l, age) <= granted[l][age]
    BY <1>7 DEF TravelGranted
  <2>1. age \in 0 .. Window(l) /\ age \in Nat
    BY <1>2
  <2>2. Travelling(phase, inFlight, l, age) <= granted[l][age]
    BY DEF ThrottlerInv, TravelGranted
  <2>3. Travelling(phase', inFlight, l, age) <= Travelling(phase, inFlight, l, age)
    BY <1>6, <2>1
  <2> QED
    BY <1>4, <1>5, <2>1, <2>2, <2>3
<1>11. ArrivalsGranted'
  <2> SUFFICES ASSUME NEW l \in Limits, NEW age \in 0 .. Window(l) - MaxDelay
               PROVE  seen'[l][age] + Travelling(phase', inFlight, l, MaxDelay)
                        <= granted[l][age + MaxDelay]
    BY <1>7 DEF ArrivalsGranted
  <2>1. age \in 0 .. Window(l) /\ age + MaxDelay \in 0 .. Window(l) /\ MaxDelay \in Nat
    BY <1>2
  <2>2. seen[l][age] + Travelling(phase, inFlight, l, MaxDelay) <= granted[l][age + MaxDelay]
    BY DEF ThrottlerInv, ArrivalsGranted
  <2>3. Travelling(phase, inFlight, l, MaxDelay) = Travelling(phase', inFlight, l, MaxDelay) + w(l)
    BY <1>6, <1>7, <2>1
  <2>4. seen'[l][age] = seen[l][age] + w(l)
    BY <1>3, <2>1
  <2> QED
    BY <1>2, <1>4, <1>5, <2>1, <2>2, <2>3, <2>4
<1> QED
  BY <1>8, <1>9, <1>10, <1>11 DEF ThrottlerInv

(* After a tick the logs count for a tick less.                            *)
LEMMA LogsOlder ==
  ASSUME TypeOK, Tick
  PROVE  /\ logs' \in Seq([id : Limits, weight : Nat \ {0}, age : Nat])
         /\ \A i \in DOMAIN logs' : logs'[i].age <= Window(logs'[i].id) + 1
         /\ \A l \in Limits : \A age \in 1 .. Window(l) :
              UsedWithin(logs', l, age) = UsedWithin(logs, l, age - 1)
<1>1. PICK n \in Nat : logs \in [1 .. n -> Entry]
  <2>1. logs \in Seq(Entry)
    BY DEF TypeOK, Entry
  <2> QED
    BY <2>1, LenProperties
<1>2. logs' = [i \in 1 .. n |-> [logs[i] EXCEPT !.age = IF Expired(logs[i]) THEN @ ELSE @ + 1]]
  BY <1>1 DEF Tick
<1>3. \A i \in 1 .. n :
        /\ logs'[i] \in Entry
        /\ logs'[i].id = logs[i].id /\ logs'[i].weight = logs[i].weight
        /\ logs'[i].age = IF Expired(logs[i]) THEN logs[i].age ELSE logs[i].age + 1
  <2> SUFFICES ASSUME NEW i \in 1 .. n
               PROVE  /\ logs'[i] \in Entry
                      /\ logs'[i].id = logs[i].id /\ logs'[i].weight = logs[i].weight
                      /\ logs'[i].age = IF Expired(logs[i]) THEN logs[i].age ELSE logs[i].age + 1
    OBVIOUS
  <2>1. PICK e \in Entry, a \in Nat :
          /\ e = logs[i] /\ logs'[i] = [e EXCEPT !.age = a]
          /\ a = IF Expired(logs[i]) THEN logs[i].age ELSE logs[i].age + 1
    <3>1. logs[i] \in Entry
      BY <1>1
    <3>2. PICK e \in Entry : e = logs[i]
      BY <3>1
    <3>3. PICK a \in Nat : a = IF Expired(e) THEN e.age ELSE e.age + 1
      BY DEF Entry
    <3>4. logs'[i] = [logs[i] EXCEPT !.age = IF Expired(logs[i]) THEN @ ELSE @ + 1]
      BY <1>2
    <3>5. logs'[i] = [e EXCEPT !.age = a]
      BY <3>2, <3>3, <3>4
    <3> QED
      BY <3>2, <3>3, <3>5
  <2>2. [e EXCEPT !.age = a] = [id |-> e.id, weight |-> e.weight, age |-> a]
    BY DEF Entry
  <2> QED
    BY <2>1, <2>2 DEF Entry
<1>4. logs' \in [1 .. n -> Entry]
  BY <1>2, <1>3
<1>5. Fresh(logs')
  <2> SUFFICES ASSUME NEW i \in 1 .. n
               PROVE  logs'[i].age <= Window(logs'[i].id) + 1
    BY <1>4 DEF Fresh
  <2>1. logs[i].age <= Window(logs[i].id) + 1 /\ logs[i].age \in Nat /\ logs[i].id \in Limits
    BY <1>1 DEF TypeOK, Entry
  <2>2. Window(logs[i].id) \in Nat
    BY <2>1, LimitTypes
  <2>3. CASE Expired(logs[i])
    BY <1>3, <2>1, <2>3
  <2>4. CASE ~ Expired(logs[i])
    <3>1. ~ (logs[i].age > Window(logs[i].id))
      BY <2>4 DEF Expired
    <3>2. logs'[i].age = logs[i].age + 1 /\ logs'[i].id = logs[i].id
      BY <1>3, <2>4
    <3> QED
      BY <2>1, <2>2, <3>1, <3>2
  <2> QED
    BY <2>3, <2>4
<1>6. ASSUME NEW l \in Limits, NEW age \in 1 .. Window(l)
      PROVE  UsedWithin(logs', l, age) = UsedWithin(logs, l, age - 1)
  <2>1. Window(l) \in Nat /\ age \in Nat /\ age - 1 \in Nat /\ age <= Window(l)
    BY LimitTypes
  <2>2. ASSUME NEW i \in 1 .. n, logs[i].id = l
        PROVE  logs'[i].age <= age <=> logs[i].age <= age - 1
    <3>0. logs[i].age \in Nat
      BY <1>1 DEF Entry
    <3>1. CASE Expired(logs[i])
      <4>1. logs[i].age > Window(l) /\ logs'[i].age = logs[i].age
        BY <1>3, <2>2, <3>1 DEF Expired
      <4> QED
        BY <2>1, <3>0, <4>1
    <3>2. CASE ~ Expired(logs[i])
      <4>1. logs'[i].age = logs[i].age + 1
        BY <1>3, <3>2
      <4> QED
        BY <2>1, <3>0, <4>1
    <3> QED
      BY <3>1, <3>2
  <2>3. Counts(logs', l, age) = Counts(logs, l, age - 1)
    BY <1>1, <1>3, <1>4, <2>2 DEF Counts
  <2>4. UsedWithin(logs', l, age) = Total(Counts(logs', l, age))
    BY <1>4, <2>1, UsedIs
  <2>5. UsedWithin(logs, l, age - 1) = Total(Counts(logs, l, age - 1))
    BY <1>1, <2>1, UsedIs
  <2> QED
    BY <2>3, <2>4, <2>5
<1> QED
  BY <1>4, <1>5, <1>6, LogsType

(* Time passes for the logs, what travels and what was counted alike.      *)
LEMMA TickKeeps ==
  ASSUME ThrottlerInv, Tick
  PROVE  ThrottlerInv'
<1>1. TypeOK
  BY DEF ThrottlerInv
<1>2. \A l \in Limits : /\ Window(l) \in Nat /\ MaxDelay \in Nat /\ MaxDelay <= Window(l)
                        /\ Limit(l) \in Nat /\ Window(l) >= 1
  BY LimitTypes
<1>3. \A l \in Limits : \A age \in 0 .. Window(l) :
        /\ granted'[l][age] = IF age = 0 THEN 0 ELSE granted[l][age - 1]
        /\ seen'[l][age] = IF age = 0 THEN 0 ELSE seen[l][age - 1]
  BY DEF Tick, Older
<1>4. \A l \in Limits : \A age \in 0 .. Window(l) : granted[l][age] \in Nat /\ seen[l][age] \in Nat
  BY <1>1 DEF TypeOK
<1>5. \A l, age : /\ Travelling(phase, inFlight, l, age) \in Nat
                  /\ Travelling(phase, inFlight', l, age) \in Nat
  BY TravelType
<1>6. \A l : \A age \in Nat :
        /\ age = 0 => Travelling(phase, inFlight', l, age) = 0
        /\ age # 0 => Travelling(phase, inFlight', l, age) = Travelling(phase, inFlight, l, age - 1)
        /\ Travelling(phase, inFlight', l, age) <= Travelling(phase, inFlight, l, age)
  <2>1. phase \in [Requests -> Phases] /\ inFlight \in [Requests -> Nat]
    BY <1>1, ThrottlerAssumption DEF TypeOK, Phases
  <2>2. \A q \in Requests : phase[q] = "sent" => inFlight'[q] = inFlight[q] + 1
    BY DEF Tick
  <2> QED
    BY <2>1, <2>2, TravelOlder
<1>7. phase' = phase /\ calls' = calls
  BY DEF Tick
<1>8. /\ logs' \in Seq([id : Limits, weight : Nat \ {0}, age : Nat])
      /\ \A i \in DOMAIN logs' : logs'[i].age <= Window(logs'[i].id) + 1
      /\ \A l \in Limits : \A age \in 1 .. Window(l) :
           UsedWithin(logs', l, age) = UsedWithin(logs, l, age - 1)
  BY <1>1, LogsOlder
<1>9. TypeOK'
  <2>1. \A l \in Limits : \A a \in 0 .. Window(l) :
          /\ (IF a = 0 THEN 0 ELSE granted[l][a - 1]) \in Nat
          /\ (IF a = 0 THEN 0 ELSE seen[l][a - 1]) \in Nat
    <3> SUFFICES ASSUME NEW l \in Limits, NEW a \in 0 .. Window(l), a # 0
                 PROVE  granted[l][a - 1] \in Nat /\ seen[l][a - 1] \in Nat
      OBVIOUS
    <3>1. a - 1 \in 0 .. Window(l)
      BY <1>2
    <3> QED
      BY <1>4, <3>1
  <2>2. DOMAIN granted' = Limits /\ \A l \in Limits : granted'[l] \in [0 .. Window(l) -> Nat]
    BY <2>1 DEF Tick, Older
  <2>3. DOMAIN seen' = Limits /\ \A l \in Limits : seen'[l] \in [0 .. Window(l) -> Nat]
    BY <2>1 DEF Tick, Older
  <2>4. inFlight' \in [Requests -> 0 .. MaxDelay]
    <3>1. ASSUME NEW q \in Requests
          PROVE  (IF phase[q] = "sent" THEN inFlight[q] + 1 ELSE inFlight[q]) \in 0 .. MaxDelay
      <4>1. inFlight[q] \in 0 .. MaxDelay /\ MaxDelay \in Nat
        BY <1>1, ThrottlerAssumption DEF TypeOK
      <4>2. phase[q] = "sent" => inFlight[q] < MaxDelay
        BY DEF Tick
      <4> QED
        BY <4>1, <4>2
    <3>2. inFlight' = [q \in Requests |-> IF phase[q] = "sent" THEN inFlight[q] + 1 ELSE inFlight[q]]
      BY DEF Tick
    <3> QED
      BY <3>1, <3>2
  <2> QED
    BY <1>1, <1>7, <1>8, <2>2, <2>3, <2>4 DEF TypeOK
<1>10. GrantsLogged'
  <2> SUFFICES ASSUME NEW l \in Limits, NEW age \in 0 .. Window(l)
               PROVE  granted'[l][age] <= UsedWithin(logs', l, age)
    BY DEF GrantsLogged
  <2>1. CASE age = 0
    <3>1. PICK n \in Nat : logs' \in [1 .. n -> Entry]
      <4>1. logs' \in Seq(Entry)
        BY <1>8 DEF Entry
      <4> QED
        BY <4>1, LenProperties
    <3>2. age \in Nat
      BY <2>1
    <3>3. UsedWithin(logs', l, age) \in Nat
      BY <3>1, <3>2, UsedIs
    <3>4. granted'[l][age] = 0
      BY <1>3, <2>1
    <3> QED
      BY <3>3, <3>4
  <2>2. CASE age # 0
    <3>1. age \in 1 .. Window(l) /\ age - 1 \in 0 .. Window(l)
      BY <1>2, <2>2
    <3>2. granted[l][age - 1] <= UsedWithin(logs, l, age - 1)
      BY <3>1 DEF ThrottlerInv, GrantsLogged
    <3> QED
      BY <1>3, <1>8, <2>2, <3>1, <3>2
  <2> QED
    BY <2>1, <2>2
<1>11. GrantsCumulate'
  <2> SUFFICES ASSUME NEW l \in Limits, NEW age \in 1 .. Window(l)
               PROVE  granted'[l][age - 1] <= granted'[l][age]
    BY DEF GrantsCumulate
  <2>1. age \in 0 .. Window(l) /\ age - 1 \in 0 .. Window(l) /\ age # 0
    BY <1>2
  <2>2. granted'[l][age] = granted[l][age - 1] /\ granted[l][age - 1] \in Nat
    BY <1>3, <1>4, <2>1
  <2>3. CASE age = 1
    <3>1. granted'[l][age - 1] = 0
      BY <1>3, <2>1, <2>3
    <3> QED
      BY <2>2, <3>1
  <2>4. CASE age # 1
    <3>1. age - 1 \in 1 .. Window(l) /\ age - 1 # 0
      BY <1>2, <2>4
    <3>2. granted'[l][age - 1] = granted[l][(age - 1) - 1]
      BY <1>3, <2>1, <3>1
    <3>3. granted[l][(age - 1) - 1] <= granted[l][age - 1]
      BY <3>1 DEF ThrottlerInv, GrantsCumulate
    <3> QED
      BY <2>2, <3>2, <3>3
  <2> QED
    BY <2>3, <2>4
<1>12. GrantsWithinLimit'
  <2> SUFFICES ASSUME NEW l \in Limits
               PROVE  granted'[l][Window(l)] <= Limit(l)
    BY DEF GrantsWithinLimit
  <2>1. /\ Window(l) \in 0 .. Window(l) /\ Window(l) \in 1 .. Window(l)
        /\ Window(l) - 1 \in 0 .. Window(l) /\ Window(l) # 0
    BY <1>2
  <2>2. granted'[l][Window(l)] = granted[l][Window(l) - 1]
    BY <1>3, <2>1
  <2>3. granted[l][Window(l) - 1] <= granted[l][Window(l)] /\ granted[l][Window(l)] <= Limit(l)
    BY <2>1 DEF ThrottlerInv, GrantsCumulate, GrantsWithinLimit
  <2>4. granted[l][Window(l) - 1] \in Nat /\ granted[l][Window(l)] \in Nat /\ Limit(l) \in Nat
    BY <1>2, <1>4, <2>1
  <2> QED
    BY <2>2, <2>3, <2>4
<1>13. TravelGranted'
  <2> SUFFICES ASSUME NEW l \in Limits, NEW age \in 0 .. MaxDelay
               PROVE  Travelling(phase, inFlight', l, age) <= granted'[l][age]
    BY <1>7 DEF TravelGranted
  <2>1. age \in 0 .. Window(l) /\ age \in Nat
    BY <1>2
  <2>2. CASE age = 0
    <3>1. Travelling(phase, inFlight', l, age) = 0 /\ granted'[l][age] = 0
      BY <1>3, <1>6, <2>1, <2>2
    <3> QED
      BY <3>1
  <2>3. CASE age # 0
    <3>1. Travelling(phase, inFlight', l, age) = Travelling(phase, inFlight, l, age - 1)
      BY <1>6, <2>1, <2>3
    <3>2. granted'[l][age] = granted[l][age - 1]
      BY <1>3, <2>1, <2>3
    <3>3. age - 1 \in 0 .. MaxDelay
      BY <1>2, <2>3
    <3>4. Travelling(phase, inFlight, l, age - 1) <= granted[l][age - 1]
      BY <3>3 DEF ThrottlerInv, TravelGranted
    <3> QED
      BY <3>1, <3>2, <3>4
  <2> QED
    BY <2>2, <2>3
<1>14. ArrivalsGranted'
  <2> SUFFICES ASSUME NEW l \in Limits, NEW age \in 0 .. Window(l) - MaxDelay
               PROVE  seen'[l][age] + Travelling(phase, inFlight', l, MaxDelay)
                        <= granted'[l][age + MaxDelay]
    BY <1>7 DEF ArrivalsGranted
  <2>1. age \in 0 .. Window(l) /\ age + MaxDelay \in 0 .. Window(l) /\ MaxDelay \in Nat
    BY <1>2
  <2>2. CASE age = 0
    <3>1. seen'[l][age] = 0
      BY <1>3, <2>1, <2>2
    <3>2. MaxDelay \in 0 .. MaxDelay /\ age + MaxDelay = MaxDelay
      BY <2>1, <2>2
    <3>3. Travelling(phase, inFlight', l, MaxDelay) <= granted'[l][MaxDelay]
      BY <1>7, <1>13, <3>2 DEF TravelGranted
    <3> QED
      BY <1>5, <3>1, <3>2, <3>3
  <2>3. CASE age # 0
    <3>1. seen'[l][age] = seen[l][age - 1]
      BY <1>3, <2>1, <2>3
    <3>2. /\ age - 1 \in 0 .. Window(l) - MaxDelay /\ (age - 1) + MaxDelay = (age + MaxDelay) - 1
          /\ age + MaxDelay # 0 /\ age - 1 \in 0 .. Window(l)
          /\ (age - 1) + MaxDelay \in 0 .. Window(l)
      BY <1>2, <2>1, <2>3
    <3>3. granted'[l][age + MaxDelay] = granted[l][(age - 1) + MaxDelay]
      BY <1>3, <2>1, <3>2
    <3>4. seen[l][age - 1] + Travelling(phase, inFlight, l, MaxDelay)
            <= granted[l][(age - 1) + MaxDelay]
      BY <3>2 DEF ThrottlerInv, ArrivalsGranted
    <3>5. Travelling(phase, inFlight', l, MaxDelay) <= Travelling(phase, inFlight, l, MaxDelay)
      BY <1>6, <2>1
    <3> QED
      BY <1>4, <1>5, <3>1, <3>2, <3>3, <3>4, <3>5
  <2> QED
    BY <2>2, <2>3
<1> QED
  BY <1>9, <1>10, <1>11, <1>12, <1>13, <1>14 DEF ThrottlerInv

-----------------------------------------------------------------------------
(* The theorems.                                                           *)

(* More was let through in a longer time.                                  *)
LEMMA GrantsGrow ==
  ASSUME ThrottlerInv, NEW l \in Limits, NEW age \in 0 .. Window(l)
  PROVE  granted[l][age] <= granted[l][Window(l)]
<1>1. Window(l) \in Nat
  BY LimitTypes
<1>2. PICK h \in [0 .. Window(l) -> Nat] : h = granted[l]
  BY DEF ThrottlerInv, TypeOK
<1>3. \A a \in 1 .. Window(l) : h[a - 1] <= h[a]
  BY <1>2 DEF ThrottlerInv, GrantsCumulate
<1>4. PICK n \in Nat : n = Window(l) - age
  BY <1>1
<1> DEFINE S == {k \in Nat : k <= n => h[age] <= h[age + k]}
<1>5. 0 \in S
  BY <1>1, <1>2
<1>6. ASSUME NEW k \in 0 .. n - 1, k \in S
      PROVE  k + 1 \in S
  <2>1. /\ k + 1 \in Nat /\ age + (k + 1) \in 1 .. Window(l)
        /\ (age + (k + 1)) - 1 = age + k /\ age + k \in 0 .. Window(l)
    BY <1>1, <1>4
  <2>2. h[age] <= h[age + k]
    BY <1>6
  <2>3. h[age + k] <= h[age + (k + 1)]
    BY <1>3, <2>1, Zenon
  <2>4. h[age] \in Nat /\ h[age + k] \in Nat /\ h[age + (k + 1)] \in Nat
    <3>1. age + (k + 1) \in 0 .. Window(l)
      BY <1>1, <2>1
    <3> QED
      BY <1>2, <2>1, <3>1
  <2> QED
    BY <2>1, <2>2, <2>3, <2>4
<1>7. n \in S
  <2> HIDE DEF S
  <2> QED
    BY <1>5, <1>6, InductionUpTo
<1>8. age + n = Window(l)
  BY <1>1, <1>4
<1> QED
  BY <1>2, <1>7, <1>8

LEMMA ThrottlerStep == ThrottlerInv /\ [Next]_vars => ThrottlerInv'
<1> SUFFICES ASSUME ThrottlerInv, [Next]_vars
             PROVE  ThrottlerInv'
  OBVIOUS
<1>1. TypeOK
  BY DEF ThrottlerInv
<1>2. ASSUME NEW r \in Requests, phase[r] # "sent", HoldBack(r) \/ Raise(r), seen' = seen,
             calls' \in [Requests -> 0 .. MaxCalls]
      PROVE  ThrottlerInv'
  <2>1. /\ phase' \in [Requests -> Phases]
        /\ \A q \in Requests : phase'[q] = "sent" <=> phase[q] = "sent"
    BY <1>1, <1>2 DEF TypeOK, Phases, HoldBack, Raise
  <2>2. logs' = Flush(logs) /\ UNCHANGED <<granted, inFlight, seen>>
    BY <1>2 DEF HoldBack, Raise
  <2> QED
    BY <1>2, <2>1, <2>2, QuietKeeps
<1>3. ASSUME NEW r \in Requests, ExecuteTask(r)
      PROVE  ThrottlerInv'
  <2>1. calls' \in [Requests -> 0 .. MaxCalls]
    <3>1. calls \in [Requests -> 0 .. MaxCalls] /\ calls[r] < MaxCalls /\ MaxCalls \in Nat
      BY <1>1, <1>3, ThrottlerAssumption DEF TypeOK, ExecuteTask
    <3>2. calls[r] + 1 \in 0 .. MaxCalls
      BY <3>1
    <3> QED
      BY <1>3, <3>1, <3>2 DEF ExecuteTask
  <2>2. phase[r] # "sent" /\ seen' = seen
    BY <1>3 DEF ExecuteTask
  <2>3. CASE LetThrough(r)
    BY <2>1, <2>2, <2>3, LetThroughKeeps
  <2>4. CASE HoldBack(r) \/ Raise(r)
    BY <1>2, <2>1, <2>2, <2>4
  <2> QED
    BY <1>3, <2>3, <2>4 DEF ExecuteTask
<1>4. ASSUME NEW r \in Requests, Retry(r)
      PROVE  ThrottlerInv'
  <2>1. calls' \in [Requests -> 0 .. MaxCalls] /\ phase[r] # "sent" /\ seen' = seen
    BY <1>1, <1>4 DEF TypeOK, Retry
  <2>2. CASE LetThrough(r)
    BY <2>1, <2>2, LetThroughKeeps
  <2>3. CASE HoldBack(r)
    BY <1>2, <2>1, <2>3
  <2> QED
    BY <1>4, <2>2, <2>3 DEF Retry
<1>5. ASSUME NEW r \in Requests, Cancel(r)
      PROVE  ThrottlerInv'
  <2>1. /\ phase' \in [Requests -> Phases]
        /\ \A q \in Requests : phase'[q] = "sent" <=> phase[q] = "sent"
    BY <1>1, <1>5 DEF TypeOK, Phases, Cancel
  <2>2. /\ calls' \in [Requests -> 0 .. MaxCalls]
        /\ logs' = logs /\ UNCHANGED <<granted, inFlight, seen>>
    BY <1>1, <1>5 DEF TypeOK, Cancel
  <2> QED
    BY <2>1, <2>2, QuietKeeps
<1>6. ASSUME NEW r \in Requests, Arrive(r)
      PROVE  ThrottlerInv'
  BY <1>6, ArriveKeeps
<1>7. CASE Tick
  BY <1>7, TickKeeps
<1>8. CASE UNCHANGED vars
  <2>1. /\ phase' = phase /\ calls' = calls /\ logs' = logs
        /\ UNCHANGED <<granted, inFlight, seen>>
    BY <1>8 DEF vars
  <2>2. phase' \in [Requests -> Phases] /\ calls' \in [Requests -> 0 .. MaxCalls]
    BY <1>1, <2>1 DEF TypeOK, Phases
  <2> QED
    BY <2>1, <2>2, QuietKeeps
<1> QED
  BY <1>3, <1>4, <1>5, <1>6, <1>7, <1>8 DEF Next

(* The invariant holds, whatever the limits.                               *)
THEOREM ThrottlerInvariant == Spec => []ThrottlerInv
BY ThrottlerInit, ThrottlerStep, PTL DEF Spec

(* The variables have their types; no entry stays in the logs, or counts,  *)
(* for more than a tick after its window (async_request_context_base.py).  *)
THEOREM ThrottlerTypeCorrect == Spec => []TypeOK
<1>1. ThrottlerInv => TypeOK
  BY DEF ThrottlerInv
<1> QED
  BY <1>1, ThrottlerInvariant, PTL

(* flush forgets no request before its window is over, although it removes *)
(* from the list it walks over.                                            *)
THEOREM FlushForgetsNothing == Spec => []LogsCoverGrants
<1>1. ThrottlerInv => LogsCoverGrants
  <2> SUFFICES ASSUME ThrottlerInv, NEW l \in Limits
               PROVE  CapacityUsed(logs, l) >= granted[l][Window(l)]
    BY DEF LogsCoverGrants
  <2>1. Window(l) \in Nat /\ Window(l) \in 0 .. Window(l)
    BY LimitTypes
  <2>2. granted[l][Window(l)] <= UsedWithin(logs, l, Window(l))
    BY <2>1 DEF ThrottlerInv, GrantsLogged
  <2>3. granted[l][Window(l)] \in Nat
    BY <2>1 DEF ThrottlerInv, TypeOK
  <2>4. logs \in Seq(Entry)
    BY DEF ThrottlerInv, TypeOK, Entry
  <2>5. PICK n \in Nat : logs \in [1 .. n -> Entry]
    BY <2>4, LenProperties
  <2>6. UsedWithin(logs, l, Window(l)) \in Nat
    BY <2>1, <2>5, UsedIs
  <2> QED
    BY <2>2, <2>3, <2>6 DEF CapacityUsed
<1> QED
  BY <1>1, ThrottlerInvariant, PTL

(* The exchange never counts more than a limit in an interval, as long as  *)
(* no request travels longer than the safety margin.                       *)
THEOREM LimitNeverExceeded == Spec => []ExchangeLimitRespected
<1>1. ThrottlerInv => ExchangeLimitRespected
  <2> SUFFICES ASSUME ThrottlerInv, NEW l \in Limits
               PROVE  seen[l][Interval[l]] <= Limit(l)
    BY DEF ExchangeLimitRespected
  <2>1. /\ Interval[l] \in Nat /\ Window(l) \in Nat /\ Margin[l] \in Nat /\ MaxDelay \in Nat
        /\ MaxDelay <= Margin[l] /\ Window(l) = Interval[l] + Margin[l] /\ Limit(l) \in Nat
    BY LimitTypes
  <2>3. Interval[l] \in 0 .. Window(l) - MaxDelay
    BY <2>1
  <2>4. seen[l][Interval[l]] + Travelling(phase, inFlight, l, MaxDelay)
          <= granted[l][Interval[l] + MaxDelay]
    BY <2>3 DEF ThrottlerInv, ArrivalsGranted
  <2>5. granted[l][Interval[l] + MaxDelay] <= granted[l][Window(l)]
    BY <2>1, GrantsGrow
  <2>6. granted[l][Window(l)] <= Limit(l)
    BY DEF ThrottlerInv, GrantsWithinLimit
  <2>7. /\ seen[l][Interval[l]] \in Nat /\ granted[l][Interval[l] + MaxDelay] \in Nat
        /\ granted[l][Window(l)] \in Nat /\ Travelling(phase, inFlight, l, MaxDelay) \in Nat
    <3>1. /\ Interval[l] \in 0 .. Window(l) /\ Interval[l] + MaxDelay \in 0 .. Window(l)
          /\ Window(l) \in 0 .. Window(l)
      BY <2>1
    <3>2. granted[l] \in [0 .. Window(l) -> Nat] /\ seen[l] \in [0 .. Window(l) -> Nat]
      BY DEF ThrottlerInv, TypeOK
    <3>3. Travelling(phase, inFlight, l, MaxDelay) \in Nat
      BY TravelType
    <3> QED
      BY <3>1, <3>2, <3>3
  <2> QED
    BY <2>1, <2>4, <2>5, <2>6, <2>7
<1> QED
  BY <1>1, ThrottlerInvariant, PTL
=============================================================================
