----------------------- MODULE OrderBookTracker_proofs -----------------------
(***************************************************************************)
(* Proofs about the order book and its tracker, for every set of prices,   *)
(* every market and every length of the two deques.                        *)
(*                                                                         *)
(* The truncation and the replay are recursive functions, so what they     *)
(* compute is shown by induction: the set of the numbers up to which a     *)
(* fact holds is all of Nat (NatByInduction).                              *)
(***************************************************************************)
EXTENDS OrderBookTracker, FiniteSetTheorems, WellFoundedInduction, TLAPS

-----------------------------------------------------------------------------
(* Numbers and finite sets of numbers.                                     *)

(* Every set of numbers has a least one.                                   *)
LEMMA LeastNumber ==
  ASSUME NEW S \in SUBSET Nat, S # {}
  PROVE  \E n \in S : \A m \in S : n <= m
<1>1. PICK n \in S : \A m \in S : <<m, n>> \notin OpToRel(<, Nat)
  BY NatLessThanWellFounded, WFMin, Zenon
<1>2. \A m \in S : ~ (m < n)
  BY <1>1 DEF OpToRel
<1> QED
  BY <1>2

(* Induction, for a set instead of a predicate.                            *)
LEMMA NatByInduction ==
  ASSUME NEW S \in SUBSET Nat, 0 \in S, \A n \in S : n + 1 \in S
  PROVE  S = Nat
<1>1. SUFFICES ASSUME Nat \ S # {}
               PROVE  FALSE
  OBVIOUS
<1>2. PICK n \in Nat \ S : \A m \in Nat \ S : n <= m
  BY <1>1, LeastNumber
<1>3. n # 0 /\ n - 1 \in Nat
  BY <1>2
<1>4. n - 1 \in S
  BY <1>2, <1>3
<1>5. (n - 1) + 1 = n
  BY <1>2
<1> QED
  BY <1>2, <1>4, <1>5

(* A finite set of numbers has a greatest one.                             *)
LEMMA GreatestNumber ==
  ASSUME NEW T \in SUBSET Nat, IsFiniteSet(T), T # {}
  PROVE  \E n \in T : \A m \in T : m <= n
<1> DEFINE S == {n \in Nat : \A U \in SUBSET T : Cardinality(U) = n + 1 =>
                   \E x \in U : \A y \in U : y <= x}
<1>1. 0 \in S
  <2> SUFFICES ASSUME NEW U \in SUBSET T, Cardinality(U) = 1
               PROVE  \E x \in U : \A y \in U : y <= x
    OBVIOUS
  <2>1. IsFiniteSet(U)
    BY FS_Subset
  <2>2. PICK x : U = {x}
    BY <2>1, FS_Singleton
  <2> QED
    BY <2>2
<1>2. ASSUME NEW n \in S
      PROVE  n + 1 \in S
  <2> SUFFICES ASSUME NEW U \in SUBSET T, Cardinality(U) = (n + 1) + 1
               PROVE  \E x \in U : \A y \in U : y <= x
    OBVIOUS
  <2>1. IsFiniteSet(U) /\ n \in Nat
    BY FS_Subset
  <2>2. U # {}
    BY <2>1, FS_EmptySet
  <2>3. PICK z \in U : TRUE
    BY <2>2
  <2>4. Cardinality(U \ {z}) = n + 1
    <3>1. Cardinality(U \ {z}) = Cardinality(U) - 1
      BY <2>1, <2>3, FS_RemoveElement, Zenon
    <3> QED
      BY <2>1, <3>1
  <2>5. U \ {z} \in SUBSET T
    OBVIOUS
  <2>6. PICK x \in U \ {z} : \A y \in U \ {z} : y <= x
    BY <2>4, <2>5
  <2>7. CASE z <= x
    BY <2>6, <2>7
  <2>8. CASE x <= z
    BY <2>3, <2>6, <2>8
  <2> QED
    BY <2>3, <2>6, <2>7, <2>8
<1>3. S = Nat
  <2> HIDE DEF S
  <2>1. S \in SUBSET Nat
    BY DEF S
  <2> QED
    BY <1>1, <1>2, <2>1, NatByInduction
<1>4. Cardinality(T) \in Nat /\ Cardinality(T) # 0
  BY FS_CardinalityType, FS_EmptySet
<1>5. Cardinality(T) - 1 \in S
  BY <1>3, <1>4
<1>6. (Cardinality(T) - 1) + 1 = Cardinality(T)
  BY <1>4
<1> QED
  BY <1>5, <1>6

-----------------------------------------------------------------------------
(* Levels and the best of a side.                                          *)

(* With finitely many prices there are finitely many levels.               *)
LEMMA FiniteLevels ==
  ASSUME NEW levels \in SUBSET Level
  PROVE  IsFiniteSet(levels)
<1> DEFINE pairs == {"bid", "ask"} \X Prices
           f == [p \in pairs |-> [side |-> p[1], price |-> p[2]]]
<1>1. IsFiniteSet({"bid", "ask"})
  <2>1. IsFiniteSet({"bid"})
    BY FS_Singleton
  <2>2. IsFiniteSet({"bid"} \cup {"ask"})
    BY <2>1, FS_AddElement
  <2> QED
    BY <2>2
<1>2. IsFiniteSet(pairs)
  BY <1>1, PriceAssumption, FS_Product
<1>3. f \in [pairs -> Level]
  BY DEF Level
<1>4. \A l \in Level : \E p \in pairs : f[p] = l
  <2> SUFFICES ASSUME NEW l \in Level
               PROVE  \E p \in pairs : f[p] = l
    OBVIOUS
  <2>1. <<l.side, l.price>> \in pairs
    BY DEF Level
  <2>2. f[<<l.side, l.price>>] = [side |-> l.side, price |-> l.price]
    BY <2>1
  <2>3. l = [side |-> l.side, price |-> l.price]
    BY DEF Level
  <2> QED
    BY <2>1, <2>2, <2>3
<1>5. f \in Surjection(pairs, Level)
  BY <1>3, <1>4 DEF Surjection
<1>6. IsFiniteSet(Level)
  BY <1>2, <1>5, FS_Surjection
<1> QED
  BY <1>6, FS_Subset

(* TopBid has the highest price of the bids.                               *)
LEMMA TopBidIsTop ==
  ASSUME NEW levels \in SUBSET Level, Side(levels, "bid") # {}
  PROVE  /\ TopBid(levels) \in Side(levels, "bid")
         /\ \A c \in Side(levels, "bid") : c.price <= TopBid(levels).price
<1> DEFINE prices == {b.price : b \in Side(levels, "bid")}
<1>1. prices \in SUBSET Prices /\ prices # {}
  BY DEF Side, Level
<1>2. PICK n \in prices : \A m \in prices : m <= n
  <2>1. prices \in SUBSET Nat /\ IsFiniteSet(prices)
    BY <1>1, PriceAssumption, FS_Subset
  <2> QED
    BY <1>1, <2>1, GreatestNumber
<1>3. PICK b \in Side(levels, "bid") : b.price = n
  BY <1>2
<1>4. \A c \in Side(levels, "bid") : c.price <= b.price
  BY <1>2, <1>3
<1> QED
  BY <1>4 DEF TopBid

(* TopAsk has the lowest price of the asks.                                *)
LEMMA TopAskIsTop ==
  ASSUME NEW levels \in SUBSET Level, Side(levels, "ask") # {}
  PROVE  /\ TopAsk(levels) \in Side(levels, "ask")
         /\ \A c \in Side(levels, "ask") : c.price >= TopAsk(levels).price
<1> DEFINE prices == {a.price : a \in Side(levels, "ask")}
<1>1. prices \in SUBSET Prices /\ prices # {}
  BY DEF Side, Level
<1>2. PICK n \in prices : \A m \in prices : n <= m
  <2>1. prices \in SUBSET Nat
    BY <1>1, PriceAssumption
  <2> QED
    BY <1>1, <2>1, LeastNumber
<1>3. PICK a \in Side(levels, "ask") : a.price = n
  BY <1>2
<1>4. \A c \in Side(levels, "ask") : c.price >= a.price
  BY <1>1, <1>2, <1>3, PriceAssumption
<1> QED
  BY <1>4 DEF TopAsk

(* The best bid and the best ask of a crossed book cross each other.       *)
LEMMA TopsCross ==
  ASSUME NEW levels \in SUBSET Level, Crossed(levels)
  PROVE  /\ TopBid(levels) \in levels /\ TopBid(levels).side = "bid"
         /\ TopAsk(levels) \in levels /\ TopAsk(levels).side = "ask"
         /\ TopBid(levels).price >= TopAsk(levels).price
<1>1. PICK b \in Side(levels, "bid"), a \in Side(levels, "ask") : b.price >= a.price
  BY DEF Crossed
<1>2. /\ TopBid(levels) \in Side(levels, "bid")
      /\ b.price <= TopBid(levels).price
  BY <1>1, TopBidIsTop
<1>3. /\ TopAsk(levels) \in Side(levels, "ask")
      /\ a.price >= TopAsk(levels).price
  BY <1>1, TopAskIsTop
<1>4. {b.price, a.price, TopBid(levels).price, TopAsk(levels).price} \subseteq Nat
  BY <1>2, <1>3, PriceAssumption DEF Side, Level
<1> QED
  BY <1>1, <1>2, <1>3, <1>4 DEF Side

-----------------------------------------------------------------------------
(* The truncation.                                                         *)

(* The levels of a book with their update ids, of a market with n books.   *)
Entries(n) == UNION {[levels -> 1 .. n] : levels \in SUBSET Level}

(* A level that is newer than every level it crosses.                      *)
Safe(entries, l) ==
  \A m \in DOMAIN entries :
    (Crossed({l, m}) /\ ~ Crossed({l}) /\ ~ Crossed({m})) => entries[m] < entries[l]

(* What the truncation does to a set of levels, level by level.            *)
Truncation(entries, kept, levels) ==
  kept[levels] = IF Crossed(levels) THEN kept[levels \ {Loser(entries, levels)}]
                 ELSE levels

(* Of a crossed book the loser is taken away, and it is not a safe level.  *)
LEMMA LoserIsTaken ==
  ASSUME NEW n \in Nat, NEW entries \in Entries(n),
         NEW levels \in SUBSET DOMAIN entries, Crossed(levels)
  PROVE  /\ Loser(entries, levels) \in levels
         /\ ~ Safe(entries, Loser(entries, levels))
<1> DEFINE b == TopBid(levels)
           a == TopAsk(levels)
<1>1. levels \in SUBSET Level
  BY DEF Entries
<1>2. /\ b \in levels /\ b.side = "bid"
      /\ a \in levels /\ a.side = "ask"
      /\ b.price >= a.price
  BY <1>1, TopsCross
<1>3. Loser(entries, levels) = IF entries[b] > entries[a] THEN a ELSE b
  BY DEF Loser
<1> HIDE DEF a, b
<1>4. entries[a] \in Nat /\ entries[b] \in Nat
  BY <1>2 DEF Entries
<1>5. Crossed({a, b}) /\ ~ Crossed({a}) /\ ~ Crossed({b})
  BY <1>2 DEF Crossed, Side
<1>6. {b, a} = {a, b}
  OBVIOUS
<1>7. CASE entries[b] > entries[a]
  <2>1. ~ Safe(entries, a)
    BY <1>2, <1>4, <1>5, <1>7 DEF Safe
  <2> QED
    BY <1>2, <1>3, <1>7, <2>1
<1>8. CASE ~ (entries[b] > entries[a])
  <2>1. ~ Safe(entries, b)
    BY <1>2, <1>4, <1>5, <1>6, <1>8 DEF Safe
  <2> QED
    BY <1>2, <1>3, <1>8, <2>1
<1> QED
  BY <1>7, <1>8

(* The recursive function of the truncation exists, by induction on the    *)
(* number of levels.                                                       *)
LEMMA TruncationExists ==
  ASSUME NEW n \in Nat, NEW entries \in Entries(n)
  PROVE  \E kept : kept = [levels \in SUBSET DOMAIN entries |->
                             IF Crossed(levels)
                             THEN kept[levels \ {Loser(entries, levels)}]
                             ELSE levels]
<1> DEFINE Sets == SUBSET DOMAIN entries
           S == {i \in Nat : \E kept : \A levels \in Sets :
                   Cardinality(levels) <= i => Truncation(entries, kept, levels)}
<1>0. \A levels \in Sets : IsFiniteSet(levels) /\ Cardinality(levels) \in Nat
  <2> SUFFICES ASSUME NEW levels \in Sets
               PROVE  IsFiniteSet(levels) /\ Cardinality(levels) \in Nat
    OBVIOUS
  <2>1. levels \in SUBSET Level
    BY DEF Entries
  <2> QED
    BY <2>1, FiniteLevels, FS_CardinalityType
<1>1. 0 \in S
  <2>1. PICK kept : kept = [levels \in Sets |-> levels]
    OBVIOUS
  <2>2. ASSUME NEW levels \in Sets, Cardinality(levels) <= 0
        PROVE  Truncation(entries, kept, levels)
    <3>1. levels = {}
      BY <1>0, <2>2, FS_EmptySet
    <3>2. ~ Crossed(levels)
      BY <3>1 DEF Crossed, Side
    <3> QED
      BY <2>1, <3>2 DEF Truncation
  <2> QED
    BY <2>2
<1>2. ASSUME NEW i \in S
      PROVE  i + 1 \in S
  <2>1. PICK kept : \A levels \in Sets :
                      Cardinality(levels) <= i => Truncation(entries, kept, levels)
    OBVIOUS
  <2>2. PICK more : more = [levels \in Sets |->
                              IF Cardinality(levels) <= i THEN kept[levels]
                              ELSE IF Crossed(levels)
                                   THEN kept[levels \ {Loser(entries, levels)}]
                                   ELSE levels]
    OBVIOUS
  <2>3. ASSUME NEW levels \in Sets, Cardinality(levels) <= i + 1
        PROVE  Truncation(entries, more, levels)
    <3>1. CASE ~ Crossed(levels)
      BY <2>1, <2>2, <3>1 DEF Truncation
    <3>2. CASE Crossed(levels)
      <4>1. PICK rest : rest = levels \ {Loser(entries, levels)}
        OBVIOUS
      <4>2. rest \in Sets /\ Loser(entries, levels) \in levels
        BY <3>2, <4>1, LoserIsTaken
      <4>3. Cardinality(rest) = Cardinality(levels) - 1
        BY <1>0, <4>1, <4>2, FS_RemoveElement, Zenon
      <4>4. Cardinality(rest) <= i /\ i \in Nat
        BY <1>0, <2>3, <4>3
      <4>5. more[rest] = kept[rest]
        BY <2>2, <4>2, <4>4
      <4>6. more[levels] = kept[rest]
        BY <2>1, <2>2, <3>2, <4>1 DEF Truncation
      <4> QED
        BY <3>2, <4>1, <4>5, <4>6 DEF Truncation
    <3> QED
      BY <3>1, <3>2
  <2>4. i + 1 \in Nat
    OBVIOUS
  <2> QED
    BY <2>3, <2>4
<1>3. S = Nat
  <2>1. S \in SUBSET Nat
    OBVIOUS
  <2> HIDE DEF S
  <2> QED
    BY <1>1, <1>2, <2>1, NatByInduction
<1>4. PICK kept : \A levels \in Sets :
                    Cardinality(levels) <= Cardinality(DOMAIN entries)
                      => Truncation(entries, kept, levels)
  <2>1. Cardinality(DOMAIN entries) \in S
    BY <1>0, <1>3
  <2> QED
    BY <2>1
<1>5. \A levels \in Sets : Truncation(entries, kept, levels)
  BY <1>0, <1>4, FS_Subset
<1>6. PICK result : result = [levels \in Sets |-> kept[levels]]
  OBVIOUS
<1>7. result = [levels \in Sets |-> IF Crossed(levels)
                                    THEN result[levels \ {Loser(entries, levels)}]
                                    ELSE levels]
  <2>1. ASSUME NEW levels \in Sets
        PROVE  kept[levels] = IF Crossed(levels)
                              THEN result[levels \ {Loser(entries, levels)}]
                              ELSE levels
    <3>1. levels \ {Loser(entries, levels)} \in Sets
      OBVIOUS
    <3> QED
      BY <1>5, <1>6, <3>1 DEF Truncation
  <2> QED
    BY <1>6, <2>1, Zenon
<1> QED
  BY <1>7

(* What the truncation leaves does not cross, and holds every safe level.  *)
LEMMA Truncated ==
  ASSUME NEW n \in Nat, NEW entries \in Entries(n)
  PROVE  LET result == truncateOverlapEntries(entries)
         IN  /\ result \in Entries(n)
             /\ DOMAIN result \subseteq DOMAIN entries
             /\ \A l \in DOMAIN result : result[l] = entries[l]
             /\ ~ Crossed(DOMAIN result)
             /\ \A l \in DOMAIN entries : Safe(entries, l) => l \in DOMAIN result
<1> DEFINE Sets == SUBSET DOMAIN entries
<1>1. PICK kept :
        /\ kept = [levels \in Sets |-> IF Crossed(levels)
                                       THEN kept[levels \ {Loser(entries, levels)}]
                                       ELSE levels]
        /\ truncateOverlapEntries(entries) = [l \in kept[DOMAIN entries] |-> entries[l]]
  <2>1. \E k : k = [levels \in Sets |-> IF Crossed(levels)
                                        THEN k[levels \ {Loser(entries, levels)}]
                                        ELSE levels]
    BY TruncationExists
  <2> QED
    BY <2>1 DEF truncateOverlapEntries
<1>2. \A levels \in Sets : Truncation(entries, kept, levels)
  BY <1>1 DEF Truncation
<1> DEFINE Good(levels) ==
             /\ kept[levels] \subseteq levels
             /\ ~ Crossed(kept[levels])
             /\ \A l \in levels : Safe(entries, l) => l \in kept[levels]
           S == {i \in Nat : \A levels \in Sets : Cardinality(levels) <= i => Good(levels)}
<1>3. \A levels \in Sets : IsFiniteSet(levels) /\ Cardinality(levels) \in Nat
  <2> SUFFICES ASSUME NEW levels \in Sets
               PROVE  IsFiniteSet(levels) /\ Cardinality(levels) \in Nat
    OBVIOUS
  <2>1. levels \in SUBSET Level
    BY DEF Entries
  <2> QED
    BY <2>1, FiniteLevels, FS_CardinalityType
<1>4. 0 \in S
  <2> SUFFICES ASSUME NEW levels \in Sets, Cardinality(levels) <= 0
               PROVE  Good(levels)
    OBVIOUS
  <2>1. levels = {}
    BY <1>3, FS_EmptySet
  <2>2. ~ Crossed(levels)
    BY <2>1 DEF Crossed, Side
  <2> QED
    BY <1>2, <2>2 DEF Truncation
<1>5. ASSUME NEW i \in S
      PROVE  i + 1 \in S
  <2>1. ASSUME NEW levels \in Sets, Cardinality(levels) <= i + 1
        PROVE  Good(levels)
    <3>1. CASE ~ Crossed(levels)
      BY <1>2, <3>1 DEF Truncation
    <3>2. CASE Crossed(levels)
      <4>1. PICK rest : rest = levels \ {Loser(entries, levels)}
        OBVIOUS
      <4>2. /\ Loser(entries, levels) \in levels
            /\ ~ Safe(entries, Loser(entries, levels))
        BY <3>2, LoserIsTaken
      <4>3. Cardinality(rest) = Cardinality(levels) - 1
        BY <1>3, <4>1, <4>2, FS_RemoveElement, Zenon
      <4>4. Cardinality(rest) <= i /\ i \in Nat /\ rest \in Sets
        BY <1>3, <2>1, <4>1, <4>3
      <4>5. Good(rest)
        BY <4>4
      <4>6. kept[levels] = kept[rest]
        BY <1>2, <3>2, <4>1 DEF Truncation
      <4> QED
        BY <4>1, <4>2, <4>5, <4>6
    <3> QED
      BY <3>1, <3>2
  <2>2. i + 1 \in Nat
    OBVIOUS
  <2> HIDE DEF Good
  <2> QED
    BY <2>1, <2>2
<1>6. S = Nat
  <2>1. S \in SUBSET Nat
    OBVIOUS
  <2> HIDE DEF S
  <2> QED
    BY <1>4, <1>5, <2>1, NatByInduction
<1>7. Good(DOMAIN entries)
  <2>1. Cardinality(DOMAIN entries) \in S
    BY <1>3, <1>6
  <2> QED
    BY <1>3, <2>1
<1>8. truncateOverlapEntries(entries) \in [kept[DOMAIN entries] -> 1 .. n]
  BY <1>1, <1>7 DEF Entries
<1>9. kept[DOMAIN entries] \in SUBSET Level
  BY <1>7 DEF Entries
<1>10. truncateOverlapEntries(entries) \in Entries(n)
  BY <1>8, <1>9 DEF Entries
<1> QED
  BY <1>1, <1>7, <1>10

-----------------------------------------------------------------------------
(* The book, the market it copies, and what a diff or a snapshot does.     *)

BookType(n) == [entries : Entries(n), snapshotUid : 0 .. n,
                bestBid : Prices \cup {NoPrice}, bestAsk : Prices \cup {NoPrice}]

(* The prices a book quotes are its best.                                  *)
Quotes(b) ==
  /\ Side(DOMAIN b.entries, "bid") # {} => b.bestBid = TopBid(DOMAIN b.entries).price
  /\ Side(DOMAIN b.entries, "ask") # {} => b.bestAsk = TopAsk(DOMAIN b.entries).price

(* A book that does not cross, whose levels the market had with the        *)
(* updates they are said to come from.                                     *)
BookOK(b, bs) ==
  /\ b \in BookType(Len(bs))
  /\ ~ Crossed(DOMAIN b.entries)
  /\ \A l \in DOMAIN b.entries : l \in bs[b.entries[l]]
  /\ Quotes(b)

(* Update u changed level l, and no later one did.                         *)
LastChanged(bs, l, u) ==
  /\ u \in 2 .. Len(bs)
  /\ ~ ((l \in bs[u]) <=> (l \in bs[u - 1]))
  /\ \A v \in u .. Len(bs) : (l \in bs[v]) <=> (l \in bs[u])

(* The levels that the updates in U changed last are as the market has     *)
(* them, and at least as new as that update.                               *)
Current(b, bs, U) ==
  \A u \in U, l \in Level :
    LastChanged(bs, l, u) =>
      /\ (l \in DOMAIN b.entries) <=> (l \in bs[Len(bs)])
      /\ l \in DOMAIN b.entries => b.entries[l] >= u

(* Every level is as the market once had it.                               *)
Seen(b, bs) ==
  \A l \in Level : \E u \in 1 .. Len(bs) : (l \in DOMAIN b.entries) <=> (l \in bs[u])

Market(bs) == bs \in Seq(Listed) /\ Len(bs) >= 1

(* A book of the market is a set of levels that does not cross.            *)
LEMMA MarketBooks ==
  ASSUME NEW bs, Market(bs), NEW u \in 1 .. Len(bs)
  PROVE  bs[u] \in SUBSET Level /\ ~ Crossed(bs[u])
BY TrackerAssumption DEF Market

(* Two levels that cross each other cross in every set that holds both.    *)
LEMMA PairCrosses ==
  ASSUME NEW levels \in SUBSET Level, NEW l \in levels, NEW m \in levels, Crossed({l, m})
  PROVE  Crossed(levels)
BY DEF Crossed, Side

(* The best prices recorded are prices, or what was recorded before.       *)
LEMMA BestType ==
  ASSUME NEW levels \in SUBSET Level, NEW old \in Prices \cup {NoPrice}
  PROVE  /\ BestBid(levels, old) \in Prices \cup {NoPrice}
         /\ BestAsk(levels, old) \in Prices \cup {NoPrice}
<1>1. BestBid(levels, old) \in Prices \cup {NoPrice}
  <2>1. CASE Side(levels, "bid") = {}
    BY <2>1 DEF BestBid
  <2>2. CASE Side(levels, "bid") # {}
    BY <2>2, TopBidIsTop DEF BestBid, Side, Level
  <2> QED
    BY <2>1, <2>2
<1>2. BestAsk(levels, old) \in Prices \cup {NoPrice}
  <2>1. CASE Side(levels, "ask") = {}
    BY <2>1 DEF BestAsk
  <2>2. CASE Side(levels, "ask") # {}
    BY <2>2, TopAskIsTop DEF BestAsk, Side, Level
  <2> QED
    BY <2>1, <2>2
<1> QED
  BY <1>1, <1>2

(* A snapshot gives a book that is as the market was then.                 *)
LEMMA SnapshotApplied ==
  ASSUME NEW bs, Market(bs), NEW u \in 1 .. Len(bs)
  PROVE  /\ BookOK(c_apply_snapshot(bs, u), bs)
         /\ Seen(c_apply_snapshot(bs, u), bs)
<1>1. PICK b : b = c_apply_snapshot(bs, u)
  OBVIOUS
<1>2. /\ b.entries = [l \in bs[u] |-> u]
      /\ b.snapshotUid = u
      /\ b.bestBid = BestBid(bs[u], NoPrice)
      /\ b.bestAsk = BestAsk(bs[u], NoPrice)
  BY <1>1 DEF c_apply_snapshot
<1>3. bs[u] \in SUBSET Level /\ ~ Crossed(bs[u])
  BY MarketBooks
<1>4. b.entries \in Entries(Len(bs)) /\ DOMAIN b.entries = bs[u]
  BY <1>2, <1>3 DEF Entries
<1>5. b.bestBid \in Prices \cup {NoPrice} /\ b.bestAsk \in Prices \cup {NoPrice}
  BY <1>2, <1>3, BestType
<1>6. b \in BookType(Len(bs))
  BY <1>1, <1>2, <1>4, <1>5 DEF BookType, c_apply_snapshot, Market
<1>7. Quotes(b)
  BY <1>2, <1>4 DEF Quotes, BestBid, BestAsk
<1>8. BookOK(b, bs)
  BY <1>2, <1>3, <1>4, <1>6, <1>7 DEF BookOK
<1>9. Seen(b, bs)
  BY <1>4 DEF Seen
<1> QED
  BY <1>1, <1>8, <1>9

(* A diff sets its levels, takes others away, and keeps the levels that no *)
(* later update touched: they are newer than all they could cross.         *)
LEMMA DiffApplied ==
  ASSUME NEW bs, Market(bs), NEW b, BookOK(b, bs), NEW u \in 2 .. Len(bs),
         NEW U \in SUBSET Nat, \A w \in U : w < u, Current(b, bs, U)
  PROVE  /\ BookOK(c_apply_diffs(b, bs, u), bs)
         /\ Current(c_apply_diffs(b, bs, u), bs, U \cup {u})
         /\ Seen(b, bs) => Seen(c_apply_diffs(b, bs, u), bs)
<1>0. PICK n \in Nat : n = Len(bs) /\ u \in 2 .. n /\ u \in 1 .. n /\ u - 1 \in 1 .. n
  BY DEF Market
<1>1. PICK new, gone : new = RowsSet(bs, u) /\ gone = RowsGone(bs, u)
  OBVIOUS
<1>2. PICK kept : kept = DOMAIN b.entries \ gone
  OBVIOUS
<1>3. PICK rows : rows = [l \in kept \cup new |-> IF l \in new THEN u ELSE b.entries[l]]
  OBVIOUS
<1>4. PICK c : c = c_apply_diffs(b, bs, u)
  OBVIOUS
<1>5. c = [b EXCEPT !.entries = truncateOverlapEntries(rows),
                    !.bestBid = BestBid(DOMAIN truncateOverlapEntries(rows), @),
                    !.bestAsk = BestAsk(DOMAIN truncateOverlapEntries(rows), @)]
  BY <1>1, <1>2, <1>3, <1>4, Zenon DEF c_apply_diffs
<1>6. PICK entries : entries = truncateOverlapEntries(rows)
  OBVIOUS
<1>7. b \in BookType(n) /\ b.entries \in Entries(n)
  BY <1>0 DEF BookOK, BookType
<1>8. /\ new \in SUBSET Level /\ \A l \in new : l \in bs[u] /\ l \notin bs[u - 1]
      /\ \A l : l \in gone <=> l \in bs[u - 1] /\ l \notin bs[u]
      /\ \A l : l \in new <=> l \in bs[u] /\ l \notin bs[u - 1]
  BY <1>0, <1>1, MarketBooks DEF RowsSet, RowsGone
<1>9. rows \in Entries(n)
  <2>1. kept \cup new \in SUBSET Level
    BY <1>2, <1>7, <1>8 DEF Entries
  <2>2. rows \in [kept \cup new -> 1 .. n]
    BY <1>0, <1>2, <1>3, <1>7 DEF Entries
  <2> QED
    BY <2>1, <2>2 DEF Entries
<1>10. \A l \in DOMAIN rows : l \in bs[rows[l]]
  BY <1>2, <1>3, <1>8 DEF BookOK
<1>11. /\ entries \in Entries(n)
       /\ DOMAIN entries \subseteq DOMAIN rows
       /\ \A l \in DOMAIN entries : entries[l] = rows[l]
       /\ ~ Crossed(DOMAIN entries)
       /\ \A l \in DOMAIN rows : Safe(rows, l) => l \in DOMAIN entries
  BY <1>6, <1>9, Truncated
<1>12. DOMAIN entries \in SUBSET Level
  BY <1>11 DEF Entries
<1>13. /\ c.entries = entries
       /\ c.snapshotUid = b.snapshotUid
       /\ c.bestBid = BestBid(DOMAIN entries, b.bestBid)
       /\ c.bestAsk = BestAsk(DOMAIN entries, b.bestAsk)
  BY <1>5, <1>6, <1>7 DEF BookType
<1>14. c \in BookType(n)
  <2>1. /\ BestBid(DOMAIN entries, b.bestBid) \in Prices \cup {NoPrice}
        /\ BestAsk(DOMAIN entries, b.bestAsk) \in Prices \cup {NoPrice}
    BY <1>7, <1>12, BestType DEF BookType
  <2> QED
    BY <1>5, <1>6, <1>7, <1>11, <2>1 DEF BookType
<1>15. BookOK(c, bs)
  <2>1. Quotes(c)
    BY <1>13 DEF Quotes, BestBid, BestAsk
  <2>2. \A l \in DOMAIN c.entries : l \in bs[c.entries[l]]
    BY <1>10, <1>11, <1>13
  <2> QED
    BY <1>0, <1>11, <1>13, <1>14, <2>1, <2>2 DEF BookOK
<1>16. ASSUME NEW l \in DOMAIN rows, \A v \in rows[l] .. n : l \in bs[v]
       PROVE  l \in DOMAIN entries
  <2>1. ASSUME NEW m \in DOMAIN rows, Crossed({l, m})
        PROVE  rows[m] < rows[l]
    <3>1. rows[m] \in 1 .. n /\ rows[l] \in 1 .. n
      BY <1>9 DEF Entries
    <3>2. SUFFICES ASSUME rows[m] >= rows[l]
                   PROVE  FALSE
      BY <3>1
    <3>3. rows[m] \in rows[l] .. n
      BY <3>1, <3>2
    <3>4. l \in bs[rows[m]] /\ m \in bs[rows[m]]
      BY <1>10, <1>16, <2>1, <3>3
    <3> QED
      BY <1>0, <2>1, <3>1, <3>4, MarketBooks, PairCrosses
  <2>2. Safe(rows, l)
    BY <2>1 DEF Safe
  <2> QED
    BY <1>11, <2>2
<1>17. Current(c, bs, U \cup {u})
  <2> SUFFICES ASSUME NEW w \in U \cup {u}, NEW l \in Level, LastChanged(bs, l, w)
               PROVE  /\ (l \in DOMAIN entries) <=> (l \in bs[n])
                      /\ l \in DOMAIN entries => entries[l] >= w
    BY <1>0, <1>13 DEF Current
  <2>0. /\ w \in 2 .. n
        /\ ~ ((l \in bs[w]) <=> (l \in bs[w - 1]))
        /\ \A v \in w .. n : (l \in bs[v]) <=> (l \in bs[w])
    BY <1>0 DEF LastChanged
  <2>1. n \in w .. n
    BY <1>0, <2>0
  <2>2. CASE w = u
    <3>1. CASE l \in bs[u]
      <4>1. l \in new
        BY <1>8, <2>0, <2>2, <3>1
      <4>2. l \in DOMAIN rows /\ rows[l] = u
        BY <1>3, <4>1
      <4>3. l \in DOMAIN entries
        BY <1>16, <2>0, <2>2, <3>1, <4>2
      <4> QED
        BY <1>11, <2>0, <2>1, <2>2, <3>1, <4>2, <4>3
    <3>2. CASE l \notin bs[u]
      <4>1. l \in gone /\ l \notin new
        BY <1>8, <2>0, <2>2, <3>2
      <4>2. l \notin DOMAIN rows
        BY <1>2, <1>3, <4>1
      <4> QED
        BY <1>11, <2>0, <2>1, <2>2, <3>2, <4>2
    <3> QED
      BY <3>1, <3>2
  <2>3. CASE w \in U
    <3>1. w < u /\ u - 1 \in w .. n /\ u \in w .. n
      BY <1>0, <2>0, <2>3
    <3>2. l \notin new /\ l \notin gone
      BY <1>8, <2>0, <3>1
    <3>3. /\ (l \in DOMAIN b.entries) <=> (l \in bs[n])
          /\ l \in DOMAIN b.entries => b.entries[l] >= w
      BY <1>0, <2>3 DEF Current
    <3>4. CASE l \in DOMAIN b.entries
      <4>1. l \in DOMAIN rows /\ rows[l] = b.entries[l]
        BY <1>2, <1>3, <3>2, <3>4
      <4>2. rows[l] \in 1 .. n
        BY <1>9, <4>1 DEF Entries
      <4>3. \A v \in rows[l] .. n : l \in bs[v]
        BY <2>0, <2>1, <3>3, <3>4, <4>1, <4>2
      <4>4. l \in DOMAIN entries
        BY <1>16, <4>1, <4>3
      <4> QED
        BY <1>11, <3>3, <3>4, <4>1, <4>4
    <3>5. CASE l \notin DOMAIN b.entries
      <4>1. l \notin DOMAIN rows
        BY <1>2, <1>3, <3>2, <3>5
      <4> QED
        BY <1>11, <3>3, <3>5, <4>1
    <3> QED
      BY <3>4, <3>5
  <2> QED
    BY <2>2, <2>3
<1>18. ASSUME Seen(b, bs)
       PROVE  Seen(c, bs)
  <2> SUFFICES ASSUME NEW l \in Level
               PROVE  \E v \in 1 .. n : (l \in DOMAIN entries) <=> (l \in bs[v])
    BY <1>0, <1>13 DEF Seen
  <2>1. CASE l \in DOMAIN entries
    <3>1. rows[l] \in 1 .. n /\ l \in bs[rows[l]]
      BY <1>9, <1>10, <1>11, <2>1 DEF Entries
    <3> QED
      BY <2>1, <3>1
  <2>2. CASE l \notin DOMAIN entries
    <3>1. SUFFICES ASSUME \A v \in 1 .. n : l \in bs[v]
                   PROVE  FALSE
      BY <2>2
    <3>2. l \in DOMAIN b.entries
      BY <1>0, <1>18, <3>1 DEF Seen
    <3>3. l \notin gone /\ l \notin new
      BY <1>0, <1>8, <3>1
    <3>4. l \in DOMAIN rows
      BY <1>2, <1>3, <3>2, <3>3
    <3>5. rows[l] \in 1 .. n
      BY <1>9, <3>4 DEF Entries
    <3>6. \A v \in rows[l] .. n : l \in bs[v]
      BY <3>1, <3>5
    <3> QED
      BY <1>16, <2>2, <3>4, <3>6
  <2> QED
    BY <2>1, <2>2
<1> QED
  BY <1>4, <1>15, <1>17, <1>18

(* Every past diff is replayed: each message with an update id is less     *)
(* than every other.                                                       *)
LEMMA AllReplayed ==
  ASSUME NEW M, NEW diffs \in Seq(M), NEW snapshot, snapshot.type = "snapshot"
  PROVE  ReplayedDiffs(diffs, snapshot) = diffs
<1>1. {0} \cup {i \in DOMAIN diffs : ~ Less(snapshot, diffs[i])} = {0}
  BY DEF Less
<1>2. Max({0}) = 0
  BY DEF Max
<1>3. ReplayedDiffs(diffs, snapshot) = SubSeq(diffs, 0 + 1, Len(diffs))
  BY <1>1, <1>2, Zenon DEF ReplayedDiffs
<1> QED
  BY <1>3

(* The books of a replay, one after each diff.                             *)
IsReplay(r, bs, first, diffs, n) ==
  r = [i \in 0 .. n |-> IF i = 0 THEN first ELSE c_apply_diffs(r[i - 1], bs, diffs[i].uid)]

(* The recursive function of the replay exists, by induction on the number *)
(* of diffs.                                                               *)
LEMMA ReplayExists ==
  ASSUME NEW bs, NEW first, NEW diffs, NEW n \in Nat
  PROVE  \E r : IsReplay(r, bs, first, diffs, n)
<1> DEFINE S == {k \in Nat : \E r : r = [i \in 0 .. k |->
                   IF i = 0 THEN first ELSE c_apply_diffs(r[i - 1], bs, diffs[i].uid)]}
<1>1. 0 \in S
  <2>1. PICK r : r = [i \in 0 .. 0 |-> first]
    OBVIOUS
  <2>2. \A i \in 0 .. 0 : i = 0
    OBVIOUS
  <2>3. r = [i \in 0 .. 0 |-> IF i = 0 THEN first
                              ELSE c_apply_diffs(r[i - 1], bs, diffs[i].uid)]
    BY <2>1, <2>2
  <2> QED
    BY <2>3
<1>2. ASSUME NEW k \in S
      PROVE  k + 1 \in S
  <2>1. PICK r : r = [i \in 0 .. k |-> IF i = 0 THEN first
                                       ELSE c_apply_diffs(r[i - 1], bs, diffs[i].uid)]
    OBVIOUS
  <2>2. PICK s : s = [i \in 0 .. k + 1 |-> IF i <= k THEN r[i]
                                           ELSE c_apply_diffs(r[k], bs, diffs[k + 1].uid)]
    OBVIOUS
  <2>3. ASSUME NEW i \in 0 .. k + 1
        PROVE  s[i] = IF i = 0 THEN first
                      ELSE c_apply_diffs(s[i - 1], bs, diffs[i].uid)
    <3>1. CASE i = 0
      BY <2>1, <2>2, <3>1
    <3>2. CASE i \in 1 .. k
      <4>1. s[i] = r[i] /\ s[i - 1] = r[i - 1]
        BY <2>2, <3>2
      <4>2. r[i] = c_apply_diffs(r[i - 1], bs, diffs[i].uid)
        BY <2>1, <3>2
      <4> QED
        BY <3>2, <4>1, <4>2
    <3>3. CASE i = k + 1
      <4>1. s[i - 1] = r[k] /\ i # 0
        BY <2>2, <3>3
      <4>2. s[i] = c_apply_diffs(r[k], bs, diffs[k + 1].uid)
        BY <2>2, <3>3
      <4> QED
        BY <3>3, <4>1, <4>2
    <3> QED
      BY <3>1, <3>2, <3>3
  <2>4. s = [i \in 0 .. k + 1 |-> IF i = 0 THEN first
                                  ELSE c_apply_diffs(s[i - 1], bs, diffs[i].uid)]
    BY <2>2, <2>3
  <2>5. k + 1 \in Nat
    OBVIOUS
  <2> QED
    BY <2>4, <2>5
<1>3. S = Nat
  <2>1. S \in SUBSET Nat
    OBVIOUS
  <2> HIDE DEF S
  <2> QED
    BY <1>1, <1>2, <2>1, NatByInduction
<1> QED
  BY <1>3 DEF IsReplay

(* The update ids of a sequence of messages.                               *)
Uids(s) == {s[i].uid : i \in DOMAIN s}

(* A snapshot with the past diffs replayed over it is a book that is as    *)
(* the market is wherever one of those diffs was the last change.          *)
LEMMA Restored ==
  ASSUME NEW bs, Market(bs),
         NEW snapshot, snapshot.type = "snapshot", snapshot.uid \in 1 .. Len(bs),
         NEW M, NEW diffs \in Seq(M),
         \A i \in 1 .. Len(diffs) : diffs[i].uid \in 2 .. Len(bs),
         \A i, j \in 1 .. Len(diffs) : i < j => diffs[i].uid < diffs[j].uid
  PROVE  LET c == restore_from_snapshot_and_diffs(bs, snapshot, diffs)
         IN  BookOK(c, bs) /\ Current(c, bs, Uids(diffs)) /\ Seen(c, bs)
<1>0. PICK first : first = c_apply_snapshot(bs, snapshot.uid)
  OBVIOUS
<1>1. PICK n \in Nat : n = Len(diffs)
  OBVIOUS
<1>2. PICK r :
        /\ r = [i \in 0 .. n |-> IF i = 0 THEN first
                                 ELSE c_apply_diffs(r[i - 1], bs, diffs[i].uid)]
        /\ restore_from_snapshot_and_diffs(bs, snapshot, diffs) = r[n]
  <2>1. ReplayedDiffs(diffs, snapshot) = diffs
    BY AllReplayed
  <2>2. \E q : IsReplay(q, bs, first, diffs, n)
    BY ReplayExists
  <2> QED
    BY <1>0, <1>1, <2>1, <2>2, Zenon DEF restore_from_snapshot_and_diffs, IsReplay
<1> DEFINE U(k) == {diffs[i].uid : i \in 1 .. k}
           Good(k) == BookOK(r[k], bs) /\ Current(r[k], bs, U(k)) /\ Seen(r[k], bs)
           S == {k \in Nat : k <= n => Good(k)}
<1>3. 0 \in S
  <2>1. r[0] = first
    BY <1>2
  <2>2. Current(first, bs, U(0))
    BY DEF Current
  <2> QED
    BY <1>0, <2>1, <2>2, SnapshotApplied
<1>4. ASSUME NEW k \in S
      PROVE  k + 1 \in S
  <2>0. k \in Nat /\ k + 1 \in Nat /\ (k <= n => Good(k))
    OBVIOUS
  <2>1. ASSUME k + 1 <= n
        PROVE  Good(k + 1)
    <3>1. k \in Nat /\ k + 1 \in 1 .. n /\ k + 1 \in 0 .. n /\ k + 1 # 0 /\ (k + 1) - 1 = k
      BY <1>1, <2>0, <2>1
    <3>2. PICK b, V : /\ b = r[k] /\ V = U(k)
                      /\ BookOK(b, bs) /\ Current(b, bs, V) /\ Seen(b, bs)
      BY <2>0, <3>1
    <3>3. PICK u : u = diffs[k + 1].uid /\ u \in 2 .. Len(bs)
      BY <1>1, <3>1
    <3>4. r[k + 1] = c_apply_diffs(b, bs, u)
      BY <1>2, <3>1, <3>2, <3>3
    <3>5. V \in SUBSET Nat /\ \A w \in V : w < u
      <4> SUFFICES ASSUME NEW i \in 1 .. k
                   PROVE  diffs[i].uid \in Nat /\ diffs[i].uid < u
        BY <3>2
      <4>1. i \in 1 .. n /\ i < k + 1
        BY <1>1, <3>1
      <4> QED
        BY <1>1, <3>1, <3>3, <4>1
    <3>6. U(k + 1) = V \cup {u}
      BY <3>1, <3>2, <3>3
    <3>7. /\ BookOK(c_apply_diffs(b, bs, u), bs)
          /\ Current(c_apply_diffs(b, bs, u), bs, V \cup {u})
          /\ Seen(c_apply_diffs(b, bs, u), bs)
      BY <3>2, <3>3, <3>5, DiffApplied
    <3> HIDE DEF U
    <3> QED
      BY <3>4, <3>6, <3>7
  <2> HIDE DEF Good
  <2> QED
    BY <2>0, <2>1
<1>5. Good(n)
  <2>1. S \in SUBSET Nat
    OBVIOUS
  <2>2. S = Nat
    <3> HIDE DEF S
    <3> QED
      BY <1>3, <1>4, <2>1, NatByInduction
  <2> HIDE DEF Good
  <2> QED
    BY <2>2
<1>6. U(n) = Uids(diffs)
  BY <1>1 DEF Uids
<1>7. BookOK(r[n], bs) /\ Current(r[n], bs, U(n)) /\ Seen(r[n], bs)
  BY <1>5
<1> HIDE DEF U
<1> QED
  BY <1>2, <1>6, <1>7

-----------------------------------------------------------------------------
(* The inductive invariant.                                                *)

Diffs(n) == [type : {"diff"}, uid : 2 .. n]
Snapshots(n) == [type : {"snapshot"}, uid : 1 .. n]

(* The update ids of the diffs in a sequence of messages.                  *)
DiffUids(s) == {s[i].uid : i \in {j \in DOMAIN s : s[j].type = "diff"}}

(* The diffs of a sequence of messages are in order; those of one sequence *)
(* come before those of another.                                           *)
Sorted(s) ==
  \A i, j \in DOMAIN s : i < j /\ s[i].type = "diff" /\ s[j].type = "diff"
                           => s[i].uid < s[j].uid
Before(s, t) == \A u \in DiffUids(s), v \in DiffUids(t) : u < v

(* What is kept where.                                                     *)
MessagesTypeOK ==
  /\ diffStream \in Seq(Diffs(Version))
  /\ saved \in Seq(Diffs(Version)) /\ Len(saved) <= SavedSize
  /\ window \in Seq(Diffs(Version)) /\ Len(window) <= WindowSize
  /\ snapshotStream \in Seq(Snapshots(Version))
  /\ queue \in Seq(Diffs(Version) \cup Snapshots(Version))
  /\ ~ registered => queue = << >> /\ window = << >>

(* The tasks; a book is tracked only when there is one.  The first         *)
(* snapshot is taken when nothing is tracked, so after all past diffs.     *)
TasksTypeOK ==
  /\ connected \in BOOLEAN /\ registered \in BOOLEAN
  /\ init \in [at : {"off", "asked", "answered", "sleeping", "done", "failed"},
               uid : 0 .. Version]
  /\ reset \in [at : {"off", "asked", "answered", "sleeping"}, uid : 0 .. Version]
  /\ reset.at = "answered" => reset.uid >= 1
  /\ init.at = "answered" =>
       init.uid >= 1 /\ \A u \in DiffUids(window) : u <= init.uid
  /\ Tracking => registered
  /\ events \in 0 .. MaxEvents

(* On their way into the window the diffs never pass each other.           *)
Ordered ==
  /\ Sorted(window) /\ Sorted(saved) /\ Sorted(queue) /\ Sorted(diffStream)
  /\ Before(window, saved) /\ Before(window, queue) /\ Before(window, diffStream)
  /\ Before(saved, queue) /\ Before(saved, diffStream)
  /\ Before(queue, diffStream)

BookGood ==
  /\ BookOK(book, books)
  /\ Current(book, books, DiffUids(window))
  /\ registered => Seen(book, books)
  /\ ~ registered => book = NoBook

TrackerInv ==
  /\ Market(books)
  /\ MessagesTypeOK
  /\ TasksTypeOK
  /\ Ordered
  /\ BookGood

(* What Append, Tail and Pushed do to the diffs of a sequence.             *)
LEMMA AppendDiffs ==
  ASSUME NEW M, NEW s \in Seq(M), NEW m \in M
  PROVE  /\ Append(s, m) \in Seq(M)
         /\ DiffUids(Append(s, m)) =
              DiffUids(s) \cup (IF m.type = "diff" THEN {m.uid} ELSE {})
         /\ (Sorted(s) /\ (m.type = "diff" => \A u \in DiffUids(s) : u < m.uid))
              => Sorted(Append(s, m))
<1>1. PICK n \in Nat : n = Len(s) /\ DOMAIN s = 1 .. n
  OBVIOUS
<1>2. PICK t : t = Append(s, m)
  OBVIOUS
<1>3. /\ t \in Seq(M) /\ DOMAIN t = 1 .. n + 1
      /\ \A i \in 1 .. n : t[i] = s[i]
      /\ t[n + 1] = m
  BY <1>1, <1>2
<1>4. DOMAIN t = DOMAIN s \cup {n + 1} /\ n + 1 \notin DOMAIN s
  BY <1>1, <1>3
<1>5. DiffUids(t) = DiffUids(s) \cup (IF m.type = "diff" THEN {m.uid} ELSE {})
  BY <1>1, <1>3, <1>4 DEF DiffUids
<1>6. ASSUME Sorted(s), m.type = "diff" => \A u \in DiffUids(s) : u < m.uid
      PROVE  Sorted(t)
  <2> SUFFICES ASSUME NEW i \in DOMAIN t, NEW j \in DOMAIN t, i < j,
                      t[i].type = "diff", t[j].type = "diff"
               PROVE  t[i].uid < t[j].uid
    BY DEF Sorted
  <2>1. CASE j \in DOMAIN s
    BY <1>1, <1>3, <1>6, <2>1 DEF Sorted
  <2>2. CASE j = n + 1
    <3>1. i \in DOMAIN s /\ t[i] = s[i] /\ t[j] = m
      BY <1>1, <1>3, <2>2
    <3> QED
      BY <1>6, <3>1 DEF DiffUids
  <2> QED
    BY <1>4, <2>1, <2>2
<1> QED
  BY <1>2, <1>3, <1>5, <1>6

LEMMA TailDiffs ==
  ASSUME NEW M, NEW s \in Seq(M), s # << >>
  PROVE  /\ Tail(s) \in Seq(M) /\ Head(s) \in M
         /\ DiffUids(Tail(s)) \subseteq DiffUids(s)
         /\ Head(s).type = "diff" => Head(s).uid \in DiffUids(s)
         /\ Sorted(s) => /\ Sorted(Tail(s))
                         /\ Head(s).type = "diff" =>
                              \A u \in DiffUids(Tail(s)) : Head(s).uid < u
<1>0. Len(s) \in Nat /\ Len(s) # 0 /\ DOMAIN s = 1 .. Len(s)
  OBVIOUS
<1>1. PICK n \in Nat : Len(s) = n + 1 /\ DOMAIN s = 1 .. (n + 1)
  <2>1. Len(s) - 1 \in Nat /\ Len(s) = (Len(s) - 1) + 1
    BY <1>0
  <2> QED
    BY <1>0, <2>1
<1>2. PICK t, h : t = Tail(s) /\ h = Head(s)
  OBVIOUS
<1>3. /\ t \in Seq(M) /\ DOMAIN t = 1 .. n
      /\ \A i \in 1 .. n : t[i] = s[i + 1] /\ i + 1 \in DOMAIN s
      /\ h = s[1] /\ h \in M /\ 1 \in DOMAIN s
  BY <1>1, <1>2
<1>4. DiffUids(t) \subseteq DiffUids(s)
  BY <1>3 DEF DiffUids
<1>5. h.type = "diff" => h.uid \in DiffUids(s)
  BY <1>3 DEF DiffUids
<1>6. ASSUME Sorted(s)
      PROVE  /\ Sorted(t)
             /\ h.type = "diff" => \A u \in DiffUids(t) : h.uid < u
  <2>1. Sorted(t)
    <3> SUFFICES ASSUME NEW i \in 1 .. n, NEW j \in 1 .. n, i < j,
                        t[i].type = "diff", t[j].type = "diff"
                 PROVE  t[i].uid < t[j].uid
      BY <1>3 DEF Sorted
    <3>1. i + 1 < j + 1 /\ t[i] = s[i + 1] /\ t[j] = s[j + 1]
      BY <1>3
    <3> QED
      BY <1>3, <1>6, <3>1 DEF Sorted
  <2>2. ASSUME h.type = "diff", NEW u \in DiffUids(t)
        PROVE  h.uid < u
    <3>1. PICK i \in 1 .. n : t[i].type = "diff" /\ t[i].uid = u
      BY <1>3 DEF DiffUids
    <3>2. 1 < i + 1 /\ t[i] = s[i + 1]
      BY <1>3
    <3> QED
      BY <1>3, <1>6, <2>2, <3>1, <3>2 DEF Sorted
  <2> QED
    BY <2>1, <2>2
<1> QED
  BY <1>2, <1>3, <1>4, <1>5, <1>6

LEMMA PushedDiffs ==
  ASSUME NEW M, NEW s \in Seq(M), NEW m \in M, m.type = "diff",
         NEW size \in Nat \ {0}, Len(s) <= size,
         Sorted(s), \A u \in DiffUids(s) : u < m.uid
  PROVE  /\ Pushed(s, m, size) \in Seq(M)
         /\ Len(Pushed(s, m, size)) <= size
         /\ Sorted(Pushed(s, m, size))
         /\ DiffUids(Pushed(s, m, size)) \subseteq DiffUids(s) \cup {m.uid}
<1>1. PICK all : all = Append(s, m)
  OBVIOUS
<1>2. /\ all \in Seq(M) /\ Sorted(all)
      /\ DiffUids(all) = DiffUids(s) \cup {m.uid}
  BY <1>1, AppendDiffs
<1>3. Len(all) = Len(s) + 1 /\ Len(s) \in Nat /\ all # << >>
  BY <1>1
<1>4. Pushed(s, m, size) = IF Len(all) > size THEN Tail(all) ELSE all
  BY <1>1 DEF Pushed
<1>5. CASE Len(all) > size
  <2>1. /\ Tail(all) \in Seq(M) /\ Sorted(Tail(all))
        /\ DiffUids(Tail(all)) \subseteq DiffUids(all)
    BY <1>2, <1>3, TailDiffs
  <2>2. Len(Tail(all)) = Len(all) - 1
    BY <1>2, <1>3
  <2> QED
    BY <1>2, <1>3, <1>4, <1>5, <2>1, <2>2
<1>6. CASE ~ (Len(all) > size)
  BY <1>2, <1>3, <1>4, <1>6
<1> QED
  BY <1>5, <1>6

(* A sequence of diffs holds diffs only.                                   *)
LEMMA OnlyDiffs ==
  ASSUME NEW n, NEW s \in Seq(Diffs(n))
  PROVE  /\ \A i \in DOMAIN s : s[i].type = "diff" /\ s[i].uid \in 2 .. n
         /\ DiffUids(s) \in SUBSET (2 .. n)
<1>1. \A i \in DOMAIN s : s[i] \in Diffs(n)
  OBVIOUS
<1>2. \A i \in DOMAIN s : s[i].type = "diff" /\ s[i].uid \in 2 .. n
  BY <1>1 DEF Diffs
<1> QED
  BY <1>2 DEF DiffUids

(* What was good before the market had another book is good after it.      *)
LEMMA MarketGrows ==
  ASSUME NEW bs, Market(bs), NEW levels \in Listed, NEW b, BookOK(b, bs),
         NEW U \in SUBSET (2 .. Len(bs)), Current(b, bs, U)
  PROVE  LET cs == Append(bs, levels)
         IN  /\ Market(cs) /\ Len(cs) = Len(bs) + 1
             /\ BookOK(b, cs)
             /\ Current(b, cs, U)
             /\ Seen(b, bs) => Seen(b, cs)
<1>1. PICK n \in Nat : n = Len(bs) /\ n >= 1
  BY DEF Market
<1>2. PICK cs : cs = Append(bs, levels)
  OBVIOUS
<1>3. /\ cs \in Seq(Listed) /\ Len(cs) = n + 1
      /\ \A i \in 1 .. n : cs[i] = bs[i]
  BY <1>1, <1>2 DEF Market
<1>4. Market(cs)
  BY <1>1, <1>3 DEF Market
<1>5. b \in BookType(n) /\ b.entries \in Entries(n)
  BY <1>1 DEF BookOK, BookType
<1>6. b.entries \in Entries(n + 1)
  <2>1. PICK levs \in SUBSET Level : b.entries \in [levs -> 1 .. n]
    BY <1>5 DEF Entries
  <2>2. b.entries \in [levs -> 1 .. n + 1]
    BY <2>1
  <2> QED
    BY <2>2 DEF Entries
<1>7. b \in BookType(n + 1)
  BY <1>1, <1>5, <1>6 DEF BookType
<1>8. \A l \in DOMAIN b.entries : b.entries[l] \in 1 .. n
  BY <1>5 DEF Entries
<1>9. BookOK(b, cs)
  BY <1>3, <1>7, <1>8 DEF BookOK
<1>10. Current(b, cs, U)
  <2> SUFFICES ASSUME NEW u \in U, NEW l \in Level, LastChanged(cs, l, u)
               PROVE  /\ (l \in DOMAIN b.entries) <=> (l \in cs[n + 1])
                      /\ l \in DOMAIN b.entries => b.entries[l] >= u
    BY <1>3 DEF Current
  <2>1. u \in 2 .. n /\ u - 1 \in 1 .. n /\ u \in 1 .. n
    BY <1>1
  <2>2. \A v \in u .. n : v \in 1 .. n /\ v \in u .. n + 1
    BY <2>1
  <2>3. LastChanged(bs, l, u)
    BY <1>1, <1>3, <2>1, <2>2 DEF LastChanged
  <2>4. (l \in cs[n + 1]) <=> (l \in bs[n])
    BY <1>3, <2>1, <2>2 DEF LastChanged
  <2> QED
    BY <1>1, <2>3, <2>4 DEF Current
<1>11. Seen(b, bs) => Seen(b, cs)
  BY <1>1, <1>3 DEF Seen
<1> QED
  BY <1>1, <1>2, <1>3, <1>4, <1>9, <1>10, <1>11

(* A snapshot is current for the updates that are not newer than it.       *)
LEMMA SnapshotCurrent ==
  ASSUME NEW bs, Market(bs), NEW u \in 1 .. Len(bs),
         NEW U \in SUBSET Nat, \A w \in U : w <= u
  PROVE  Current(c_apply_snapshot(bs, u), bs, U)
<1>0. PICK b : b = c_apply_snapshot(bs, u)
  OBVIOUS
<1>1. b = c_apply_snapshot(bs, u) /\ b.entries = [l \in bs[u] |-> u]
  BY <1>0 DEF c_apply_snapshot
<1>2. SUFFICES ASSUME NEW w \in U, NEW l \in Level, LastChanged(bs, l, w)
               PROVE  /\ (l \in bs[u]) <=> (l \in bs[Len(bs)])
                      /\ l \in bs[u] => u >= w
  BY <1>1 DEF Current
<1>3. Len(bs) \in w .. Len(bs) /\ u \in w .. Len(bs)
  BY <1>2 DEF LastChanged, Market
<1> QED
  BY <1>2, <1>3 DEF LastChanged

(* A message that is applied keeps the book good, and what is in the       *)
(* window in order.                                                        *)
LEMMA ApplyMessageKeeps ==
  ASSUME TrackerInv, registered, UNCHANGED <<books, registered>>,
         NEW message \in Diffs(Version) \cup Snapshots(Version), ApplyMessage(message),
         message.type = "diff" => \A u \in DiffUids(window) : u < message.uid
  PROVE  /\ BookGood'
         /\ window' \in Seq(Diffs(Version)) /\ Len(window') <= WindowSize
         /\ Sorted(window')
         /\ DiffUids(window') \subseteq
              DiffUids(window) \cup (IF message.type = "diff" THEN {message.uid} ELSE {})
<1>0. /\ Market(books) /\ BookOK(book, books) /\ Seen(book, books)
      /\ Current(book, books, DiffUids(window))
      /\ window \in Seq(Diffs(Version)) /\ Len(window) <= WindowSize /\ Sorted(window)
      /\ books' = books /\ registered'
  BY DEF TrackerInv, BookGood, MessagesTypeOK, Ordered
<1>1. DiffUids(window) \in SUBSET Nat
  BY <1>0, OnlyDiffs
<1>2. CASE message.type = "diff"
  <2>1. message \in Diffs(Version) /\ message.uid \in 2 .. Version
    BY <1>2 DEF Diffs, Snapshots
  <2>2. /\ book' = c_apply_diffs(book, books, message.uid)
        /\ window' = Pushed(window, message, WindowSize)
    BY <1>2 DEF ApplyMessage
  <2>3. /\ BookOK(book', books)
        /\ Current(book', books, DiffUids(window) \cup {message.uid})
        /\ Seen(book', books)
    BY <1>0, <1>1, <1>2, <2>1, <2>2, DiffApplied DEF Version
  <2>4. /\ window' \in Seq(Diffs(Version)) /\ Len(window') <= WindowSize
        /\ Sorted(window')
        /\ DiffUids(window') \subseteq DiffUids(window) \cup {message.uid}
    BY <1>0, <1>2, <2>1, <2>2, PushedDiffs, TrackerAssumption
  <2>5. Current(book', books, DiffUids(window'))
    BY <2>3, <2>4 DEF Current
  <2>6. BookGood'
    BY <1>0, <2>3, <2>5 DEF BookGood
  <2> QED
    BY <1>2, <2>4, <2>6
<1>3. CASE message.type = "snapshot"
  <2>1. message.uid \in 1 .. Version
    BY <1>3 DEF Diffs, Snapshots
  <2>2. /\ book' = restore_from_snapshot_and_diffs(books, message, window)
        /\ window' = window
    BY <1>3 DEF ApplyMessage
  <2>3. \A i \in DOMAIN window : window[i].uid \in 2 .. Version /\ window[i].type = "diff"
    BY <1>0, OnlyDiffs
  <2>4. \A i, j \in 1 .. Len(window) : i < j => window[i].uid < window[j].uid
    BY <1>0, <2>3 DEF Sorted
  <2>5. /\ BookOK(book', books) /\ Current(book', books, Uids(window))
        /\ Seen(book', books)
    <3>1. \A i \in 1 .. Len(window) : window[i].uid \in 2 .. Len(books)
      BY <1>0, <2>3 DEF Version
    <3> QED
      BY <1>0, <1>3, <2>1, <2>2, <2>4, <3>1, Restored DEF Version
  <2>6. Uids(window) = DiffUids(window)
    BY <2>3 DEF Uids, DiffUids
  <2>7. BookGood'
    BY <1>0, <2>2, <2>5, <2>6 DEF BookGood
  <2> QED
    BY <1>0, <1>3, <2>2, <2>7
<1> QED
  BY <1>2, <1>3 DEF Diffs, Snapshots

-----------------------------------------------------------------------------
(* The invariant holds at the start.                                       *)
LEMMA TrackerInit == Init => TrackerInv
<1> SUFFICES ASSUME Init
             PROVE  TrackerInv
  OBVIOUS
<1> USE DEF Init
<1>1. Market(books) /\ Len(books) = 1 /\ Version = 1
  BY TrackerAssumption DEF Market, Version
<1>2. DiffUids(<< >>) = {} /\ Sorted(<< >>)
  BY DEF DiffUids, Sorted
<1>3. MessagesTypeOK
  BY TrackerAssumption DEF MessagesTypeOK
<1>4. TasksTypeOK
  <2>1. connected \in BOOLEAN /\ registered \in BOOLEAN
    OBVIOUS
  <2>2. /\ init \in [at : {"off", "asked", "answered", "sleeping", "done", "failed"},
                    uid : 0 .. Version]
        /\ reset \in [at : {"off", "asked", "answered", "sleeping"}, uid : 0 .. Version]
    BY <1>1
  <2>3. init.at = "off" /\ reset.at = "off" /\ events \in 0 .. MaxEvents
    BY TrackerAssumption
  <2> QED
    BY <2>1, <2>2, <2>3 DEF TasksTypeOK, Tracking
<1>5. Ordered
  BY <1>2 DEF Ordered, Before
<1>6. /\ book.entries = << >> /\ DOMAIN book.entries = {}
      /\ book.snapshotUid = 0 /\ book.bestBid = NoPrice /\ book.bestAsk = NoPrice
  BY DEF NoBook
<1>7. book.entries \in Entries(1)
  <2>1. book.entries \in [{} -> 1 .. 1]
    BY <1>6
  <2> QED
    BY <2>1 DEF Entries
<1>8. book \in BookType(1)
  BY <1>6, <1>7 DEF NoBook, BookType
<1>9. BookOK(book, books)
  BY <1>1, <1>6, <1>8 DEF BookOK, Quotes, Crossed, Side
<1>10. BookGood
  BY <1>2, <1>9 DEF BookGood, Current
<1> QED
  BY <1>1, <1>3, <1>4, <1>5, <1>10 DEF TrackerInv

(* What leaves the market, the messages and the book alone keeps all that  *)
(* is said of them.                                                        *)
LEMMA Still ==
  ASSUME TrackerInv, UNCHANGED <<books, streams, messages, book>>
  PROVE  Market(books)' /\ MessagesTypeOK' /\ Ordered' /\ BookGood'
<1>1. /\ UNCHANGED <<books, diffStream, snapshotStream, registered>>
      /\ UNCHANGED <<queue, saved, window, book>>
  BY DEF streams, messages
<1>2. Market(books)'
  BY <1>1 DEF TrackerInv, Market
<1>3. MessagesTypeOK'
  BY <1>1 DEF TrackerInv, MessagesTypeOK, Version
<1>4. Ordered'
  BY <1>1 DEF TrackerInv, Ordered
<1>5. BookGood'
  BY <1>1 DEF TrackerInv, BookGood
<1> QED
  BY <1>2, <1>3, <1>4, <1>5

LEMMA PublishKeeps == TrackerInv /\ Publish => TrackerInv'
<1> SUFFICES ASSUME TrackerInv, Publish
             PROVE  TrackerInv'
  OBVIOUS
<1>1. PICK levels \in Listed : /\ books' = Append(books, levels)
                               /\ diffStream' = IF connected
                                                THEN Append(diffStream, Diff(Version + 1))
                                                ELSE diffStream
  BY DEF Publish
<1>2. /\ UNCHANGED <<connected, snapshotStream, init, reset, registered>>
      /\ UNCHANGED <<queue, saved, window, book, events>>
  BY DEF Publish, tasks, messages
<1>3. PICK n \in Nat : n = Version /\ n >= 1
  BY DEF TrackerInv, Market, Version
<1>4. /\ Market(books) /\ BookOK(book, books)
      /\ Current(book, books, DiffUids(window))
      /\ DiffUids(window) \in SUBSET (2 .. n) /\ DiffUids(saved) \in SUBSET (2 .. n)
      /\ DiffUids(diffStream) \in SUBSET (2 .. n)
  BY <1>3, OnlyDiffs DEF TrackerInv, BookGood, MessagesTypeOK
<1>5. /\ Market(books)' /\ Version' = n + 1
      /\ BookOK(book', books') /\ Current(book', books', DiffUids(window'))
      /\ Seen(book, books) => Seen(book', books')
  BY <1>1, <1>2, <1>3, <1>4, MarketGrows DEF Version
<1>6. BookGood'
  BY <1>2, <1>5 DEF TrackerInv, BookGood
<1>7. Diffs(n) \subseteq Diffs(n + 1) /\ Snapshots(n) \subseteq Snapshots(n + 1)
  BY DEF Diffs, Snapshots
<1>8. /\ diffStream \in Seq(Diffs(n + 1)) /\ saved \in Seq(Diffs(n + 1))
      /\ window \in Seq(Diffs(n + 1)) /\ snapshotStream \in Seq(Snapshots(n + 1))
      /\ queue \in Seq(Diffs(n + 1) \cup Snapshots(n + 1))
  BY <1>3, <1>7 DEF TrackerInv, MessagesTypeOK
<1>9. /\ Diff(n + 1) \in Diffs(n + 1) /\ Diff(n + 1).type = "diff"
      /\ Diff(n + 1).uid = n + 1
  BY <1>3 DEF Diff, Diffs
<1>10. /\ diffStream' \in Seq(Diffs(n + 1))
       /\ Sorted(diffStream')
       /\ DiffUids(diffStream') \subseteq DiffUids(diffStream) \cup {n + 1}
  <2>1. \A u \in DiffUids(diffStream) : u < n + 1
    BY <1>4
  <2>2. Sorted(diffStream)
    BY DEF TrackerInv, Ordered
  <2>3. /\ Append(diffStream, Diff(n + 1)) \in Seq(Diffs(n + 1))
        /\ Sorted(Append(diffStream, Diff(n + 1)))
        /\ DiffUids(Append(diffStream, Diff(n + 1))) = DiffUids(diffStream) \cup {n + 1}
    BY <1>8, <1>9, <2>1, <2>2, AppendDiffs
  <2> QED
    BY <1>1, <1>3, <1>8, <2>2, <2>3
<1>11. MessagesTypeOK'
  BY <1>2, <1>5, <1>8, <1>10 DEF TrackerInv, MessagesTypeOK
<1>12. DiffUids(queue) \in SUBSET (2 .. n)
  <2>1. \A i \in DOMAIN queue : queue[i] \in Diffs(n) \cup Snapshots(n)
    BY <1>3 DEF TrackerInv, MessagesTypeOK
  <2> QED
    BY <2>1 DEF DiffUids, Diffs, Snapshots
<1>13. Ordered'
  <2>1. \A u \in DiffUids(window) \cup DiffUids(saved) \cup DiffUids(queue) : u < n + 1
    BY <1>4, <1>12
  <2> QED
    BY <1>2, <1>10, <2>1 DEF TrackerInv, Ordered, Before
<1>14. TasksTypeOK'
  BY <1>2, <1>3, <1>5 DEF TrackerInv, TasksTypeOK, Tracking
<1> QED
  BY <1>5, <1>6, <1>11, <1>13, <1>14 DEF TrackerInv

(* Connections, requests, answers, failures, hours, stops and starts.      *)
LEMMA TasksKeep ==
  TrackerInv /\ (\/ Connect \/ Drop \/ TakeSnapshot \/ stop \/ start \/ SetInitialized
                 \/ InitFails \/ ResetFails \/ ResetAgain) => TrackerInv'
<1> SUFFICES ASSUME TrackerInv,
                    \/ Connect \/ Drop \/ TakeSnapshot \/ stop \/ start \/ SetInitialized
                    \/ InitFails \/ ResetFails \/ ResetAgain
             PROVE  TrackerInv'
  OBVIOUS
<1>1. UNCHANGED <<books, streams, messages, book>>
  BY DEF Connect, Drop, TakeSnapshot, stop, start, SetInitialized, InitFails, ResetFails,
         ResetAgain
<1>2. Market(books)' /\ MessagesTypeOK' /\ Ordered' /\ BookGood'
  BY <1>1, Still
<1>3. /\ TasksTypeOK /\ Version' = Version /\ Version \in Nat /\ Version >= 1
      /\ UNCHANGED <<registered, window>>
  BY <1>1 DEF TrackerInv, Market, Version, messages
<1>4. \A u \in DiffUids(window) : u <= Version
  BY <1>3, OnlyDiffs DEF TrackerInv, MessagesTypeOK
<1>5. TasksTypeOK'
  <2> USE <1>3, TrackerAssumption DEF TasksTypeOK, Tracking, Happens, tasks
  <2>1. CASE Connect
    BY <2>1 DEF Connect, Running
  <2>2. CASE Drop
    <3>1. UNCHANGED <<init, reset>> /\ events' \in 0 .. MaxEvents
      BY <2>2 DEF Drop
    <3>2. connected' = FALSE
      BY <2>2 DEF Drop
    <3>3. connected' \in BOOLEAN
      BY <3>2
    <3> QED
      BY <3>1, <3>3
  <2>3. CASE TakeSnapshot
    BY <1>4, <2>3 DEF TakeSnapshot
  <2>4. CASE stop
    <3>1. /\ init' = [at |-> "off", uid |-> 0] /\ reset' = [at |-> "off", uid |-> 0]
          /\ events' \in 0 .. MaxEvents
      BY <2>4 DEF stop
    <3>2. connected' = FALSE
      BY <2>4 DEF stop
    <3>3. connected' \in BOOLEAN
      BY <3>2
    <3> QED
      BY <3>1, <3>3
  <2>5. CASE start
    BY <2>5 DEF start
  <2>6. CASE SetInitialized
    BY <2>6 DEF SetInitialized
  <2>7. CASE InitFails
    BY <2>7 DEF InitFails
  <2>8. CASE ResetFails
    BY <2>8 DEF ResetFails
  <2>9. CASE ResetAgain
    BY <2>9 DEF ResetAgain
  <2> QED
    BY <2>1, <2>2, <2>3, <2>4, <2>5, <2>6, <2>7, <2>8, <2>9
<1> QED
  BY <1>2, <1>5 DEF TrackerInv

(* The first snapshot is not older than any past diff, so what those       *)
(* changed last is right in it.  The new queue is empty.                   *)
LEMMA InstallBookKeeps == TrackerInv /\ InstallBook => TrackerInv'
<1> SUFFICES ASSUME TrackerInv, InstallBook
             PROVE  TrackerInv'
  OBVIOUS
<1>1. /\ init.at = "answered" /\ book' = c_apply_snapshot(books, init.uid)
      /\ registered' = TRUE /\ queue' = << >> /\ init' = [init EXCEPT !.at = "sleeping"]
      /\ UNCHANGED <<books, connected, diffStream, snapshotStream>>
      /\ UNCHANGED <<reset, saved, window, events>>
  BY DEF InstallBook, streams
<1>2. /\ Market(books) /\ MessagesTypeOK /\ TasksTypeOK /\ Ordered
      /\ Version' = Version
  BY <1>1 DEF TrackerInv, Version
<1>3. init.uid \in 1 .. Len(books) /\ \A u \in DiffUids(window) : u <= init.uid
  BY <1>1, <1>2 DEF TasksTypeOK, Version
<1>4. DiffUids(window) \in SUBSET Nat
  BY <1>2, OnlyDiffs DEF MessagesTypeOK
<1>5. Market(books)'
  BY <1>1, <1>2
<1>6. MessagesTypeOK'
  BY <1>1, <1>2 DEF MessagesTypeOK
<1>7. TasksTypeOK'
  <2>1. registered' \in BOOLEAN /\ registered'
    BY <1>1
  <2>2. /\ init'.at = "sleeping"
        /\ init' \in [at : {"off", "asked", "answered", "sleeping", "done", "failed"},
                      uid : 0 .. Version]
    BY <1>1, <1>2 DEF TasksTypeOK
  <2> QED
    BY <1>1, <1>2, <2>1, <2>2 DEF TasksTypeOK
<1>8. Ordered'
  <2>1. Sorted(queue') /\ DiffUids(queue') = {}
    BY <1>1 DEF Sorted, DiffUids
  <2> QED
    BY <1>1, <1>2, <2>1 DEF Ordered, Before
<1>9. BookGood'
  <2>1. /\ BookOK(book', books) /\ Seen(book', books)
        /\ Current(book', books, DiffUids(window))
    BY <1>1, <1>2, <1>3, <1>4, SnapshotApplied, SnapshotCurrent
  <2> QED
    BY <1>1, <2>1 DEF BookGood
<1> QED
  BY <1>5, <1>6, <1>7, <1>8, <1>9 DEF TrackerInv

LEMMA ResetAnsweredKeeps == TrackerInv /\ ResetAnswered => TrackerInv'
<1> SUFFICES ASSUME TrackerInv, ResetAnswered
             PROVE  TrackerInv'
  OBVIOUS
<1>1. /\ reset.at = "answered"
      /\ snapshotStream' = Append(snapshotStream, Snapshot(reset.uid))
      /\ reset' = [at |-> "sleeping", uid |-> 0]
      /\ UNCHANGED <<books, connected, diffStream, init, registered>>
      /\ UNCHANGED <<queue, saved, window, book, events>>
  BY DEF ResetAnswered, messages
<1>2. Version' = Version
  BY <1>1 DEF Version
<1>3. MessagesTypeOK'
  <2>1. Snapshot(reset.uid) \in Snapshots(Version)
    BY <1>1 DEF TrackerInv, TasksTypeOK, Snapshot, Snapshots
  <2> QED
    BY <1>1, <1>2, <2>1 DEF TrackerInv, MessagesTypeOK
<1>4. TasksTypeOK'
  BY <1>1, <1>2 DEF TrackerInv, Market, Version, TasksTypeOK, Tracking
<1>5. Ordered' /\ BookGood' /\ Market(books)'
  BY <1>1 DEF TrackerInv, Ordered, BookGood
<1> QED
  BY <1>3, <1>4, <1>5 DEF TrackerInv

LEMMA RouteDiffKeeps == TrackerInv /\ RouteDiff => TrackerInv'
<1> SUFFICES ASSUME TrackerInv, RouteDiff
             PROVE  TrackerInv'
  OBVIOUS
<1>1. PICK diff : diff = Head(diffStream)
  OBVIOUS
<1>2. /\ diffStream # << >> /\ diffStream' = Tail(diffStream)
      /\ UNCHANGED <<books, connected, snapshotStream, init, reset, registered>>
      /\ UNCHANGED <<window, book, events>>
  BY DEF RouteDiff, tasks
<1>3. \/ /\ ~ registered /\ saved' = Pushed(saved, diff, SavedSize)
         /\ queue' = queue
      \/ /\ registered /\ saved' = saved
         /\ queue' = queue \/ queue' = Append(queue, diff)
  BY <1>1 DEF RouteDiff
<1>4. /\ Market(books) /\ MessagesTypeOK /\ TasksTypeOK /\ Ordered /\ BookGood
      /\ Version' = Version
  BY <1>2 DEF TrackerInv, Version
<1>5. /\ diffStream' \in Seq(Diffs(Version)) /\ diff \in Diffs(Version)
      /\ DiffUids(diffStream') \subseteq DiffUids(diffStream)
      /\ diff.type = "diff" /\ diff.uid \in DiffUids(diffStream)
      /\ Sorted(diffStream') /\ \A u \in DiffUids(diffStream') : diff.uid < u
  <2>1. diffStream \in Seq(Diffs(Version)) /\ Sorted(diffStream)
    BY <1>4 DEF MessagesTypeOK, Ordered
  <2>2. diff \in Diffs(Version)
    BY <1>1, <1>2, <2>1, TailDiffs
  <2>3. diff.type = "diff"
    BY <2>2 DEF Diffs
  <2> QED
    BY <1>1, <1>2, <2>1, <2>2, <2>3, TailDiffs
<1>6. TasksTypeOK' /\ BookGood' /\ Market(books)'
  BY <1>2, <1>4 DEF TasksTypeOK, Tracking, BookGood
<1>7. CASE ~ registered
  <2>1. saved' = Pushed(saved, diff, SavedSize) /\ queue' = queue /\ queue = << >>
    BY <1>3, <1>4, <1>7 DEF MessagesTypeOK
  <2>2. /\ saved' \in Seq(Diffs(Version)) /\ Len(saved') <= SavedSize
        /\ Sorted(saved') /\ DiffUids(saved') \subseteq DiffUids(saved) \cup {diff.uid}
    <3>1. \A u \in DiffUids(saved) : u < diff.uid
      BY <1>4, <1>5 DEF Ordered, Before
    <3>2. saved \in Seq(Diffs(Version)) /\ Len(saved) <= SavedSize /\ Sorted(saved)
      BY <1>4 DEF MessagesTypeOK, Ordered
    <3> QED
      BY <1>5, <2>1, <3>1, <3>2, PushedDiffs, TrackerAssumption
  <2>3. MessagesTypeOK'
    BY <1>2, <1>4, <1>5, <2>1, <2>2 DEF MessagesTypeOK
  <2>4. Ordered'
    <3>1. DiffUids(queue) = {}
      BY <2>1 DEF DiffUids
    <3> QED
      BY <1>2, <1>4, <1>5, <2>1, <2>2, <3>1 DEF Ordered, Before
  <2> QED
    BY <1>6, <2>3, <2>4 DEF TrackerInv
<1>8. CASE registered
  <2>1. saved' = saved /\ (queue' = queue \/ queue' = Append(queue, diff))
    BY <1>3, <1>8
  <2>2. /\ queue' \in Seq(Diffs(Version) \cup Snapshots(Version))
        /\ Sorted(queue') /\ DiffUids(queue') \subseteq DiffUids(queue) \cup {diff.uid}
    <3>1. \A u \in DiffUids(queue) : u < diff.uid
      BY <1>4, <1>5 DEF Ordered, Before
    <3>2. queue \in Seq(Diffs(Version) \cup Snapshots(Version)) /\ Sorted(queue)
      BY <1>4 DEF MessagesTypeOK, Ordered
    <3>3. CASE queue' = queue
      BY <3>2, <3>3
    <3>4. CASE queue' = Append(queue, diff)
      <4>1. diff \in Diffs(Version) \cup Snapshots(Version)
        BY <1>5
      <4> QED
        BY <1>5, <3>1, <3>2, <3>4, <4>1, AppendDiffs
    <3> QED
      BY <2>1, <3>3, <3>4
  <2>3. MessagesTypeOK'
    BY <1>2, <1>4, <1>5, <1>8, <2>1, <2>2 DEF MessagesTypeOK
  <2>4. Ordered'
    BY <1>2, <1>4, <1>5, <2>1, <2>2 DEF Ordered, Before
  <2> QED
    BY <1>6, <2>3, <2>4 DEF TrackerInv
<1> QED
  BY <1>7, <1>8

LEMMA RouteSnapshotKeeps == TrackerInv /\ RouteSnapshot => TrackerInv'
<1> SUFFICES ASSUME TrackerInv, RouteSnapshot
             PROVE  TrackerInv'
  OBVIOUS
<1>1. /\ init.at = "done" /\ snapshotStream # << >>
      /\ snapshotStream' = Tail(snapshotStream)
      /\ queue' = Append(queue, Head(snapshotStream))
      /\ UNCHANGED <<books, connected, diffStream, init, reset, registered>>
      /\ UNCHANGED <<saved, window, book, events>>
  BY DEF RouteSnapshot, ready, tasks
<1>2. /\ MessagesTypeOK /\ TasksTypeOK /\ Ordered /\ BookGood /\ Market(books)
      /\ Version' = Version /\ registered
  BY <1>1 DEF TrackerInv, Version, TasksTypeOK, Tracking
<1>3. PICK m \in Snapshots(Version) : m = Head(snapshotStream) /\ m.type = "snapshot"
  <2>1. Head(snapshotStream) \in Snapshots(Version)
    BY <1>1, <1>2 DEF MessagesTypeOK
  <2> QED
    BY <2>1 DEF Snapshots
<1>4. /\ queue' \in Seq(Diffs(Version) \cup Snapshots(Version))
      /\ Sorted(queue') /\ DiffUids(queue') = DiffUids(queue)
  <2>1. /\ queue \in Seq(Diffs(Version) \cup Snapshots(Version)) /\ Sorted(queue)
        /\ m \in Diffs(Version) \cup Snapshots(Version)
    BY <1>2 DEF MessagesTypeOK, Ordered
  <2>2. m.type # "diff"
    BY <1>3
  <2>3. PICK q, M : q = queue /\ M = Diffs(Version) \cup Snapshots(Version)
    OBVIOUS
  <2>4. /\ Append(q, m) \in Seq(M)
        /\ DiffUids(Append(q, m)) = DiffUids(q) /\ Sorted(Append(q, m))
    <3>1. q \in Seq(M) /\ m \in M /\ Sorted(q)
      BY <2>1, <2>3
    <3>2. /\ Append(q, m) \in Seq(M)
          /\ DiffUids(Append(q, m)) =
               DiffUids(q) \cup (IF m.type = "diff" THEN {m.uid} ELSE {})
          /\ (Sorted(q) /\ (m.type = "diff" => \A u \in DiffUids(q) : u < m.uid))
               => Sorted(Append(q, m))
      BY <3>1, AppendDiffs, Zenon
    <3> QED
      BY <2>2, <3>1, <3>2
  <2> QED
    BY <1>1, <1>3, <2>3, <2>4
<1>5. snapshotStream' \in Seq(Snapshots(Version))
  BY <1>1, <1>2 DEF MessagesTypeOK
<1>6. MessagesTypeOK'
  BY <1>1, <1>2, <1>4, <1>5 DEF MessagesTypeOK
<1>7. Ordered'
  BY <1>1, <1>2, <1>4 DEF Ordered, Before
<1>8. TasksTypeOK' /\ BookGood' /\ Market(books)'
  BY <1>1, <1>2 DEF TasksTypeOK, Tracking, BookGood
<1> QED
  BY <1>6, <1>7, <1>8 DEF TrackerInv

(* The next message is applied: of the saved ones, and then of the queued. *)
LEMMA TrackSavedKeeps == TrackerInv /\ TrackSaved => TrackerInv'
<1> SUFFICES ASSUME TrackerInv, TrackSaved
             PROVE  TrackerInv'
  OBVIOUS
<1>1. PICK m : m = Head(saved)
  OBVIOUS
<1>2. /\ Tracking /\ saved # << >> /\ ApplyMessage(m) /\ saved' = Tail(saved)
      /\ UNCHANGED <<books, connected, diffStream, snapshotStream, init, reset>>
      /\ UNCHANGED <<registered, queue, events>>
  BY <1>1 DEF TrackSaved, streams, tasks
<1>3. /\ MessagesTypeOK /\ TasksTypeOK /\ Ordered /\ BookGood /\ Market(books)
      /\ Version' = Version /\ registered
  BY <1>2 DEF TrackerInv, Version, TasksTypeOK
<1>4. /\ m \in Diffs(Version) /\ m.type = "diff" /\ m.uid \in DiffUids(saved)
      /\ saved' \in Seq(Diffs(Version)) /\ Len(saved') <= SavedSize
      /\ Sorted(saved') /\ DiffUids(saved') \subseteq DiffUids(saved)
      /\ \A u \in DiffUids(saved') : m.uid < u
  <2>1. saved \in Seq(Diffs(Version)) /\ Sorted(saved) /\ Len(saved) <= SavedSize
    BY <1>3 DEF MessagesTypeOK, Ordered
  <2>2. m \in Diffs(Version)
    BY <1>1, <1>2, <2>1, TailDiffs
  <2>3. m.type = "diff"
    BY <2>2 DEF Diffs
  <2>4. Len(saved') <= SavedSize
    BY <1>2, <2>1, TrackerAssumption
  <2> QED
    BY <1>1, <1>2, <2>1, <2>2, <2>3, <2>4, TailDiffs
<1>5. /\ BookGood'
      /\ window' \in Seq(Diffs(Version)) /\ Len(window') <= WindowSize
      /\ Sorted(window') /\ DiffUids(window') \subseteq DiffUids(window) \cup {m.uid}
  <2>1. \A u \in DiffUids(window) : u < m.uid
    BY <1>3, <1>4 DEF Ordered, Before
  <2> QED
    BY <1>2, <1>3, <1>4, <2>1, ApplyMessageKeeps
<1>6. MessagesTypeOK'
  BY <1>2, <1>3, <1>4, <1>5 DEF MessagesTypeOK
<1>7. TasksTypeOK' /\ Market(books)'
  BY <1>2, <1>3 DEF TasksTypeOK, Tracking
<1>8. Ordered'
  BY <1>2, <1>3, <1>4, <1>5 DEF Ordered, Before
<1> QED
  BY <1>5, <1>6, <1>7, <1>8 DEF TrackerInv

LEMMA TrackQueuedKeeps == TrackerInv /\ TrackQueued => TrackerInv'
<1> SUFFICES ASSUME TrackerInv, TrackQueued
             PROVE  TrackerInv'
  OBVIOUS
<1>1. PICK m, M : m = Head(queue) /\ M = Diffs(Version) \cup Snapshots(Version)
  OBVIOUS
<1>2. /\ Tracking /\ saved = << >> /\ queue # << >> /\ ApplyMessage(m)
      /\ queue' = Tail(queue)
      /\ UNCHANGED <<books, connected, diffStream, snapshotStream, init, reset>>
      /\ UNCHANGED <<registered, saved, events>>
  BY <1>1 DEF TrackQueued, streams, tasks
<1>3. /\ MessagesTypeOK /\ TasksTypeOK /\ Ordered /\ BookGood /\ Market(books)
      /\ Version' = Version /\ registered
  BY <1>2 DEF TrackerInv, Version, TasksTypeOK
<1>4. /\ m \in M
      /\ m.type = "diff" => m.uid \in DiffUids(queue)
      /\ queue' \in Seq(M)
      /\ Sorted(queue') /\ DiffUids(queue') \subseteq DiffUids(queue)
      /\ m.type = "diff" => \A u \in DiffUids(queue') : m.uid < u
  <2>1. queue \in Seq(M) /\ Sorted(queue)
    BY <1>1, <1>3 DEF MessagesTypeOK, Ordered
  <2> QED
    BY <1>1, <1>2, <2>1, TailDiffs
<1>5. /\ BookGood'
      /\ window' \in Seq(Diffs(Version)) /\ Len(window') <= WindowSize
      /\ Sorted(window')
      /\ DiffUids(window') \subseteq
           DiffUids(window) \cup (IF m.type = "diff" THEN {m.uid} ELSE {})
  <2>1. m.type = "diff" => \A u \in DiffUids(window) : u < m.uid
    BY <1>3, <1>4 DEF Ordered, Before
  <2> QED
    BY <1>1, <1>2, <1>3, <1>4, <2>1, ApplyMessageKeeps
<1>6. MessagesTypeOK'
  BY <1>1, <1>2, <1>3, <1>4, <1>5 DEF MessagesTypeOK
<1>7. TasksTypeOK' /\ Market(books)'
  BY <1>2, <1>3 DEF TasksTypeOK, Tracking
<1>8. Ordered'
  <2>1. DiffUids(saved) = {}
    BY <1>2 DEF DiffUids
  <2> QED
    BY <1>2, <1>3, <1>4, <1>5, <2>1 DEF Ordered, Before
<1> QED
  BY <1>5, <1>6, <1>7, <1>8 DEF TrackerInv

(* TrackerInv is inductive.                                                *)
LEMMA TrackerStep == TrackerInv /\ [Next]_vars => TrackerInv'
<1>1. TrackerInv /\ UNCHANGED vars => TrackerInv'
  <2> SUFFICES ASSUME TrackerInv, UNCHANGED vars
               PROVE  TrackerInv'
    OBVIOUS
  <2>1. /\ UNCHANGED <<books, streams, messages, book>>
        /\ UNCHANGED <<connected, init, reset, events, registered, window>>
    BY DEF vars, tasks, messages
  <2>2. Market(books)' /\ MessagesTypeOK' /\ Ordered' /\ BookGood'
    BY <2>1, Still
  <2>3. TasksTypeOK'
    BY <2>1 DEF TrackerInv, TasksTypeOK, Tracking, Version
  <2> QED
    BY <2>2, <2>3 DEF TrackerInv
<1>2. Finished => UNCHANGED vars
  BY DEF Finished
<1> QED
  BY <1>1, <1>2, PublishKeeps, TasksKeep, InstallBookKeeps, ResetAnsweredKeeps,
     RouteDiffKeeps, RouteSnapshotKeeps, TrackSavedKeeps, TrackQueuedKeeps
  DEF Next, Step

(* The invariant of the tracker: types, the order of the diffs, and a book *)
(* that is right wherever a past diff was the last change.                 *)
THEOREM TrackerInvariant == Spec => []TrackerInv
BY TrackerInit, TrackerStep, PTL DEF Spec

(* The types of the variables, and the lengths of the two deques.          *)
THEOREM TrackerTypeCorrect == Spec => []TypeOK
<1>1. TrackerInv => TypeOK
  <2> SUFFICES ASSUME TrackerInv
               PROVE  TypeOK
    OBVIOUS
  <2>0. Market(books) /\ MessagesTypeOK /\ TasksTypeOK /\ BookOK(book, books)
    BY DEF TrackerInv, BookGood
  <2>1. \A s \in {diffStream, snapshotStream, queue, saved, window} : s \in Seq(Message)
    <3>1. Diffs(Version) \subseteq Message /\ Snapshots(Version) \subseteq Message
      BY DEF Diffs, Snapshots, Message
    <3> QED
      BY <2>0, <3>1 DEF MessagesTypeOK
  <2>2. /\ book \in BookType(Version) /\ book.entries \in Entries(Version)
        /\ book.snapshotUid \in 0 .. Version
        /\ {book.bestBid, book.bestAsk} \subseteq Prices \cup {NoPrice}
    BY <2>0 DEF BookOK, BookType, Version
  <2>3. Levels \subseteq Level /\ \A l \in Levels : book.entries[l] \in 1 .. Version
    BY <2>2 DEF Entries, Levels
  <2>4. /\ init.at \in {"off", "asked", "answered", "sleeping", "done", "failed"}
        /\ reset.at \in {"off", "asked", "answered", "sleeping"}
        /\ init.uid \in 0 .. Version /\ reset.uid \in 0 .. Version
    BY <2>0 DEF TasksTypeOK
  <2>5. {init.uid, reset.uid, book.snapshotUid} \subseteq 0 .. Version
    BY <2>2, <2>4
  <2>6. connected \in BOOLEAN /\ registered \in BOOLEAN /\ events \in 0 .. MaxEvents
    BY <2>0 DEF TasksTypeOK
  <2>7. Len(window) <= WindowSize /\ Len(saved) <= SavedSize /\ books \in Seq(Listed)
    BY <2>0 DEF MessagesTypeOK, Market
  <2> QED
    BY <2>1, <2>2, <2>3, <2>4, <2>5, <2>6, <2>7 DEF TypeOK
<1> QED
  BY <1>1, TrackerInvariant, PTL

(* The price the book quotes for a side is the best it has there, whatever *)
(* diffs, truncations and snapshots came before.                           *)
THEOREM QuotedPriceBest == Spec => []QuotedPriceIsBest
<1>1. TrackerInv => QuotedPriceIsBest
  BY DEF TrackerInv, BookGood, BookOK, Quotes, QuotedPriceIsBest, Levels
<1> QED
  BY <1>1, TrackerInvariant, PTL

(* The last change of a level is the update after which it stayed as it    *)
(* is, and that changed it, unless it is as it was in the first book.      *)
LEMMA LastChangeIs ==
  ASSUME Market(books), NEW level \in Level
  PROVE  /\ LastChange(level) \in 1 .. Version
         /\ \A v \in LastChange(level) .. Version :
              (level \in books[v]) <=> (level \in books[LastChange(level)])
         /\ LastChange(level) > 1 =>
              ~ ((level \in books[LastChange(level)])
                   <=> (level \in books[LastChange(level) - 1]))
<1> DEFINE Stays(u) == \A v \in u .. Version : (level \in books[v]) <=> (level \in books[u])
           S == {u \in 1 .. Version : Stays(u)}
<1>0. Version \in Nat /\ Version >= 1
  BY DEF Market, Version
<1>1. Version \in S
  <2>1. \A v \in Version .. Version : v = Version
    BY <1>0
  <2> QED
    BY <1>0, <2>1
<1>2. PICK u \in S : \A w \in S : u <= w
  <2>1. S \in SUBSET Nat /\ S # {}
    BY <1>1
  <2> HIDE DEF S
  <2> QED
    BY <2>1, LeastNumber
<1>3. ASSUME u > 1, (level \in books[u]) <=> (level \in books[u - 1])
      PROVE  FALSE
  <2>1. u - 1 \in 1 .. Version /\ ~ (u <= u - 1)
    BY <1>0, <1>2, <1>3
  <2>2. Stays(u - 1)
    <3> SUFFICES ASSUME NEW v \in u - 1 .. Version
                 PROVE  (level \in books[v]) <=> (level \in books[u - 1])
      OBVIOUS
    <3>1. v = u - 1 \/ v \in u .. Version
      BY <1>0, <1>2
    <3> QED
      BY <1>2, <1>3, <3>1
  <2> QED
    BY <1>2, <2>1, <2>2
<1>4. /\ u \in 1 .. Version
      /\ \A v \in u .. Version : (level \in books[v]) <=> (level \in books[u])
      /\ u > 1 => ~ ((level \in books[u]) <=> (level \in books[u - 1]))
  BY <1>2, <1>3
<1> QED
  BY <1>4 DEF LastChange

(* A level whose last change is among the past diffs is as the market has  *)
(* it: no late snapshot, older diff or level that crosses it undoes it.    *)
THEOREM TrackedStay == Spec => []TrackedChangesStay
<1>1. TrackerInv => TrackedChangesStay
  <2> SUFFICES ASSUME TrackerInv, NEW level \in Level,
                      Diff(LastChange(level)) \in Range(window)
               PROVE  (level \in Levels) <=> (level \in books[Version])
    BY DEF TrackedChangesStay
  <2>1. PICK u : u = LastChange(level)
    OBVIOUS
  <2>2. Market(books) /\ window \in Seq(Diffs(Version))
    BY DEF TrackerInv, MessagesTypeOK
  <2>3. PICK i \in DOMAIN window : window[i] = Diff(u)
    BY <2>1 DEF Range
  <2>4. window[i].type = "diff" /\ window[i].uid = u
    BY <2>3 DEF Diff
  <2>5. u \in DiffUids(window) /\ u \in 2 .. Version
    BY <2>2, <2>3, <2>4, OnlyDiffs DEF DiffUids
  <2>6. LastChanged(books, level, u)
    BY <2>1, <2>2, <2>5, LastChangeIs DEF LastChanged, Version
  <2> QED
    BY <2>5, <2>6 DEF TrackerInv, BookGood, Current, Levels, Version
<1> QED
  BY <1>1, TrackerInvariant, PTL

(* The book is a replica of the market: level by level as the market once  *)
(* had it, and never crossed.                                              *)
THEOREM CopiesMarket == Spec => CopiesTheMarket
<1>1. Init => Replica!Init
  BY DEF Init, Replica!Init, NoBook, Levels
<1>2. TrackerInv /\ TrackerInv' /\ [Next]_vars => [Replica!Next]_(Replica!vars)
  <2> SUFFICES ASSUME TrackerInv, TrackerInv', [Next]_vars
               PROVE  [Replica!Next]_(Replica!vars)
    OBVIOUS
  <2>1. CASE UNCHANGED <<books, book>>
    BY <2>1 DEF Replica!vars, Levels
  <2>2. CASE Publish
    <3>1. \E b \in Listed : books' = Append(books, b)
      BY <2>2 DEF Publish
    <3>2. Levels' = Levels
      BY <2>2 DEF Publish, Levels
    <3> QED
      BY <3>1, <3>2 DEF Replica!Next, Replica!Publish
  <2>3. CASE InstallBook \/ TrackSaved \/ TrackQueued
    <3>1. books' = books /\ registered'
      BY <2>3 DEF InstallBook, TrackSaved, TrackQueued, TrackerInv, TasksTypeOK
    <3>2. BookOK(book', books) /\ Seen(book', books)
      BY <3>1 DEF TrackerInv, BookGood
    <3>3. Levels' \in SUBSET Level /\ ~ Crossed(Levels')
      BY <3>2 DEF BookOK, BookType, Entries, Levels
    <3>4. \A l \in Level : \E u \in 1 .. Len(books) : (l \in Levels') <=> (l \in books[u])
      BY <3>2 DEF Seen, Levels
    <3>5. \A l \in Level : Replica!WasSo(l, Levels')
      BY <3>4 DEF Replica!WasSo
    <3>6. Replica!Refresh
      BY <3>1, <3>3, <3>5 DEF Replica!Refresh
    <3> QED
      BY <3>6 DEF Replica!Next
  <2>4. \/ UNCHANGED <<books, book>> \/ Publish
        \/ InstallBook \/ TrackSaved \/ TrackQueued
    BY DEF Next, Step, vars, Connect, Drop, TakeSnapshot, stop, start, SetInitialized,
           InitFails, ResetFails, ResetAgain, ResetAnswered, RouteDiff, RouteSnapshot,
           Finished
  <2> QED
    BY <2>1, <2>2, <2>3, <2>4
<1> QED
  BY <1>1, <1>2, TrackerInvariant, PTL DEF Spec, CopiesTheMarket, Replica!Spec
=============================================================================
