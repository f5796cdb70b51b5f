------------------------------ MODULE OrderBook ------------------------------
(***************************************************************************)
(* The local order book (core/data_type/order_book.pyx) of a centralised   *)
(* exchange: the levels it holds, each with the update id of the message   *)
(* it came with, and the cached best prices.  Amounts are left out, since  *)
(* a level with another amount behaves like a level that is there.         *)
(*                                                                         *)
(* The exchange's book is a set of levels.  `books' is the sequence of its *)
(* books: books[u] is the book after update u, and the diff with update id *)
(* u holds the levels that changed from books[u - 1] to books[u].          *)
(***************************************************************************)
EXTENDS Integers, FiniteSets, Sequences, SequencesExt

CONSTANT Prices   \* The prices the levels are at.

ASSUME PriceAssumption == Prices \subseteq Nat \ {0} /\ IsFiniteSet(Prices)

(* The best price of a book that never had one (NaN).                      *)
NoPrice == 0

Level == [side : {"bid", "ask"}, price : Prices]

Side(levels, s) == {l \in levels : l.side = s}

Crossed(levels) ==
  \E b \in Side(levels, "bid"), a \in Side(levels, "ask") : b.price >= a.price

(* The level of a side that is first in line, and its price.               *)
TopBid(levels) == CHOOSE b \in Side(levels, "bid") :
                    \A c \in Side(levels, "bid") : c.price <= b.price
TopAsk(levels) == CHOOSE a \in Side(levels, "ask") :
                    \A c \in Side(levels, "ask") : c.price >= a.price

(* The best prices, where an empty side keeps the price it had.            *)
BestBid(levels, old) == IF Side(levels, "bid") = {} THEN old ELSE TopBid(levels).price
BestAsk(levels, old) == IF Side(levels, "ask") = {} THEN old ELSE TopAsk(levels).price

(* entries maps the levels in the book to their update ids.  As long as    *)
(* the best bid and the best ask cross, the older of the two goes; the bid *)
(* loses a tie.                                                            *)
Loser(entries, levels) ==
  LET bid == TopBid(levels)
      ask == TopAsk(levels)
  IN  IF entries[bid] > entries[ask] THEN ask ELSE bid

(* Regression: what crosses stays.                                         *)
CrossedEntriesStay(entries) == entries

truncateOverlapEntries(entries) ==
  LET kept[levels \in SUBSET DOMAIN entries] ==
        IF Crossed(levels) THEN kept[levels \ {Loser(entries, levels)}] ELSE levels
  IN  [l \in kept[DOMAIN entries] |-> entries[l]]

(* The levels a diff sets, and those it takes away (amount 0).             *)
RowsSet(books, uid) == books[uid] \ books[uid - 1]
RowsGone(books, uid) == books[uid - 1] \ books[uid]

(* Regression: the best prices are recorded before the truncation.         *)
RecordThenTruncate(book, books, uid) ==
  LET new == RowsSet(books, uid)
      kept == DOMAIN book.entries \ RowsGone(books, uid)
      rows == [l \in kept \cup new |-> IF l \in new THEN uid ELSE book.entries[l]]
  IN  [book EXCEPT !.entries = truncateOverlapEntries(rows),
                   !.bestBid = BestBid(DOMAIN rows, @),
                   !.bestAsk = BestAsk(DOMAIN rows, @)]

c_apply_diffs(book, books, uid) ==
  LET new == RowsSet(books, uid)
      kept == DOMAIN book.entries \ RowsGone(books, uid)
      rows == [l \in kept \cup new |-> IF l \in new THEN uid ELSE book.entries[l]]
      entries == truncateOverlapEntries(rows)
  IN  [book EXCEPT !.entries = entries,
                   !.bestBid = BestBid(DOMAIN entries, @),
                   !.bestAsk = BestAsk(DOMAIN entries, @)]

(* A snapshot replaces everything, the best prices of empty sides too.     *)
c_apply_snapshot(books, uid) ==
  [entries |-> [l \in books[uid] |-> uid],
   snapshotUid |-> uid,
   bestBid |-> BestBid(books[uid], NoPrice),
   bestAsk |-> BestAsk(books[uid], NoPrice)]

(* OrderBookMessage.__lt__.  Its last alternative is true of every message *)
(* that has an update id, and diffs and snapshots always have one.         *)
Less(a, b) ==
  \/ a.uid < b.uid
  \/ a.type \in {"diff", "snapshot"}

(* Regression: nothing is replayed over a snapshot.                        *)
NoReplay(diffs, snapshot) == << >>

(* bisect_right: the position after the last diff that the snapshot is not *)
(* less than; the diffs behind it are replayed over the snapshot.          *)
ReplayedDiffs(diffs, snapshot) ==
  LET position == Max({0} \cup {i \in DOMAIN diffs : ~ Less(snapshot, diffs[i])})
  IN  SubSeq(diffs, position + 1, Len(diffs))

restore_from_snapshot_and_diffs(books, snapshot, diffs) ==
  LET replayed == ReplayedDiffs(diffs, snapshot)
      book[n \in 0 .. Len(replayed)] ==
        IF n = 0 THEN c_apply_snapshot(books, snapshot.uid)
        ELSE c_apply_diffs(book[n - 1], books, replayed[n].uid)
  IN  book[Len(replayed)]
=============================================================================
