---------------------------- MODULE MarketReplica ----------------------------
(***************************************************************************)
(* What a copy of an exchange's order book promises at least: it may be    *)
(* behind, and some levels may be further behind than others, but each     *)
(* level is as the exchange once had it, and what it offers to buy at is   *)
(* never above what it offers to sell at.                                  *)
(***************************************************************************)
EXTENDS Integers, Sequences

CONSTANTS
  Levels,        \* The levels of a book.
  Listed,        \* The books the exchange may have.
  Opening,       \* The one it has at the beginning.
  Crosses(_)     \* Whether a set of levels crosses itself.

VARIABLES
  books,         \* The exchange's books so far.
  copy           \* The levels of the copy.

vars == <<books, copy>>

(* The level is there, or is not, as it was after some update.             *)
WasSo(level, levels) ==
  \E u \in 1 .. Len(books) : (level \in levels) <=> (level \in books[u])

Init == /\ books = <<Opening>>
        /\ copy = {}

(* The exchange updates its book.                                          *)
Publish == /\ \E b \in Listed : books' = Append(books, b)
           /\ UNCHANGED copy

(* The copy catches up, or falls back, level by level.                     *)
Refresh == /\ copy' \in {c \in SUBSET Levels : ~ Crosses(c)}
           /\ \A l \in Levels : WasSo(l, copy')
           /\ UNCHANGED books

Next == Publish \/ Refresh

Spec == Init /\ [][Next]_vars
=============================================================================
