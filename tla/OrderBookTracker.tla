--------------------------- MODULE OrderBookTracker --------------------------
(***************************************************************************)
(* The order book tracker (core/data_type/order_book_tracker.py) for one   *)
(* trading pair, with its data source (order_book_tracker_data_source.py)  *)
(* and the exchange it copies the book from.                               *)
(*                                                                         *)
(* The exchange publishes its changes as diffs over a websocket, and       *)
(* answers a request with a snapshot of the whole book; the two come by    *)
(* separate ways and nothing orders them.  A step is what one task does    *)
(* between two awaits that really wait.                                    *)
(***************************************************************************)
EXTENDS OrderBook

CONSTANTS
  Listed,       \* The books of the exchange the model looks at.
  Opening,      \* The one it has at the beginning.
  WindowSize,   \* PAST_DIFF_WINDOW_SIZE.
  SavedSize,    \* The length of a saved message queue.
  MaxUpdates,   \* Bound: the updates of the exchange's book.
  MaxEvents     \* Bound: the connections lost, the requests failed, the
                \* stops and the hours that end, taken together.

ASSUME TrackerAssumption ==
  /\ Listed \subseteq {levels \in SUBSET Level : ~ Crossed(levels)}
  /\ Opening \in Listed
  /\ WindowSize \in Nat \ {0} /\ SavedSize \in Nat \ {0}
  /\ MaxUpdates \in Nat /\ MaxEvents \in Nat

(* The book before the first snapshot.                                     *)
NoBook == [entries |-> << >>, snapshotUid |-> 0, bestBid |-> NoPrice, bestAsk |-> NoPrice]

VARIABLES
  books,            \* The exchange's books; the update id of one is its place.
  connected,        \* Whether the websocket is connected.
  diffStream,       \* _order_book_diff_stream with the queue that feeds it.
  snapshotStream,   \* _order_book_snapshot_stream.
  init,             \* _init_order_books: where it is, and the snapshot it got.
  reset,            \* listen_for_order_book_snapshots, in the same way.
  registered,       \* Whether the pair is in _tracking_message_queues.
  queue,            \* The pair's queue in _tracking_message_queues.
  saved,            \* The pair's queue in _saved_message_queues.
  window,           \* The pair's past diffs.
  book,             \* The pair's order book.
  events            \* How many of the events that are bounded there were.

streams == <<diffStream, snapshotStream>>
tasks == <<init, reset>>
messages == <<registered, queue, saved, window>>
vars == <<books, connected, streams, tasks, messages, book, events>>

Diff(uid) == [type |-> "diff", uid |-> uid]
Snapshot(uid) == [type |-> "snapshot", uid |-> uid]

Version == Len(books)
Running == init.at # "off"

(* Regression: the task that tracks a book ends with the initialization.   *)
TrackingEndsEarly == init.at = "sleeping"

(* _order_books_initialized, and whether _track_single_book runs.          *)
ready == init.at = "done"
Tracking == init.at \in {"sleeping", "done"}

(* Regression: one message too many is kept.                               *)
PushedLate(deque, message, size) ==
  LET all == Append(deque, message)
  IN  IF Len(all) > size + 1 THEN Tail(all) ELSE all

(* A deque with a maximal length drops its oldest members.                 *)
Pushed(deque, message, size) ==
  LET all == Append(deque, message)
  IN  IF Len(all) > size THEN Tail(all) ELSE all

(* One of the bounded events.                                              *)
Happens == events < MaxEvents /\ events' = events + 1

Init ==
  /\ books = <<Opening>>
  /\ connected = FALSE
  /\ diffStream = << >> /\ snapshotStream = << >>
  /\ init = [at |-> "off", uid |-> 0]
  /\ reset = [at |-> "off", uid |-> 0]
  /\ registered = FALSE
  /\ queue = << >> /\ saved = << >> /\ window = << >>
  /\ book = NoBook
  /\ events = 0

(***************************************************************************)
(* The exchange and the websocket.                                         *)
(***************************************************************************)

(* The exchange changes its book.  A diff reaches who is connected only.   *)
Publish ==
  /\ Version <= MaxUpdates
  /\ \E levels \in Listed \ {books[Version]} :
       /\ books' = Append(books, levels)
       /\ diffStream' = IF connected THEN Append(diffStream, Diff(Version + 1))
                        ELSE diffStream
  /\ UNCHANGED <<connected, snapshotStream, tasks, messages, book, events>>

(* listen_for_subscriptions connects, also again after an error; it asks   *)
(* for no snapshot.                                                        *)
Connect ==
  /\ Running /\ ~ connected
  /\ connected' = TRUE
  /\ UNCHANGED <<books, streams, tasks, messages, book, events>>

(* The connection breaks, with what is published until the next one lost.  *)
Drop ==
  /\ connected
  /\ connected' = FALSE
  /\ Happens
  /\ UNCHANGED <<books, streams, tasks, messages, book>>

(* The exchange takes the snapshot that a request asks for.                *)
TakeSnapshot ==
  /\ \/ /\ init.at = "asked"
        /\ init' = [at |-> "answered", uid |-> Version]
        /\ UNCHANGED reset
     \/ /\ reset.at = "asked"
        /\ reset' = [at |-> "answered", uid |-> Version]
        /\ UNCHANGED init
  /\ UNCHANGED <<books, connected, streams, messages, book, events>>

(***************************************************************************)
(* Starting and stopping, as the connector's start_network does.           *)
(***************************************************************************)

(* stop cancels the tasks.  The books, the queues and the past diffs stay. *)
stop ==
  /\ Running
  /\ init' = [at |-> "off", uid |-> 0]
  /\ reset' = [at |-> "off", uid |-> 0]
  /\ connected' = FALSE
  /\ Happens
  /\ UNCHANGED <<books, streams, messages, book>>

(* start after stop: both tasks begin with a request for a snapshot.       *)
start ==
  /\ ~ Running
  /\ init' = [at |-> "asked", uid |-> 0]
  /\ reset' = [at |-> "asked", uid |-> 0]
  /\ UNCHANGED <<books, connected, streams, messages, book, events>>

(***************************************************************************)
(* _init_order_books.                                                      *)
(***************************************************************************)

(* The first snapshot is there: the pair gets a book and an empty queue,   *)
(* also when it had a queue with messages in it.                           *)
InstallBook ==
  /\ init.at = "answered"
  /\ book' = c_apply_snapshot(books, init.uid)
  /\ registered' = TRUE
  /\ queue' = << >>
  /\ init' = [init EXCEPT !.at = "sleeping"]
  /\ UNCHANGED <<books, connected, streams, reset, saved, window, events>>

(* After a second the event is set.                                        *)
SetInitialized ==
  /\ init.at = "sleeping"
  /\ init' = [init EXCEPT !.at = "done"]
  /\ UNCHANGED <<books, connected, streams, reset, messages, book, events>>

(* The request fails.  Nothing catches the error, and the task ends.       *)
InitFails ==
  /\ init.at = "asked"
  /\ init' = [init EXCEPT !.at = "failed"]
  /\ Happens
  /\ UNCHANGED <<books, connected, streams, reset, messages, book>>

(***************************************************************************)
(* listen_for_order_book_snapshots.                                        *)
(***************************************************************************)

ResetAnswered ==
  /\ reset.at = "answered"
  /\ snapshotStream' = Append(snapshotStream, Snapshot(reset.uid))
  /\ reset' = [at |-> "sleeping", uid |-> 0]
  /\ UNCHANGED <<books, connected, diffStream, init, messages, book, events>>

(* A failed request is logged, and the next one is as far off.             *)
ResetFails ==
  /\ reset.at = "asked"
  /\ reset' = [reset EXCEPT !.at = "sleeping"]
  /\ Happens
  /\ UNCHANGED <<books, connected, streams, init, messages, book>>

(* An hour is over.                                                        *)
ResetAgain ==
  /\ reset.at = "sleeping"
  /\ reset' = [reset EXCEPT !.at = "asked"]
  /\ Happens
  /\ UNCHANGED <<books, connected, streams, init, messages, book>>

(***************************************************************************)
(* The routers.                                                            *)
(***************************************************************************)

(* _order_book_diff_router: a diff waits in the saved queue until there is *)
(* a book, and is dropped when the book's snapshot is newer.               *)
RouteDiff ==
  /\ Running /\ diffStream # << >>
  /\ diffStream' = Tail(diffStream)
  /\ LET diff == Head(diffStream)
     IN  \/ /\ ~ registered
            /\ saved' = Pushed(saved, diff, SavedSize)
            /\ UNCHANGED queue
         \/ /\ registered
            /\ queue' = IF book.snapshotUid > diff.uid THEN queue
                        ELSE Append(queue, diff)
            /\ UNCHANGED saved
  /\ UNCHANGED <<books, connected, snapshotStream, tasks, registered, window, book, events>>

(* _order_book_snapshot_router waits for the event first.                  *)
RouteSnapshot ==
  /\ ready /\ snapshotStream # << >>
  /\ snapshotStream' = Tail(snapshotStream)
  /\ queue' = Append(queue, Head(snapshotStream))
  /\ UNCHANGED <<books, connected, diffStream, tasks, registered, saved, window, book, events>>

(***************************************************************************)
(* _track_single_book.                                                     *)
(***************************************************************************)

ApplyMessage(message) ==
  \/ /\ message.type = "diff"
     /\ book' = c_apply_diffs(book, books, message.uid)
     /\ window' = Pushed(window, message, WindowSize)
  \/ /\ message.type = "snapshot"
     /\ book' = restore_from_snapshot_and_diffs(books, message, window)
     /\ UNCHANGED window

(* What was saved comes first, whatever its update id.                     *)
TrackSaved ==
  /\ Tracking /\ saved # << >>
  /\ ApplyMessage(Head(saved))
  /\ saved' = Tail(saved)
  /\ UNCHANGED <<books, connected, streams, tasks, registered, queue, events>>

TrackQueued ==
  /\ Tracking /\ saved = << >> /\ queue # << >>
  /\ ApplyMessage(Head(queue))
  /\ queue' = Tail(queue)
  /\ UNCHANGED <<books, connected, streams, tasks, registered, saved, events>>

(***************************************************************************)
(* The specification.  The exchange's book, the drops, the failures, the   *)
(* hourly snapshots, the stops and the starts need not happen.  Everything *)
(* else is a task of the event loop or an answer of the exchange; the loop *)
(* only has to go on, in whatever order.                                   *)
(***************************************************************************)

(* The model ends where the bounds do: nothing is under way any more.      *)
Finished ==
  /\ Version > MaxUpdates
  /\ connected /\ reset.at = "sleeping"
  /\ diffStream = << >>
  /\ \/ ready /\ snapshotStream \o saved \o queue = << >>
     \/ init.at = "failed"
  /\ UNCHANGED vars

Step ==
  \/ Connect \/ TakeSnapshot \/ InstallBook \/ SetInitialized
  \/ ResetAnswered \/ RouteDiff \/ RouteSnapshot \/ TrackSaved \/ TrackQueued

Next ==
  \/ Publish \/ Drop \/ stop \/ start \/ InitFails \/ ResetFails \/ ResetAgain
  \/ Step
  \/ Finished

Fairness == WF_vars(Step)

Spec == Init /\ [][Next]_vars
FairSpec == Spec /\ Fairness

(***************************************************************************)
(* Properties.                                                             *)
(***************************************************************************)

Message == [type : {"diff", "snapshot"}, uid : 1 .. Version]
Levels == DOMAIN book.entries

(* The types of the variables, and the lengths of the two deques.  No entry *)
(* has the update id of a book the exchange does not have yet.             *)
TypeOK ==
  /\ books \in Seq(Listed)
  /\ connected \in BOOLEAN /\ registered \in BOOLEAN
  /\ \A s \in {diffStream, snapshotStream, queue, saved, window} : s \in Seq(Message)
  /\ Len(window) <= WindowSize /\ Len(saved) <= SavedSize
  /\ init.at \in {"off", "asked", "answered", "sleeping", "done", "failed"}
  /\ reset.at \in {"off", "asked", "answered", "sleeping"}
  /\ {init.uid, reset.uid, book.snapshotUid} \subseteq 0 .. Version
  /\ Levels \subseteq Level
  /\ \A l \in Levels : book.entries[l] \in 1 .. Version
  /\ {book.bestBid, book.bestAsk} \subseteq Prices \cup {NoPrice}
  /\ events \in 0 .. MaxEvents

(* The price the book quotes for a side (get_price) is the best price it   *)
(* has there, though diffs update the cached prices and the truncation     *)
(* takes levels away behind them.  Of an empty side get_price quotes none. *)
QuotedPriceIsBest ==
  /\ Side(Levels, "bid") # {} => book.bestBid = TopBid(Levels).price
  /\ Side(Levels, "ask") # {} => book.bestAsk = TopAsk(Levels).price

(* The update that changed a level last; the first book counts as one.     *)
LastChange(level) ==
  CHOOSE u \in 1 .. Version :
    /\ \A v \in u .. Version : (level \in books[v]) <=> (level \in books[u])
    /\ u > 1 => ~ ((level \in books[u]) <=> (level \in books[u - 1]))

(* A level whose last change is one of the past diffs is right, and stays  *)
(* right: through snapshots that are older than the diff and arrive after  *)
(* it, through older diffs and levels that cross it, and through a stop    *)
(* and a start.                                                            *)
TrackedChangesStay ==
  \A level \in Level :
    Diff(LastChange(level)) \in Range(window)
      => ((level \in Levels) <=> (level \in books[Version]))

(* The book is a copy that may be behind level by level, but invents no    *)
(* level, loses none that was always there, and is never crossed.          *)
Replica == INSTANCE MarketReplica
             WITH Levels <- Level, Listed <- Listed, Opening <- Opening,
                  Crosses <- Crossed, books <- books, copy <- Levels
CopiesTheMarket == Replica!Spec

(* What was received is worked off, whatever breaks: a queue of messages   *)
(* is empty some time later, unless the first snapshot cannot be had or    *)
(* the tracker stays off.                                                  *)
MessagesAreHandled ==
  (diffStream \o snapshotStream \o saved \o queue # << >>)
    ~> \/ diffStream \o snapshotStream \o saved \o queue = << >>
       \/ init.at \in {"failed", "off"}
=============================================================================
