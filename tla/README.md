# A TLA+ model of Hummingbot's orders and markets

Hummingbot is a trading bot: strategies in `src/hummingbot/strategy` decide on
orders, connectors in `src/hummingbot/connector` place them on exchanges, and the
gateway in `src/gateway` does the same on blockchains. This directory models the
parts whose correctness depends on the order in which things happen: the life of
an order between a connector, the exchange or the chain, and the database; the
throttler every request passes; the nonces of the transactions the gateway sends; the
local copies of order books; and the arbitrage strategy that uses the gateway.

Everything in the Python process runs on one asyncio event loop. A step of a model
is therefore what one task does between two awaits, and an interleaving is an order
in which the loop may run the tasks. The gateway is a Node.js process with the same
discipline; there an await of something already finished goes on before any other
request is served, so a step ends only where an answer has to come from outside.

## 1. Inventory

| Component | State | Operations | Talks to | Hard behaviour |
|---|---|---|---|---|
| In-flight order (`core/data_type/in_flight_order.py`) | one order: state, exchange id, fills, executed amount, two asyncio events | `update_with_order_update`, `update_with_trade_update`, JSON | its tracker | any state may follow any state; the same trade arrives twice |
| Client order tracker (`connector/client_order_tracker.py`) | active orders, cache of closed orders (TTL 30 s), not-found counters | start, stop, `process_order_update` (a task), `process_trade_update`, `process_order_not_found`, restore | connectors call it; it triggers events | a FILLED update waits for the fills while others run |
| Markets recorder (`connector/markets_recorder.py`) | database: orders, fills, tracking states of each market | saves on order events, restores at start | event bus, connectors | a crash between two saves; a failing transaction |
| Exchange base and connectors (`connector/exchange_py_base.py`, `connector/exchange/binance`) | poll timestamps, the tasks of placing, cancelling, listening and polling | `_create_order`, `_execute_cancel`, user stream, two polls | tracker, throttler, network | answers overtake stream messages; requests fail on one side only |
| API throttler (`core/api_throttler`) | task logs, limits | `acquire`, `flush`, `within_capacity` | every request | capacity shared by tasks that sleep and retry |
| EVM nonce manager (`gateway/src/services/evm.nonce.ts`) | leading and pending nonces of each address, mirrored in LevelDB | `getNextNonce`, `commitNonce`, merge with the node | controllers of the chains | concurrent requests between awaits, expiry, restart |
| AMM arbitrage (`strategy/amm_arb`) | main task, map of order ids to proposal sides | `tick`, `main`, submission, completion events | two connectors, one a gateway | one side must wait for the other |
| Strategy order tracker (`strategy/order_tracker.pyx`) | limit and market orders, shadow records, in-flight cancels, pending creations | start, stop, track cancel, clean up | strategies | expiry of cancels and of shadow records |
| Gateway connector (`connector/gateway_EVM_AMM.py`) | orders as transactions, approvals, cancel transactions | create, approve, cancel by replacement, polls | gateway over HTTP | receipts of two transactions with one nonce |
| Order books (`core/data_type/order_book*.py*`) | book, past diffs, saved queues | diffs, snapshots, restoration | data source of the exchange | streams that are not ordered among themselves |
| Clock and network iterators (`core/clock.pyx`, `network_iterator.pyx`) | tick, network status, check task | start, stop, tick, check loop | every connector and strategy | cancellation in the middle of start or stop |
| Event bus (`core/pubsub.pyx`) | weak references to listeners | add, remove, trigger | everything | listeners that raise or disappear |
| The rest | | | | other connectors and strategies, client, configuration, rate oracle, web assistants: see `components` in `PROJECT.json` with the reason each is left out |

What makes each correct, in one sentence: an order leaves the active orders with
exactly one report of its end; every trade is reported once and counted once, and a
restart forgets none; what is reported agrees with the exchange; no order lives at
the exchange that the client believes dead; the exchange never sees more requests
than it allows, and no request waits for ever; no two transactions get one nonce;
the second side of an arbitrage follows the first; a book equals the exchange's book.

`PROJECT.json` lists under `hazards` the lines where each of these can go wrong and
the property that would notice.

## 2. Plan

Done, in this order:

1. `InFlightOrder`, `ClientOrderTracker` and its proofs.
2. `BinanceExchange`: the tracker composed with a connector, an exchange and a faulty
   network, proved to implement `ClientOrderTracker` up to the first direct report.
3. `AsyncThrottler` and its proofs.
4. `EvmNonceManager`, its proofs, and the refinement to `NonceLeases`: checked and proved.
5. `OrderBook` and `OrderBookTracker`, proved to implement `MarketReplica`.
6. `AmmArb` over `StrategyOrderTracker`, and its proofs.
7. `GatewayEVMAMM`: orders and their cancellation as transactions, on the same tracker,
   proved to implement `ClientOrderTracker`.

Left:

- the shadow records and cancels in flight of `StrategyOrderTracker`, with a market
  making strategy that uses them;
- `NetworkIterator`: the check loop under start and stop;
- `OrderLifecycle`: an abstract life of one order (created, filled, ended once) that the
  tracker implements as long as no closed order is updated again.

All safety properties and refinements that the passing runs check are proved. Worth
proving next are the theorems of the modules above, and how much of its own limit a path
can use (`FullLimitUsable` says all of it, and fails).

## 3. Modules

### `InFlightOrder`

The order record and its two update functions, with the tests on states (`is_open`,
`is_done`, `is_filled`, `is_cancelled`). A trade is a model value with an amount
(`FillAmount` maps each *set* of trades to its amount, and an assumption says that it
adds up); prices, fees and times are left out. `UpdateWithOrderUpdate` takes over the
new state whatever the old one was, as the code does.

### `ClientOrderTracker`

One tracker with its recorder and *any* connector: every order update and every set
of trades may come at any time (`Start`, `Trade`, `Update`, `NotFound`). This is the
specification that all connectors built on `ExchangePyBase` share.

| Code | Model |
|---|---|
| `_in_flight_orders`, `_cached_orders` | `active`, `cached`; the order objects are in `order` and outlive both, because a suspended task holds one |
| `process_order_update` → `safe_ensure_future` | `ScheduleUpdate` appends to `ready`; `RunOrderUpdate` runs the next task |
| `await wait_until_completely_filled`, five seconds | `ParkOrderUpdate`, then `FillsArrived` or `WaitTimesOut`; the second half does not look again whether the order is still tracked |
| events triggered, `OrderFilled` | `events`, `fillEvents` (counters that the code does not have) |
| `process_order_not_found`, limit 10 | `NotFound`; the counter saturates above `NotFoundLimit` |
| `TTLCache` | `Evict` at any time |
| the recorder's listeners | `saved' = TrackingStates(order')` inside the step that triggers the event, since listeners are called synchronously |
| crash or stop, and start | `Restart`: the saved rows that are open become active again, all tasks are gone |

`KeepsDone` says which tracking states the connector writes: `ExchangePyBase` leaves out
an order that is done (`exchange_py_base.py:194`), the gateway's connector writes every
active order (`gateway_EVM_AMM.py:210`).

A save stores *all* open orders of the connector, so events of other orders matter
(`SaveMarketStates` at any time stands for them in the run with one order; the proofs
are for any set of orders).

### `BinanceExchange`

Extends the tracker with the tasks of the connector: placing (`CreateOrder`, `RefuseOrder`,
`OrderPlaced`, `OrderPlacementFails`), cancelling (`ExecuteCancel` and its ends;
`cancelling` is the set of the places where cancel requests of the order are, since nothing
keeps a strategy from asking twice), the user stream (`UserStreamEvent`), the polling loop
(`PollTrades`, `PollStatus` and their answers), and an exchange that accepts, rejects,
fills, cancels and closes. Each request is split where the code awaits: what it reads before
(the map from exchange ids to orders, the window of trades) is kept in `poll`, what it
applies afterwards may be old. `_update_balances` and `_update_order_status` are gathered
(`exchange_py_base.py:839`): when the balances raise, the loop starts its next round while
the requests of the last one are still under way, so `poll` has up to `MaxRounds` rounds
(`RoundStarts`). `Failing` and `MaxFaults` say what fails: the stream, a request or its
answer, the balances. The recorder has one transaction for each fill, and one that finds the
fill already stored saves nothing; so after a batch of trades the saved states are those of
its last new fill (`RecordFills`). A batch is one step, as nothing in it is awaited; the
crash between two of its transactions is that after a batch of the first trades alone.
`is_confirmed_new_order_filled_event` reports a trade past the tracker; these reports are
counted in `direct`.

Binance's status `PENDING` (mapped to PENDING_CREATE by `ORDER_STATE`) is not sent by
the exchange and is left out. An amount that `quantize_order_amount` makes zero is
refused; the branch for a notional value that is too small (`exchange_py_base.py:456`)
logs without returning, but quantizing has made such amounts zero before, so no state
depends on it.

### `AsyncThrottler`

Limits with linked limits, the list of task logs, and tasks that wait in `acquire`.
The lock is never held across an await, so an attempt (flush, check, log) is one step;
the first attempt belongs to the step that enters `execute_task`. The code's
`flush` removes from the list it iterates over and so skips the entry behind each
removed one; `Flush` says in closed form which entries remain. Time is counted in ticks
and entries have ages. `granted`, `inFlight` and `seen` are not in the code: they record
what was let through in the last ticks, how long it travels, and what the exchange counted.
Two assumptions are about the world: no request travels longer than the safety margin
(`DelayAssumption`), and no limit is linked twice to another or to itself
(`LinkAssumption`). The second holds of every `RateLimit` with `linked_limits` in the
constants modules of the connectors; without it `within_capacity` would check each of two
equal links alone, and the weights of both would be logged.

### `EvmNonceManager`

The manager for one address (addresses share nothing), with the requests that use it,
LevelDB, the chain and its mempool. A request is a record in `call`: the operation, what
it waits for, and the nonce it deals with.

| Code | Model |
|---|---|
| `#addressToNonce`, `#addressToPendingNonces` | `leading`, `pending`: nonces with the time of their expiry |
| `mergeNonceFromEVMNode` | `Request` or `Restart` asks, `MergeNonce` stores the count, `LeadingSaved` filters, `PendingSaved` ends it |
| `getNextNonce` | the merge, then `GetNextNonce` with its three cases; its call of `getNonce` merges again, which is over at once because the first merge has just made the leading nonce fresh (`MaxDelay < LocalTTL`: two minutes against five) |
| `getNonce` | operation `nonce`, with `GetNonceFromNode` when no leading nonce is known |
| `isValidNonce` | operation `approve`: takes the next nonce and compares |
| `commitNonce` | `CommitNonce`, in the step in which `sendTransaction` returns |
| a cancel, or a trade with a nonce of its own | `Resend`, with any nonce a client knows |
| LevelDB | `leadingPuts` and `pendingPuts`; `stored` survives `Restart` |
| a request given up, or cut off by a crash | `failed`; its transaction may reach the node all the same (`AcceptLate`) |
| `init` | `Restart`, with `Boot` as the call that merges; if its question fails the manager stays uninitialized |

The answer of the node is any count between the moment of the question and the answer,
so answers overtake each other. Two reads of the clock in one step give the same time.
A client that invents a nonce for a trade can leave a hole on purpose; it is left out.
LevelDB is assumed to apply the writes of one key in the order in which they were issued:
`local-storage.ts:47` waits for each `put`, but concurrent requests do not wait for each
other's, and nothing in the code orders them.

### `NonceLeases`

What the manager promises, without caches, merges or a database: a nonce is leased to one
client at a time, until its time is over or a transaction with it is mined. `LeasesNonces`
maps the nonces that requests hold to leases.

### `OrderBook`, `OrderBookTracker`, `MarketReplica`

`OrderBook` is the local book of a centralised exchange as operators on a record: the
levels with the update ids of the messages they came with, the cached best prices, diffs
with the truncation of levels that cross, snapshots, and the replay of past diffs over a
snapshot. The exchange's history is a sequence of books; an update id is a place in it, and
a diff is the difference between neighbours, so a model message is a type and an id.
Amounts are left out: a level is there or not.

`OrderBookTracker` is the tracker of one trading pair with its data source.

| Code | Model |
|---|---|
| `start`, `stop` (the connector's `start_network`, `stop_network`) | `start`, `stop`; queues, past diffs and the book survive a stop |
| `_init_order_books`: request, book and queue, a second of sleep, event | `init.at`: `TakeSnapshot`, `InstallBook`, `SetInitialized`; `InitFails` ends the task |
| `listen_for_order_book_snapshots`, every hour | `reset.at`: `TakeSnapshot`, `ResetAnswered`, `ResetFails`, `ResetAgain` |
| `listen_for_subscriptions` | `Connect`, `Drop`; diffs published while it is down are lost |
| `_order_book_diff_router`, `_order_book_snapshot_router` | `RouteDiff`, `RouteSnapshot` |
| `_track_single_book` | `TrackSaved` before `TrackQueued` |
| `OrderBookMessage.__lt__` in `bisect_right` | `Less`, which holds of every two messages with an update id, so every past diff is replayed, older ones too |

`MarketReplica` is the abstract copy: each level is as the exchange once had it, though
levels may be of different ages, and the copy is never crossed. The stronger promise that
the copy is one past book of the exchange does not hold (section 5). Left out: the
truncation for decentralised exchanges, trades and last prices, volume queries, the
snapshots some exchanges push by themselves, and several pairs, which share nothing but
the routers.

### `AmmArb`, `StrategyOrderTracker`

One process with the arbitrage strategy; `StrategyOrderTracker` is the tracker of its
orders and the handlers of the strategy base class, as operators on a record.

| Code | Model |
|---|---|
| `tick`, `_main_task` | `tick`; `task.pc` says where the task awaits |
| `main`: both quotes awaited, filters | `Quoted`: none, one or two arbitrages are profitable and affordable |
| `place_arb_order` | `AskPrice` and `PlaceLeg`: a gateway under a price shim is asked for its price first |
| `execute_arb_proposals`, in sequence or concurrently | `AfterPlacing`, `LegWaited`, `AfterLeg`, `BothWaited` |
| `completed_event`, `failed_event` | `completed`, `failed`: defaults of a dataclass, so one of each in the process; they survive `stop` and are never cleared |
| the handlers of order events | `did_complete_order`, `did_fail_order`, `did_cancel_or_expire_order`, each with what the tracker does |
| `start`, `stop` | a new object; the user chooses the kind of submission |

The task gives the loop up only where it awaits, so an order can end, or a tick come, only
at those points (`LoopFree`). An await of an event that is set does not give the loop up:
this is why a second leg is placed at once when any order of the process has ended before.
`run`, `left`, `leg` and `fresh` of an order are not in the code: they say which arbitrage
it belongs to, and whether the shared event was still clear when it was placed. A tick
before the markets are ready changes nothing and is left out.

### `GatewayEVMAMM`

Extends the tracker with the connector for decentralised exchanges. An order is one
transaction with one nonce; up to `MaxCancels` transactions compete for the same nonce, and
`slot` is what the chain made of it (external, together with the node's answers).

| Code | Model |
|---|---|
| `_create_order` | `CreateOrder`, then `OrderSubmitted` or `OrderSubmissionFails`; `GatewaySends`, `GatewayRefuses` are the gateway's side |
| `cancel_outdated_orders`, `_execute_cancel` | `ExecuteCancel`, `GatewaySendsCancel`, `CancelReturns`, `CancelFails`; one order after the other |
| its timeout of thirty seconds, or a crash | `lateCancels`: requests nobody waits for, which the gateway may still carry out |
| `cancel_tx_hash` | `cancelHash`: which of the cancel transactions the client knows; `sentHash` is the one in the answer under way |
| `_status_polling_loop`, `safe_gather` | rounds `r`: a part that raises does not stop the others, and the loop starts the next round, so answers of two rounds may be under way |
| `update_order_status` | `ListOrders` (the orders of the round), `RoundFails` (the hash of one of them does not come, and the round is over for all), `AskStatus` (all hashes are there; the node looks, whether or not the order is still open), `StatusReturns` (the code goes on, whatever happened meanwhile). Answers that change nothing (waiting, an error) are not kept |
| `getTransactionReceipt`, which keeps a missing receipt for up to an hour | `NodeAnswers`: a transaction on the chain may still be answered as waiting |
| `update_canceling_transactions` | `AskCancel`, `CancelConfirmed` |
| `nonce`, `gas_price` of the order | `GasPriceKnown`: an update to FILLED or FAILED clears them, and without a gas price the fee of a fill raises |
| `restore_tracking_states` | `restored`: these orders are `InFlightOrder`s without `is_approval_request`, so `approval_orders` raises while one is active, and polls and cancels do nothing (`ApprovalOrdersRaise`) |

The node is assumed to know a transaction it has accepted until it is mined, forgotten for
good, or pushed out by a cancel transaction with its nonce. `CancelReturns` stands for
chains on which a cancel can be answered; on EVM chains `commitNonce` refuses its nonce, so
there only `CancelFails` happens (section 5), and the model allows more than the code does.
Left out: token approvals, quotes, balances, gas estimates, and the nonces themselves
(`EvmNonceManager`).

## 4. Runs

Bounds: `MaxPending` bounds the tasks not finished, `MaxTerminal` the terminal events of one
order after which no more updates come; `MaxRestarts`, `MaxFaults`, `MaxCalls`, `MaxDelay`,
`MaxTime`, `MaxUpdates`, `MaxEvents`, `MaxRuns`, `MaxStarts`, `MaxCancels` and `MaxRounds`
what their names say. `NotFoundLimit` is 1 instead of 10: only whether the counter is beyond
it matters. The order runs have one order, because tasks of different orders share only the
database row and the queue of tasks, and `SaveMarketStates` saves at any time as the events
of others would. Two trades are enough to distinguish a partial fill, a complete fill and an
overfill; the tracker's and the Binance runs also have an order of amount zero. Two rounds
of the Binance polls overlap in `binance_faults` when the one fault is that the balances
raise; the other Binance runs have one round. Three requests are the fewest with which two
merges overlap and a third one uses what they leave; in three ticks every nonce of the first
can expire. Three updates between three books let a level come, go and come back, with one
of the updates outside the window of past diffs; one lost connection, failed request, stop
or hour is what each of the order book's hazards needs. Two main tasks and two strategies
are enough for an order of an earlier task or strategy to end in the life of a later one.
Two cancel transactions are the fewest of which the client knows the wrong one, and two
rounds the fewest that overlap. The runs that may stop (all orders done and bounds reached)
say `CHECK_DEADLOCK FALSE`; the order book run marks its end with `Finished` and looks for
deadlocks.

| Run | Shows |
|---|---|
| `tracker` | the maps agree with the order objects; executed amounts; each trade and creation reported once; the database never forgets a reported trade, and holds every reported open order; an active order has no end reported; leaving the active orders is reported; completions have their fills; a FILLED update closes its order although the fills may never come, unless the client restarts. One order (of amount zero or two), two trades, one restart |
| `binance_connector` | the connector implements the tracker, step by step, except for the fills it reports directly; reported ends are real. Two trades, one restart |
| `binance_faults` | reported ends are real and no order is orphaned, with a lost stream, a lost request or answer, or two rounds of polls at once, and a restart; an order the exchange has closed is settled by the polls alone |
| `binance_duplicate_fill` (violated) | a trade is reported by the tracker and directly |
| `binance_missed_fill` (violated) | a trade is reported by nobody |
| `throttler` | flush forgets nothing early; the exchange's limit holds although requests travel for different times; every waiting call is let through once the others stop calling |
| `throttler_full` (violated) | half of a limit is usable |
| `nonce` | no two requests hold one nonce, whatever overlaps; an answered nonce is in the database; no hole below the pending nonces; the manager implements `NonceLeases`. Three requests, one restart |
| `nonce_available` (violated) | a nonce whose transaction is mined is handed out again |
| `order_book` | the book quotes its best prices; a change among the past diffs is never undone by an older message; the tracker implements `MarketReplica`; what is received is worked off unless the first request failed. Two prices, three books, three updates, a window of two |
| `amm_arb` | the second leg waits for the first while the shared events are fresh; the limit orders outstanding are of one main task; a leg is missing only after a failure, an exception or a stop; the strategy can always trade again. An exchange with market orders and a gateway, two main tasks, two starts |
| `gateway_orders` | a reported end is what the chain took; a failed order trades later only for the two reasons named; no trade of the chain is forgotten; no order is reported as completed and as failed, and one as completed twice only after a cancel was answered; the connector implements the tracker; the polls settle what the chain decided. One order, two cancels, two rounds, three updates at once (with two an update between two others never comes), one lost submission, late cancel requests, one restart |

The safety properties of all these modules are proved as well (section 6).

Every property of a passing run has a mutant in `PROJECT.json`: a definition replaced
by a plausible bug (the operators commented as regressions), under which the run fails.

### Fairness

The event loop runs a task that is ready (weak fairness of `RunOrderUpdate` and
`ParkOrderUpdate`), a wait ends by its event or its timeout, the polling loop goes
round with each answer or error arriving (the requests have timeouts), a sleeping
call tries again, and time passes. Nothing is assumed of the user stream, of the
exchange's own actions or of the user. `WaitingEnds` holds because the number of calls
is bounded: with callers that never stop, a heavy call can be overtaken for ever.

The order book run only assumes that *some* task goes on or some request is answered
(weak fairness of `Step` as a whole). `AmmArb` assumes that its main task goes on, and that some open
order ends as long as one is open. The gateway's connector does so for its orders, except
for those named in section 5 (out of gas, restored): for these `TradesAgain` says nothing.
`GatewayEVMAMM` assumes that the tracker's tasks run, that submissions are answered, and
that each round of polls goes on; nothing of the chain and of the cancels. It needs one strong
fairness: an order that is asked for again and again has its outcome in an answer at last
(`AskOutcome`). Each question may meet an old receipt or an error, so weak fairness would let
all of them; but the gateway keeps a missing receipt no longer than an hour
(`ethereum-base.ts:278`), and replaces it when the transaction is mined.

## 5. Findings

1. *A trade reported twice* (`binance_duplicate_fill`). The map from exchange ids to
   orders is taken before the trades are awaited. An order that learns its exchange id
   meanwhile is not in it; its trade is reported directly, and again by the tracker
   when the stream delivers it.
2. *A trade reported by nobody* (`binance_missed_fill`). The window of the trades poll
   moves on although the trade belongs to an order whose id is not known yet and whose
   creation is not recorded; if the stream loses the trade, nobody asks for it again.
3. *The throttler logs each call twice under its own limit* (`throttler_full`), so
   about half of a limit is usable.
4. *A used nonce is handed out again* (`nonce_available`). `commitNonce` leaves the nonce
   among the pending ones and makes the leading nonce fresh again, so that no merge drops
   it; once the pending entry expires, `getNextNonce` gives the nonce of a mined
   transaction. A client that trades at least every five minutes meets it after five.

Behaviour met on the way that contradicts no statement of the repository:

- A late OPEN makes a closed order in the cache look open again; an update that brings
  the exchange id of a closed order reports its end a second time; a cancel or the
  not-found limit during the five-second wait leads to two terminal events. The
  exceptions in `CompletionHasFills` and `ActiveOrderUnreported` are these.
- An order whose first update is not OPEN has no creation event and no database record,
  so its end does not refresh the saved states and a stale row can be restored.
- `tracking_states` leaves out an order whose fills are complete but whose FILLED update
  is still to come: after a crash its completion is never reported.
- An update to FAILED of an order whose fills add up to its amount is reported as a
  completion.
- `_poll_notifier` is replaced after the fetch, so a tick during the fetch is lost.
- Calls of one path overtake each other in the throttler, whose class comment says that
  it is first in, first out: a sleeping call has no place in line.
- The count of a late answer takes the leading nonce back behind a commit; the pending
  nonces keep this without effect, except when two overlapping merges have emptied them.
- `isValidNonce` takes a nonce: one from `/nextNonce` is never valid for an approval
  before it expires. A cancel sends its transaction and then fails in `commitNonce`.
- If the node does not answer while the gateway starts, the chain is never initialized.
- The recorder cannot store a fill twice; its transaction fails and the tracking states
  are not saved with it.
- Nothing compares the update id of a snapshot with those of the past diffs
  (`order_book_tracker.py:263`), and `OrderBookMessage.__lt__` holds of every two messages
  with an update id: a diff older than a snapshot is applied over it, and in a quiet market
  the level stays wrong until the next snapshot, which replays the diff again while it is
  among the past ones. The same holds of diffs lost with a connection, since a new
  connection asks for no snapshot. `TrackedChangesStay` and `MarketReplica` are what is left
  of the copy.
- If the first request for a snapshot fails, the book is never initialized
  (`order_book_tracker.py:177`). A second start drops the diffs that wait in the queue. The
  cached best price of a side that became empty is the one it had (`get_price` quotes none).
- `completed_event` and `failed_event` are shared by every side the process makes
  (`data_types.py:31`): after the first order has ended nothing waits for a leg any more, and
  after the first failure submission in sequence drops every second leg.
- A cancelled or expired first leg lets the second pass; if asking for the second leg's
  price raises, the first stays alone. An order at market is not looked at before the next
  arbitrage, and stays in the strategy's tracker when it is cancelled.
- A restored order stops the gateway connector: `restore_tracking_states`
  (`client_order_tracker.py:103`) makes it an `InFlightOrder`, whose missing
  `is_approval_request` raises in every poll and cancel while it is active
  (`gateway_EVM_AMM.py:168`).
- A transaction that ran out of gas is answered with an HTTP error every time
  (`ethereum.controllers.ts:383`), so its order never ends.
- A cancel of an EVM transaction is always answered with an error, because `commitNonce`
  refuses the nonce, which is not new: the client learns of the cancel only when the order's
  transaction is not found any more, and reports a failure.
- An order whose submission's answer is lost is reported as failed and may trade.
- A late PENDING_CANCEL reopens an order that is closed and cached. If it comes between two
  updates to FILLED, which two rounds of polls can queue, the completion is reported twice.

## 6. Proofs

Each theorem holds for every value of the constants that the named assumptions of its
modules allow. No property is inductive alone; each proof module states an invariant
that is (`IInv`, `ExchangeInv`, `GatewayInv`, `TrackerInv`), with one lemma per kind of step.

### The tracker (`ClientOrderTracker_proofs`)

For every set of orders and trades, every amount, every bound and both values of
`KeepsDone`, `Spec` keeps `TypeOK`, `ActiveOrdersAreOpen`, `ExecutedIsSumOfFills`,
`FillReportedOnce`, `CreatedReportedOnce`, `SavedFillsComplete`, `CreatedOrderIsSaved`,
`ActiveOrderUnreported` and the action properties `LeavesActiveReported` and
`CompletionHasFills`. The assumptions: an update carries any state but PENDING_CREATE, an
absent row is not an order, the not-found limit and the amounts are numbers, and the
amounts of disjoint sets of trades add up. `IInv` joins the properties with:

- `UntrackedHaveNoHistory`: an order that was never started has no events, no fills and
  no row, so starting it begins from nothing;
- `ReportedFillsHeld`: every reported trade is among the fills of the order object, or
  would be restored with it, which is why a trade is not reported again;
- `CreatedIsPast`: an order whose creation was reported is beyond PENDING_CREATE in
  memory and in the database, which is why its creation is not reported again;
- `ParkedAreTracked`: a suspended task belongs to a started order;
- the types of the store and of the queue.

The argument for the fills goes through the database: a fill is saved in the step that
reports it, together with all open orders, so the row of an order always holds the
trades reported for it.

### The Binance connector (`BinanceExchange_proofs`)

For every set of orders, trades and amounts, whatever fails (`Failing`), and every number
of faults, restarts and pending updates: `ConnectorTypeOK`, `ReportedEndIsReal`,
`NoSilentOrphan`, and `ImplementsTracker`. Besides the tracker's assumptions only that
`MaxFaults` is a number.

A fill that is reported past the tracker makes the recorder fail, so the tracker's `IInv`
does not hold in the connector for ever, and the connector's invariant cannot rest on it.
`ExchangeInv` instead relates every copy the client has of something to the exchange:

- `MarketSound`: the fills of an order object, and of its saved row, are trades of the
  exchange that add up to the executed amount; the poll asks only for such trades; and an
  order the exchange has not filled is not executed in full. This is why fills that add up to
  the amount are never reported as a completion too early;
- `MessagesSound`: a message of the stream, a scheduled or parked update and an answer under
  way say of an order that it is cancelled or filled only if the exchange has cancelled or
  filled it. Both are final there, so a message can be old but not wrong. A poll's status
  and a stream's message reach the tracker through one table (`StateOf`), which keeps this;
- `ReportSound`: the two properties, and that an order which is live, *or whose placement is
  still on its way*, is tracked, failed, or lost in a restart before its creation was
  reported. For the restart it needs `StoreSound`: an order that is active, reported and not
  done has an open row. And an order that was dropped by a restart is not in the cache, or a
  late OPEN could report its creation after all.

Since `direct` only grows, a step after which nothing is reported past the tracker had nothing
reported before it. Such a step is one of the tracker's (`ConnectorImplementsTracker`), and so
the tracker's `IInv` holds up to the first direct report (`TrackerHolds`).

### The gateway connector (`GatewayEVMAMM_proofs`)

For every set of orders, amount, number of cancel transactions, rounds, faults and restarts:
`GatewayTypeOK`, `EndIsReal`, `FailureIsReal`, `ExecutionAccounted`, `CompletedOrFailed`, and
`ImplementsTracker`, without exception. The assumptions beyond the tracker's: an order is
executed as a whole, the connector's tracking states hold every active order, and the bounds
are numbers. Because every step is one of the tracker's, `GatewayInv` contains the tracker's
`IInv`. It adds:

- `AnswersInv`: an answer under way to a poll stands for what the chain did (`success` for a
  mined transaction, `reverted` for one that was, `unknown` for one that is gone or competes
  with a cancel), whichever round asked, and though an old receipt may hide it;
- `UpdatesInv`: what each update in the queue stands for. An update that opens or fails an
  order on its submission finds the order as it was submitted (`AsSubmitted`), because
  a round asks for no order before it has its hash; no order has two of them. An update to FILLED
  finds the order executed or out of the tracker's reach, and no failure reported: this is
  what lets answers of different age end an order in one way only;
- `HashInv`: a client that knows the hash of an order has reported its creation, so that a
  restart finds a row (with `ReportsInv`);
- `ReportsInv`: reports against the chain and the database. A row of an order that ended is
  not open, so a restart does not take it up again; a started order is active, ended, or was
  lost in a restart before its creation was reported.

### The nonce manager (`EvmNonceManager_proofs`, `EvmNonceManager_leases`)

For every set of requests, number of restarts, bound of time and lives of nonces, with one
assumption about time: a question to the node is over before a leading nonce expires
(`MaxDelay < LocalTTL`, two minutes against five in the code). Proved are `TypeOK`,
`NoSharedNonce`, `AnsweredIsRemembered`, `NoHole`, and that the manager implements
`NonceLeases` (`LeasesNonces`).

The lists of pending nonces (in memory, in LevelDB, and in each write on its way there)
lose only what the chain has mined. So `IInv` says of each of them that it is consecutive
and begins at the chain's next nonce or before; that a nonce answered and not mined is in
all of them, with an expiry no earlier than the request's; that a nonce about to be answered is in
memory, in the write its request waits for and in all later ones (`AssignedKept`: writes
are applied in order); and that a leading nonce is mined or that of an answered request
(`LeadingSound`). A nonce given again because it expired, or the next one, is then held by
nobody; and after a restart the list in LevelDB takes the place of the one in memory.

For the refinement, a step that gives a nonce is a `Grant`, one in which a request ends
without its nonce, or a restart, is a `Lose`, time and blocks are a `Pass`, and all else
stutters.

### The arbitrage strategy (`AmmArb_proofs`)

For every choice of gateways and order types, and every number of tasks and starts:
`TypeOK`, `FreshArbitrageInSequence`, `OneRunOutstanding`, `LegDroppedOnFailureOnly`. `IInv`
adds what is known at each point of the main task (`PhaseSound`), that the tracker holds
every open limit order and limit orders only (`TrackerSound`), that a running task owns all
open limit orders (`RunOwnsOpen`: this is why the next tick starts with none), that in
sequence and before the first end in the process there is at most one order, which the
task waits for (`AtMostOneFresh`, `FreshEnded`), and that every order of the running task
has its partner, except the first leg under way (`LegsPaired`).

### The order book tracker (`OrderBookTracker_proofs`)

For every finite set of prices, every set of books the market may have, every length of the
two deques, and every number of updates and events: `TypeOK`, `QuotedPriceIsBest`,
`TrackedChangesStay`, and that the book is a replica of the market (`CopiesTheMarket`).

The truncation and the replay are recursive functions. The induction theorems of the
library cannot be used (they take a predicate as a parameter), so the module proves
induction for sets from the well-foundedness of the numbers (`NatByInduction`), and with it
that both functions exist (`TruncationExists`, `ReplayExists`) and what they compute:

- `Truncated`: what is left does not cross, and holds every level that is newer than all
  it crosses (`Safe`). Two levels the market had at the same time do not cross, so a level
  that has not changed since its update loses only to ones that are newer, and those were
  in the market together with it;
- `DiffApplied`, `Restored`: a diff, and a snapshot with all past diffs replayed over it,
  keep the book good and right wherever a past diff was the last change (`Current`).

`TrackerInv` then needs the order of the messages: the diffs in the window, the saved and the
queued ones and those on the stream never pass each other (`Ordered`), and a first
snapshot is not older than the past diffs, since nothing is tracked while it is asked for
(`TasksTypeOK`). Without the first, an older diff could undo a tracked change; without the
second, a restart could, since `InstallBook` replays nothing.

### The throttler (`AsyncThrottler_proofs`)

For every set of limits with any weights, shares, intervals, margins and links (under the
two assumptions of section 3), and any number of tasks and calls: `TypeOK`,
`LogsCoverGrants`, `ExchangeLimitRespected`.

The capacity that is used is a sum over the logs, a recursive function. The first half of
the module shows by induction that it exists (`TotalIs`) and how it changes: when one term
changes (`TotalChange`), when a sequence is appended (`TotalConcat`), and when entries that
count for nothing are taken out (`TotalMembers`). From these follow that `flush` changes no
capacity (`FlushKeeps`: an entry that has not expired is never removed, whatever the list
looks like around it), that `acquire` logs at least what it takes (`AppendAdds`), and that a
tick makes all entries count for a tick less (`LogsOlder`).

`ThrottlerInv` says of every stretch of time, not of the window alone, that the logs cover
what was let through in it (`GrantsLogged`): a tick turns one stretch into the next shorter
one. What travels was let through no longer ago than it has travelled (`TravelGranted`), and
what the exchange counted in the last ticks, with all that still travels, was let through
at most `MaxDelay` ticks earlier (`ArrivalsGranted`). The interval of the exchange and the
longest delay together are within the window, so the limit that held for the window holds at
the exchange.

### Left to TLC

Every liveness property (`FilledUpdateClosesOrder`, `ClosedOrderIsSettled`,
`SettledOnceDecided`, `WaitingEnds`, `TradesAgain`, `MessagesAreHandled`), since liveness
under fairness is beyond the prover.

## 7. Not modelled

- Of the modelled parts: `stop_network` and `start_network` of connectors except for order
  books, balances, trading rules, fees and prices, symbol maps, time synchronization, the
  intervals of the polls (a poll may run at any time), logging; the rows of the recorder
  other than the tracking states, except that a duplicate fill makes its transaction fail;
  and what section 3 names as left out.
- `NetworkIterator`, the clock, hanging orders and the paper trade exchange: candidates
  for later modules.
- The other strategies and connectors: most are formulas over prices, or variants of the
  connectors modelled here; the older connectors have order tracking of their own.
- The event bus is modelled as it is used: a triggered event reaches its listeners at
  once. The client, configuration, notifiers, rate oracle and the routes of the gateway are
  input, output and formatting. `PROJECT.json` gives the reason for each component.
