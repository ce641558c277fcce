# A verification project for TradingSystem

TLA+ models of the exchange and of the trading client in `src/`, the TLC
configurations that check them on small instances, and proofs that TLAPS checks
for every size: of the matching engine's order book and the abstract book it
implements, of the queue between threads, of the way from the engine to the
snapshot synthetizer, of order entry, and of recovery in the market data
consumer.

## The system

Two programs. The **exchange** takes orders over TCP, matches them and
publishes its books over UDP multicast. A **trading client** follows the
multicast, runs one algorithm and sends orders. Inside a program the
components are threads that hand records to one another through lock-free
single-producer, single-consumer queues; nothing else is shared.

```
 client                                      exchange
 TradeEngine --requests--> OrderGateway ==TCP==> OrderServer + FifoSequencer --requests--> MatchingEngine
      ^  ^ <--responses--       |       <==TCP==      |          <--responses--            (MEOrderBook)
      |                                                                                       | updates
      | MarketOrderBook                                                                       v
      +--updates-- MarketDataConsumer <==UDP, incremental== MarketDataPublisher <-------------+
                                      <==UDP, snapshots==== SnapshotSynthetizer <-- numbered updates
```

| Part | State | Operations | What makes it correct |
|---|---|---|---|
| MEOrderBook (`exchange/order_book.cpp`) | two pools of cells, a circular list of levels per side, a circular list of orders per level, price index, client index, next order id | `add` (match, then rest), `cancel` | lists, pools and indexes whole after every step; price-time priority; never crossed; every request ends |
| MemPool | cells with a free flag, `next_free_index` | `allocate`, `deallocate` | a cell handed out is free |
| MatchingEngine | the books, three queues | `processClientRequest`, `sendClientResponse`, `sendMarketUpdate` | answers and updates in the order of the events |
| MarketDataPublisher | next sequence number | number, send, pass to the synthetizer, flush | consecutive numbers, the same in both streams |
| SnapshotSynthetizer | order id -> last update, last sequence number | `addSnapShot`, `publishSnapShot` | its assertions hold; its picture is the book |
| MarketDataConsumer | next expected number, `packet_lost_`, queued snapshot and incremental messages | `recvCallbacks`, `startSnapshotSync`, `queueMessage`, `checkSnapshotSync` | what it passes on is the engine's book of some moment, never an older one; it recovers |
| MarketOrderBook (client) | as MEOrderBook without the client index; best bid and offer | `onMarketUpdate`, `updateBBO` | the exchange's book and priorities; a best price that is exact or unknown |
| spscQueue | ring buffer, two indexes, a count | `getNextWrite/updateNextWrite`, `getNextRead/updateNextRead` | every value once, in order, no race on a slot |
| Logger | a queue of strings, a thread, a flag | `pushVal`, `flushQueue`, `~Logger` | everything printed; the destructor returns |
| OrderServer, FifoSequencer | socket and two sequence numbers per client, pending requests | `recvCallbacks`, `sequenceAndPublish`, the response loop | each client's requests once and in order; an answer has a socket |
| TCPServer, TCPSocket | sockets, receive and send buffers | `poll`, `sendAndRecv`, `send` | no byte lost between reads |
| OrderGateway | two sequence numbers | `run`, `recvCallback` | responses once and in order |
| TradeEngine | the books, the algorithm's callbacks | `run`, `onOrderBookUpdate`, `onTradeUpdate`, `sendClientRequest` | feature before algorithm, both with the book as it is |
| FeatureEngine | market price, traded share of the best level; one pair for all instruments | `onOrderBookUpdate`, `onTradeUpdate` | a feature that is used belongs to the book it is used with |
| MarketMaker, LiquidityTaker | none | `onOrderBookUpdate`, `onTradeUpdate` | quotes around the market; follows what really traded |
| OrderManager, RiskManager | an order per side and instrument, next order id; limits | `moveOrders`, `newOrder`, `cancelOrder`, `onOrderUpdate`, `checkPreTradeRisk` | an order out for each price named |
| PositionKeeper | position, profit, volume per instrument | `addFill`, `updateBBO` | not modelled, see below |
| RandomTrader | its requests so far, next order id | `onTimer` | never an order id twice |
| `exchange_main`, `thread_utils.hpp` | the components, their threads and flags | start-up, `signal_handler`, destructors | no thread without its object; nothing processed is lost at the exit |

Hard in this system: the threads run at any relative speed, so an update is
looked at long after the state that caused it; one request of the engine is
many list operations during which other threads already see its first answers;
UDP loses, repeats and reorders; TCP cuts messages anywhere; client processes
restart; pools, indexes and queues have limits that the code meets with an
abort, an exception or not at all; start-up and shut-down are synchronised by
sleeping, and a signal may interrupt either. `PROJECT.json` lists each hazard at its line
with the properties that watch it.

## The modules

**MEOrderBook** is the core. A pointer is a cell number; a pool is a function
from cells to orders or levels, `NULL` when free; the link fields of the cells
are variables of their own. `NewOrder` is `add` up to the first test of the
matching loop, `Match` is one round of the loop with `match()` and, when the
resting order is used up, `removeOrder` and `removeOrderAtPrice`; `RestAtLevel`,
`RestOnEmptySide`, `StartSearch`, `SearchOn` and `RestInNewLevel` are the ways
of `AddOrderToPriceLevel` and `AddOrderAtPrice`, the last three being the search
around the list of levels one comparison at a time; `Cancel` and
`CancelRejected` are `cancel`. `Abort` is the process dying: `allocate` asserts
once no cell is left free *after* the one it hands out, so a pool of N cells
holds N - 1 objects, and `.at()` throws on an order id beyond the index.
`responses` and `updates` are what the last step wrote to the two queues. The
engine has one book per instrument; the books share nothing but the queues, so
one is modelled. Order and client ids count up as the clients of the repository
number them.

**LimitOrderBook** is what the engine promises: a set of resting orders, the
order being worked on, and the answers, with price-time priority stated as a
choice of the first eligible order. `PriceTimePriority` is that MEOrderBook
implements it, under the mapping from live cells to resting orders.

**BookFeed** EXTENDS MEOrderBook and composes it with the publisher and the
synthetizer: two FIFO queues of any delay up to `MaxLag`, `Publish` (one
iteration of the publisher's loop) and `addSnapShot`. The synthetizer keeps the
orders of all tickers in one pool (`update_pool_`), while each book has a pool of
its own: `OtherTicker` is the engine adding or removing an order of another
ticker (`OtherOrders`), of which only that it takes a cell of that pool matters.
`addSnapShotAborts` is the end of the process, when a market order id is beyond
the array (`.at()` throws) or the pool has no cell left behind the one it hands
out (`NoCell`).

**MarketDataRecovery** takes the streams over the network. The book is reduced
to the set of order ids (what happens inside it is the subject of the modules
above). `Number`, `Flush`, `Synthetize` and `PublishSnapshot` are the exchange's
two threads; `SnapshotMessage` is the n-th message of a snapshot and
`SnapshotDatagrams` cuts the snapshot into the datagrams that `publishSnapShot`
sends; the network loses, repeats and reorders the datagrams of both streams
(`LoseIncremental`, `ReceiveIncremental`, `LoseSnapshot`, `DisorderSnapshot`), up to
`MaxFaults` and `MaxSnapshotFaults` of them. A snapshot begins a minute after the
one before it, and all of that has arrived or is lost by then: datagrams of two
snapshots do not overtake one another. `disordered` remembers that a snapshot
datagram has been repeated or has overtaken another. `HandleMessage` is one iteration of
`recvCallbacks`, with `startSnapshotSync`, `queueMessage` and
`checkSnapshotSync` as functions from the consumer's state to its state. The
snapshot socket is open only in recovery.

**SPSCQueue** is the ring buffer at the grain of its atomic accesses, under its
two usages: use the value and then release the slot (the logger and most
readers), or release it and then use it (the publisher); and the logger's
writer, reader and destructor. The logger's writer fills the queue to its last
slot, as `pushVal` does; the other writers do not look and go on writing however
far ahead they are. `overrun` remembers that one of them has begun a write which
leaves no slot free (`TooFarAhead`). The model is sequentially consistent, as the
default order of `std::atomic` makes the code.

**OrderEntry** is the TCP path. A message is two units, a read returns any
non-empty prefix of the stream, so reads end inside messages. `Poll`,
`ReadSocket`, `SequenceAndPublish`, `SendResponse`, `NextRound` are the steps of
the server's thread; `SendRequest` and `GatewaySendAndRecv` those of a gateway;
`Restart` a client that dies and comes back with a new connection; the matching
engine answers the sender and possibly a second client. `Sorted` is all that
`std::sort` promises: any order that agrees with the times, and the original
one among equal times only up to `SortThreshold` elements. Requests are those of
`RandomTrader::onTimer` (`RandomRequests`), by turns a new order and the cancel
of an earlier one, with ids that a restarted process begins again. `Send` is
`::send`, refused as a whole or not at all; its buffer is reset either way.

**ClientOrderBook** is the participant's book fed by a stream that has no gaps,
with late joins and recoveries: `onMarketUpdate` for orders and trades, `Clear`
for CLEAR. The stream is what the exchange's matching sends: `NewOrder`, `Match`
and `Rest` are `add` with the loop of `checkForMatch`, an order that trades in part
and then rests included, and its ADD carries the quantity asked for
(`order_book.cpp:41`). An order of the exchange therefore has two quantities, `qty_`
as the updates have announced it and `left_`, what really rests. The lists and
pools behind the exchange's book are those of MEOrderBook and are left out here.

**TradeEngine** EXTENDS ClientOrderBook with what follows an update in the same
iteration of `run`: `HandleUpdate` is the book's handler, the FeatureEngine
(`MktPrice`, `AggTradeQtyRatio`) and the algorithm (`Make`, `Take`), which ends in
`moveOrders`. After a CLEAR too: feature and algorithm are then called with the BBO
as it was, since `updateBBO` is told that neither side was touched
(`market_order_book.cpp:79`). `OtherTicker` is an iteration for another instrument, which writes
the features. Features are exact fractions. `moved` keeps the prices that the
last step named.

**ExchangeMain** is the exchange's process. The main thread works off a script
of operations; `Signal` puts `signal_handler` in its place at any moment, during
the start of a thread too. `CreateThread` and `Return` are the two ends of
`createAndStartThread`: only after the second is the thread joinable. The loops
are those of the other modules, reduced to how much is in each queue and buffer.
A sleep is two operations of the script: `FallAsleep` sets every thread's count of
rounds to zero, and the next is not taken before every thread that exists has gone
`SleepRounds` times round its loop or has ended (`WakeUp`). `CloseLogger` is the
handler's first act, the deletion of main's logger. A thread that logs may wait in
`pushVal` for ever, and a logger's destructor with it, when the logger's queue is
exactly full (SPSCQueue shows it): `Stall` lets any thread stop for good anywhere in
its loop, `StallMain` the main thread wherever it logs or a logger is destroyed.
A stalled main thread still takes the signal.

**MC...** modules and their `.cfg` files are the instances for TLC.

The proofs are in modules of their own: **MEOrderBookProofs** (the
engine's invariant, after one lemma per list operation, and the refinement of the
abstract book); **BookFeedProofs**, which builds
on it; **SPSCQueueProofs**; **OrderEntryProofs**; **MarketDataProofs**;
**TradeEngineProofs** (the participant's book and the algorithms on it);
**ExchangeMainProofs**; and
**FoldLemmas**, what `FoldLeft` computes, which the modules on the feed, order entry,
recovery and the participant instantiate with their loop bodies.

## What the runs check

| Run | Shows |
|---|---|
| `book` | `TypeOK`, `EngineInv` (the inductive invariant, below), `FifoInv`, `NotCrossed` at every step of every request; `PriceTimePriority`, the refinement; `RequestsEnd`, termination of matching and search |
| `book_feed` | whatever the delays, the synthetizer's assertions hold (`AssertsHold`), its picture and what is on the way make up the book (`PictureIsBook`), whatever other tickers do, never with too few shares (`NoSharesHidden`); the client index stays exact while ids run out (`ClientIndexInv`); all of it from `FeedInv`, the inductive invariant |
| `market_data` | in step means having exactly the engine's book of some moment (`InStep`), never an older one than already shown unless the network reorders (`NoRollback`); again and again it is in step, and without reordering with every update it has heard of in its book (`CatchesUp`), with a snapshot datagram lost, repeated or out of order; `TypeOK` and the inductive invariant `RecoveryInv` |
| `queue` | every value handed over once and in order (`InOrder`), no slot written while it is read (`NoRace`), both until a writer that does not look is too far ahead; everything printed when the destructor returns (`FlushedOnClose`); it returns unless the queue has become exactly full (`Closes`); `TypeOK` and the inductive invariant `QueueInv` |
| `order_entry` | each client's requests reach the engine once and in order (`ClientOrder`), no order id twice and no cancel of an unknown order (`IdsAreFresh`), every answer has a socket (`ServerLives`), responses stay in order (`ResponsesInOrder`), no request stays behind (`RequestsArrive`); the inductive invariants `EntryInv` and `OrderInv` |
| `trade_engine` | the participant's book has the levels and priorities of the exchange's and the quantities announced, never fewer than rest (`BookIsExchange`), its best prices are exact or unknown (`BBOExactOrUnknown`), a maker's prices follow from the market announced (`QuotesAroundMarket`), a taker follows only a trade that took its share of a level (`TakesWhatTraded`) |
| `programs` | no thread runs in an object that is gone (`ObjectsOutliveThreads`) or reads arguments that are (`ArgumentsOutliveStart`); at the exit no answer or update of a processed request is left behind (`NothingProcessedIsLost`), and the exit comes (`Exits`); all but the second with the exception of threads that wait in their logger for ever; the inductive invariant `MainInv` |

Five runs end in a violation and record a disagreement between the code and what
its documentation says (`findings` in `PROJECT.json` quotes the lines):

| Run | What TLC finds |
|---|---|
| `feed_quantity` | the ADD update of a partly filled order carries the quantity asked for, `order_book.cpp:41` |
| `market_data_mixed` | halves of two snapshots are taken for one, `market_data_consumer.cpp:149` |
| `gateway_partial` | after a read that ends inside a response, responses are lost, `order_gateway.cpp:68` |
| `client_book_clear` | CLEAR leaves pointers to freed levels, `market_order_book.cpp:63` |
| `maker_quotes` | an algorithm names prices and no order goes out, `order_manager.cpp:54` |

More limits of the code show in how properties are stated, or in steps after which
nothing happens.

- Two prices in use that are equal modulo the size of the price index get one
  level (`order_book.hpp:43`): `NoAlias` is a hypothesis of the theorems about the two
  books, and the runs' prices satisfy it.
- A queue filled to its last slot looks empty for good (`logger.hpp:66`,
  `spsc_queue.hpp:40`): the second way out of `Closes`, and the `stalled` threads that
  the properties of `programs` leave out.
- A queue whose writer does not look is in order and free of races only until
  `overrun`. Beyond that, the writer goes over what has not been read, and nothing in the
  code keeps it from getting there.
- Beyond 16 requests in one round `std::sort` may swap those of equal time, and one
  client's requests of a round have one time (`fifo_sequencer.hpp:19`): `ClientOrder`
  is a theorem of behaviours that stay within them (`SortIsStable`), as the run does.
- A late duplicate of an old datagram sends a consumer that is in step into
  recovery (`market_data_consumer.cpp:78`), where a snapshot begun earlier takes
  it back to an older book: `NoRollback` and `CatchesUp` leave out runs with
  reordering of the incremental stream.
- After a CLEAR that frees levels a maker names prices around a market that is
  gone (`market_order_book.cpp:79`): `QuotesAroundMarket` ends there, as the model of
  the book does.
- A market order id beyond the synthetizer's array, orders of several tickers that use
  up its one pool, the last cell of a book's pool, or the 1025th request of a round end
  the exchange's process: in the models they are steps (`addSnapShotAborts`,
  `Abort`, a read beyond `MAX_PENDING_REQUESTS`), and no property excludes them. One ticker alone meets the
  end of its ids before the end of the synthetizer's pool.

### Bounds, and why they are enough

- `book`: one client, three prices, quantities 1 and 2, pools of four, four
  orders. Three levels on one side is the smallest list with a middle, the case
  the search and the unlinking treat apart; three orders on one level the same
  for orders; quantities 1 and 2 give partial fills on both sides of a trade.
  A pool of four hands out three cells, so a fourth resting order aborts the
  process, in the run as in the code. Nothing in the book compares clients:
  one is enough for the lists, and the proofs below hold for any set of them.
- `book_feed`: one client, two prices, quantities 1 and 3 and four orders with
  pools of three, so that pools and ids do run out; an order can trade twice
  before it rests. One order of another ticker, which comes and goes, is enough to
  take the synthetizer's last cell. `MaxLag` 2 with up to two updates per step lets four updates
  be under way, enough for a cancel and a new order to overtake nothing but be
  seen late.
- `market_data`: three updates, two faults of the incremental stream and one of
  the snapshot stream (a datagram lost, repeated or received before its turn): a
  second gap during recovery, and a snapshot that must be thrown away. The second
  lost snapshot datagram is what the run `market_data_mixed` needs.
- `queue`: four slots and nine writes, so the indexes wrap around
  twice, and a writer can be more than a round ahead.
- `order_entry`: two clients, three requests, one fault (a restart or a refused
  send), one extra fill, two possible times, `MAX_PENDING_REQUESTS` 2 so that the
  sequencer's limit is met. `SortThreshold` is 16, the length up to which
  libstdc++ sorts by insertion.
- `trade_engine`: either algorithm, two prices, two quantities, five orders, one
  recovery. A side's best price becomes known with the second update that touches
  it, so that two orders on either side and one that trades are the fewest with which a
  taker acts. A level of two orders, two levels on a side, a partial fill of a level, an
  order that trades and then rests and an empty side all occur. The threshold 0.7 is met
  and missed by the fractions these quantities give. `maker_quotes`, which stops
  at the first violation, has three prices and four orders.
  `CHECK_DEADLOCK FALSE` because trading may end, and because the model stops
  where freed cells are in use.
- `programs`: one request and `SleepRounds` 2, the least for which nothing
  processed is lost: a response that the engine makes in the last moment needs
  one round of the server to get into a send buffer and the next to leave it.
  A second or more of sleep against loops that poll without waiting makes two
  rounds a modest demand. `CHECK_DEADLOCK FALSE` because the process exits.

### Fairness

Only what the threads' loops give: the engine never blocks inside `add`
(`WF(Add)`); each of the queue's threads runs on, polling when it waits; the
publisher, synthetizer and consumer go round their loops, the snapshot timer
fires again and again, and a datagram that is not lost arrives; gateways, server
and engine go round theirs; the operating system runs every thread of the
exchange's process. No fairness makes a client send, the engine produce
an update, a signal come, or a fault happen. A thread that has stalled takes no
step, so fairness asks none of it; `Exits` therefore says that the exit comes or
some thread has stalled. The runs' faults are bounded, so "recovers" means
once the network behaves for long enough.

## What is proved

Every theorem below is for all values of the constants that its module's
assumptions allow; TLC evaluates those assumptions in the runs. Besides types and
sizes they say only that `NULL` is not a value of the type it stands beside
(`NullAssumption`, `NullRecords`, `NullUpdate`, `NullEntry`, `NullMarketOrder`,
`NullFraction`).

### The order book

`MEOrderBookProofs` proves, for all sets of clients, prices and quantities, all
pool sizes and any number of orders:

- `EngineInvariant`: `Spec => []EngineInv`
- `TypeCorrect`: `Spec => []TypeOK`
- `NeverCrossed`: `Spec => []NotCrossed`
- `FirstInFirstOut`: `Spec => []FifoInv`
- `CancelFindsOrder`: `Spec => []ClientIndexInv`

under the assumptions on the constants named in `MEOrderBook` and one that the
code makes without checking it, `NoAlias`: no two prices in use are equal modulo
`ME_MAX_PRICE_LEVELS`. Bids and asks share that index, so without it the book's
structure does break.

The inductive invariant `EngineInv` is the conjunction of types, of the
structure of the book (`BookInv`), of the freshness of the incoming order
(`IncomingInv`) and of where the search stands (`SearchInv`). None of the
interesting parts is inductive alone. That the book is not crossed after an
order rests needs that the matching loop looked at the best level of the other
side (`BestInv`), which needs the list of levels to be sorted from its head
(`SortedInv`), which the search for a new level's place preserves only because
everything it has passed is better (`SearchInv`) and because links agree both
ways (`LevelRingInv`); the price index must be exact (`PriceIndexInv`) or a
second level of the same price would be opened; and unlinking an order or a
level is right only because "its own neighbour" means "the only one"
(`AloneAtPrice`, `AloneOnSide`), which rests on order ids being unique
(`OrderIdInv`) and the lists being in order of arrival (`FifoInv`). Lists are
described by local conditions on neighbours and the order of their keys, never
by reachability, so no induction over a list is needed: where a list must be
known as a whole (`NothingReaches`, `AloneOnSide`), the best level is compared
with every other level directly. The proof has one lemma per list operation (`RemoveOrder`,
`AppendOrder`, `OpenLevelEffect`, `FirstLevel`, `InsertLevel`, ...), then one per
step of the engine.

`MEOrderBookProofs` also proves `ImplementsPriceTimePriority`: under `NoAlias`,
`Spec => PriceTimePriority`. Initial states map to the empty abstract book and
every step to an acceptance, a fill, a cancel or a rejection of `LimitOrderBook`,
or to a stutter (the search for a level's place, the abort). The step that
matters is `Match`: that the head of the best level is the *first* eligible order
of the abstract book is `BestInv`, `SortedInv` and `FifoInv` together. It speaks of
the safety part; that requests end is `RequestsEnd`, which TLC checks.

### The way to the synthetizer

`BookFeedProofs` proves, under `NoAlias` and for every lag:

- `FeedInvariant`: `FeedSpec => []FeedInv`
- `SynthetizerAsserts`, `PictureOfTheBook`, `EveryShareShown`: the same for
  `AssertsHold`, `PictureIsBook` and `NoSharesHidden`

for any set of orders of other tickers. `AssertsHold` is about the `ASSERT`s of
`addSnapShot`. That its pool has a cell is no part of it: the orders of several tickers
can use up that pool while each book has room, and a step that meets it empty ends the
process.

That the picture plus everything under way gives the book is not inductive
alone: each update must also *fit* the picture that it will meet when its turn
comes (`AllFit`: an ADD an empty place, a MODIFY or CANCEL a filled one), which
is what `addSnapShot` asserts. A step of the engine appends updates that fit the
caught-up picture because that picture is the engine's book with the orders of
the other tickers, which keep to places of their own (`OthersAssumption`), and its ids
are unique; a step of the synthetizer moves one update from the queue into the
picture and leaves the result of all of them alone. All this is as long as no
order id under way is beyond the picture's array (`CanCatchUp`). `FeedInv` holds also after
`addSnapShot` has ended the process, when the engine may stand anywhere in a
request.

### The queue

`SPSCQueueProofs` proves, for every capacity and any number of values:

- `QueueInvariant`: `Spec => []QueueInv`
- `CountInRange`, `ReadInOrder`, `RaceFree`, `NothingUnflushed`: the same for
  `TypeOK`, `InOrder`, `NoRace` and `FlushedOnClose`

from `CapacityAssumption` alone. `InOrder` and `NoRace` hold of the logger's queue
always and of the publisher's until `overrun`, the moment at which the engine begins a
write that leaves no slot free; `RaceFree` also says that only the queue whose writer does
not look ever gets there. Nothing in the code keeps it from that. The
invariant counts the positions of the two
threads without end and has the indexes as these modulo the capacity
(`PositionsInv`); between `getNextRead`'s tests and the release, what the reader
saw still holds (`ReaderInv`); the writer is less than one round ahead of what
has been released, and every slot in between holds its value (`ContentsInv`).
`NoRace` follows since two positions less than a round apart have different
slots.

### Order entry

`OrderEntryProofs` proves, for every number of clients, requests, restarts and
refused sends and every limit of the sequencer:

- `EntryInvariant`: `Spec => []EntryInv`
- `ServerNeverStops`: `Spec => []ServerLives`
- `ResponsesComeInOrder`: `Spec => []ResponsesInOrder`
- `OrderInvariant`: `Spec /\ []SortIsStable => []OrderInv`
- `RequestsComeInOrder`: `Spec /\ []SortIsStable => []ClientOrder`
- `OrderIdsAreFresh`: `Spec /\ []SortIsStable => []IdsAreFresh`

`EntryInv` is in four parts: what a server's buffer holds and what is still in the
connection make one stream of whole requests, cut at most where a client died
(`UpInv`); every accepted request is of the run of the client whose socket is in
the table (`ServerInv`); the responses that wait are each client's next ones, in
order (`AnswersInv`); so are those on their way down, whatever the gateway loses
when a read ends inside one (`DownInv`). `OrderInv` adds, for the requests, that
those of a round are in order of number within a client and come after all
that went before, and `SequencerInv` that one client's requests of a round share
the time of its one read, so that only what `std::sort` does with equal
times decides about their order. `SortIsStable`, that no round brings more
requests than `std::sort` keeps in order, is no fact about the code, which
admits 1024: beyond 16 the order is the library's choice, and the hypothesis is
there because without it the statement is false.

### Recovery

`MarketDataProofs` proves, for every number of updates and of faults:

- `RecoveryInvariant`: `Spec /\ SnapshotsApart => []RecoveryInv`
- `NumbersInRange`, `ConsumerInStep`, `NeverRollsBack`:
  `Spec /\ SnapshotsApart => [](disordered \/ P)` for `TypeOK`, `InStep` and `NoRollback`
- `RecoveryInvariantOneLoss`, `InStepOneLoss`: all of these for
  `Spec` alone when `MaxSnapshotFaults <= 1`, as in the run

`SnapshotsApart` says that the datagram with the beginning of a snapshot is never lost
while the consumer has queued, or is handling, the beginning of another that it
has not the end of. It is what the finding `market_data_mixed` needs to fail:
the consumer tells two snapshots apart only by the number 0 that begins each,
so that without the hypothesis `InStep` is false. Every other loss is allowed, and
every repetition and overtaking on the incremental stream. The theorems hold until a
snapshot datagram is repeated or overtaken (`disordered`); what one such fault does
is checked by TLC only.

`RecoveryInv` is `SyncInv` until then. `SyncInv` says that what is queued, what is being handled and what is still to be
sent are consecutive parts of *one* snapshot (`Queued`, `HandlingOf`, `GoesOn`),
or that the numbers show the gap, so that `checkSnapshotSync` throws the queue
away (`Broken`). A complete snapshot is then the engine's book after some number
of updates, the queued incremental messages are the log's, and applying them
gives a later book of the engine. For `NoRollback` the invariant says from which
number on a snapshot is recent enough (`Floor`): an older one cannot be joined to
the incremental messages that wait.

### The participant

`TradeEngineProofs` proves, for all prices, quantities, order-id limits, thresholds,
clips and numbers of recoveries:

- `TradeEngineInvariant`: `EngineSpec => []TradeEngineInv`
- `BookIsTheExchanges`, `BBOIsExact`: the same for `BookIsExchange` and
  `BBOExactOrUnknown`
- `QuotesFollowMarket`, `TakerFollowsTrade`: the same for `QuotesAroundMarket` and
  `TakesWhatTraded`

under `NoAlias`, which the participant's book needs as much as the exchange's, whose
price index it repeats: `AddOrder` puts an order on the level that the index gives,
without a look at that level's price.

`BookIsExchange` speaks of the moments when nothing is under way, up to a CLEAR that
finds levels to free. The quantities in it are the ones announced, which are more
than what is left of an order that traded before it rested, until its next fill. The
invariant
covers the ones between (`OnTheWay`): a snapshot from its CLEAR on, what is left of a
replay while the book has the orders before it, an ADD, a MODIFY or CANCEL of an
order that the book has, or a TRADE with the update that follows it. Each takes
the book to the exchange's orders (`Holds`). A book is sound
(`BookOK`) if every order is in the level that the index gives for its price and
every level has orders, of its side and price only, in ascending order of
their ids. That ids ascend makes priority a matter of the ids: the lists, whose links
`removeOrder` mends, need no argument about reachability.

`BBOExactOrUnknown` rests on one lemma, `BBOAfter`: an update that does not touch a
side, in the sense of `updateBBO`'s conditions, changes neither that side's best
level nor its quantity, since only the level at the update's price differs
(`Differs`). For `QuotesAroundMarket` the quantity that the participant adds up along a
level must be what the exchange has announced at that price; the same orders in another
numbering have the same sum (`SameTotal`), by the lemmas on folds. A TRADE comes before
the update that takes it from its order, so that `TakesWhatTraded` compares it
with a level that still has that quantity (`TradesOn`).

### Start and end

`ExchangeMainProofs` proves, for any number of requests and any point at which
the signal comes, the start of a thread included:

- `MainInvariant`: `Spec => []MainInv`
- `ThreadsEndInTime`, `ArgumentsAreThere`, `AllIsSent`: the same for
  `ObjectsOutliveThreads`, `ArgumentsOutliveStart` and `NothingProcessedIsLost`,

whatever threads stall in a logger on the way, and all of them if `SleepRounds >=
2`. With one round the first and the last are false, as TLC shows: a thread that
has tested its flag before it was cleared is still in its loop's body when the
object goes, and what the engine has answered in the last moment is in a send
buffer that nobody flushes.

`MainInv` names the operation that the main thread is at, of the start
(`StartingAt`) or of the handler with the destructors it has gone into
(`HandlingAt`), and gives for each which objects exist and which threads run,
are joinable, or have been asked to stop. What a sleep achieves depends on how far each loop has come since
it began (`rounds`), in the body or at the test (`at`): a thread whose flag is cleared
has at most the round it is in before it (`ThreadAt`), and once the engine has ended, two rounds of the server and
the publisher empty queues and buffers, each of them one stage per round
(`DrainAt`). A thread in whose creation the signal fell is never joined; that it
has ended before its object is deleted rests on the destructor's sleep alone. A stalled
thread is exempt from what a sleep achieves, so one that is not joinable may be left
behind in an object that is deleted, and what it should have sent may be lost: the two
properties that depend on a sleep say so.
The program is a fixed script: what is left of it at each operation is computed once, by
lemmas without a state (`StartupIsOps`, `HandlingDoes`), and a step then goes
from one operation to the next.

### Loops as folds

The loops over the messages of a buffer are `FoldLeft`, which the library
defines through a fold over sets of positions. `FoldLemmas` shows, for any loop body, that
a fold is that of the rest from the first message's result, and that one more
message is one more application. Induction over data is out of the prover's
reach here; the lemmas get by with a smallest counterexample, which the library's
well-founded orders give without an operator parameter.

### Only model-checked

- Liveness, which TLAPS cannot prove here: `RequestsEnd`, `CatchesUp`, `Closes`,
  `RequestsArrive`, `Exits`.
- The five runs that end in a violation: a counterexample is their result.
- `TypeOK`, `InStep` and `NoRollback` of recovery after a snapshot datagram has been
  repeated or overtaken.

Otherwise every invariant and every safety property of the passing runs is a theorem.
The inductive invariant of the participant, `TradeEngineInv`, is proved and in no run,
whose time it would double.

## What is not modelled, and why

- `OrderManager::onOrderUpdate`, and risk checks with a position: no state of
  the program reaches them, as `moveOrder` (`order_manager.cpp:54`) ignores an
  order in its initial state (run `maker_quotes`). Were that mended, two more
  places would matter: LiquidityTaker names `Price_INVALID` for the other side
  (`liquidity_taker.hpp:35`), which `moveOrder` would send as a price, and
  `checkPreTradeRisk` refuses every order while the profit is below `max_loss_`
  (`risk_manager.hpp:37`), which a positive limit is from the start.
- PositionKeeper: profit in floating point, only printed. `addFill`
  (`position_keeper.hpp:38`) assigns position and volume where it should add up.
- Floating point of the features: they are exact fractions, and the threshold of
  the run is one that none of them equals.
- `trading_main`: it ends after 60 seconds of silence, a matter of clocks.
- Datagrams of two snapshots, sent a minute apart, that overtake one another.
- The orders of other tickers except for their cells in the synthetizer's pool, and
  a second participant.
- A second SIGINT while the first is handled.
- Partial `send` calls, socket errors, disconnections. The code ignores the
  results of these calls; a refused one is modelled.
- Uninitialised arrays (`oid_to_order_` of the client's book and others) are
  taken as zero, which fresh pages are.
- Use of freed cells after a client-side CLEAR is not followed; the model stops.
- Clocks, affinity, formatting, measurements.

## Plan

1. *(done)* MEOrderBook, LimitOrderBook, BookFeed, MarketDataRecovery,
   SPSCQueue, OrderEntry, ClientOrderBook with their runs; the invariant of the
   order book proved.
2. *(done)* TradeEngine with the algorithms, features and order management;
   ExchangeMain; restarts, refused sends and order ids in OrderEntry; recovery
   with respect to what was heard.
3. *(done)* Proofs: MEOrderBook implements LimitOrderBook; the queue for every
   capacity; the synthetizer's picture for every lag; order entry for every
   number of clients; recovery for every number of updates and faults; the
   exchange's start and end for every moment of the signal; the participant's
   book and the algorithms on it.

Abstract specifications worth adding: a FIFO channel that SPSCQueue implements,
and a sequence of books, one per update, that a consumer samples in order.

## Running it

`tlc -config MCBook.cfg MCBook` and so on for each pair in `PROJECT.json`;
`tlapm` on each of `MEOrderBookProofs.tla`, `BookFeedProofs.tla`,
`SPSCQueueProofs.tla`, `OrderEntryProofs.tla`, `MarketDataProofs.tla`,
`TradeEngineProofs.tla`, `ExchangeMainProofs.tla` and `FoldLemmas.tla` for the proofs.
The definitions named `X_Something` directly above a definition `X` are mutants
of it: replacing `X` by the mutant must break the property that `PROJECT.json`
names, which shows that the property depends on that code.
