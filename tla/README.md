# fix_handler: a verification project

fix_handler connects trading strategies to exchanges. It receives market data
(CME MDP 3.0 over UDP, CTP, Femas and REM through vendor libraries), builds
order books from it, and sends orders (CME iLink through QuickFIX, CTP, Femas,
REM). A simulator (`tmalpha`) stands in for an exchange.

The modules here model first the part with the most state, the most threads and
the least tests: the CME market data channel, from the two UDP lines to the
books that the strategies see; then the order gateways of CTP, CME and Femas; then
the two simulators, the one that matches orders against replayed market data and
the one that matches them with each other. Sources are named relative to
`src/src/` of the repository; `introduce.md` is its design document.

## 1. The system

### Components

| Component | State | Operations | Talks to |
|---|---|---|---|
| Arbitration `cme/market/dat_arbitrator.cc`, `dat_processor.cc` | highest sequence, set of lost sequences (one mutex) | check a feed packet, check a replay packet, start a replay | called by the feed thread and by one detached thread per gap; inserts into CmeData |
| Increment store `cme/market/cme_data.cc` | ordered multiset of messages, unreceived sequences, last sequence, stop flag; a mutex and a condition variable | insert, pick, remove, first sequence, stop | receiving threads insert, the saver thread takes |
| TCP replay `dat_replayer.cc`, `core/tcp/tcp_receiver.cc` | one connection per gap | log on, request a range, split the answer, end | calls DatProcessor from its own thread |
| Saver thread `dat_saver.cc` | first recovery sequence | wait for the first packet, wait for the recovery data, then pick, convert, remove | CmeData, RecoverySaver, BookManager |
| Recovery and definition loops `recovery_saver.cc` | last packet, number of messages to come, the messages | one per packet | UDP thread writes, saver thread reads without a lock; calls MarketManager at the end |
| Book states `book_state_controller.cc` | bid and ask rows and the depth of every instrument | new, change, delete, delete all, delete top, reset, create, shrink | BookManager |
| Book manager `book_manager.cc`, `definition_manager.cc`, `recovery_manager.cc` | instruments, snapshot entries still to merge | definitions, snapshots, increments; best price and book out | saver thread only; MarketListenerI |
| Channel manager `market_manager.cc`, `cme_market.cc`, `core/udp/udp_receiver.cc` | threads, receivers, signals | start, definition end, recovery end, stop, exit of a thread by signal | owns all of the above |
| CME order gateway `cme/exchange/` | last sequence received, orders that Start waits for; QuickFIX keeps the session | orders, changes, cancels, queries, all the reports, the range of a resend request | QuickFIX, strategies |
| CTP, Femas, REM order gateways `ctp/exchange`, `femas/exchange`, `rem/exchange` | order index, order references, command queue, start-up queries | order, cancel, query, all the answers of the vendor library | vendor threads, command thread, strategies |
| Trade simulator `tmalpha/trade` | order box (both sides, filled, cancelled), the market made of it | add, change, delete, query, match | strategies |
| Exchange simulator `tmalpha/exchange`, and its near copy in `tmalpha/replay` | working, filled and cancelled orders, last state of each contract | add, change, delete, query, rematch on every L2 | strategies, market simulator |
| Market simulator `tmalpha/market`, and its near copy in `tmalpha/replay` | buffer between a reader and a replayer thread | read, replay, stop | the database, the exchange simulator |
| Strategy communicator `core/strategy/strategy_communicator.cc` | none | check a request, pass it to the exchange or refuse it, pass on what the exchange tells | between the strategies and every order gateway and simulator |
| CTP, Femas, REM market data; books, transport, persistence, settings, tools | none that is shared | convert and send | |

### What is hard here

- A packet passes two gates under two different mutexes (arbitrator, then
  CmeData), in the feed thread and in any number of replay threads at once.
- Datagrams are lost, repeated and reordered between two lines; a replay answer
  may leave packets out, end early or fail; nothing is requested twice.
- The saver tests and sleeps; the inserting threads notify after they released
  the mutex; the stop flag is not under the mutex at all.
- Snapshots are not of one moment. Books are right only if each increment is
  applied to exactly the books whose snapshot does not hold it.
- The recovery data are polled without a lock while another thread fills them.
- Threads are ended by a signal whose handler calls `pthread_exit`, some of them
  by themselves.

What must be true, per component:

- arbitration and store: nothing is forgotten, nothing taken twice, no wakeup
  lost, and the books get one ordered stream from the join point on;
- loops: the set collected has every message once and in order; no increment is
  dropped that a snapshot lacks; a loop that arrives completes the set;
- books: no deeper than defined, equal to what the exchange shows, and the
  strategies know the best price;
- channel manager: every phase is reached, a stop ends all threads once;
- order gateways: an order reference belongs to one order, an answer reaches the
  order it is about, the state a strategy is told follows the exchange's;
- simulators: quantities add up, no order is filled after it is gone, the reader
  and the replayer both end.

`PROJECT.json` lists the hazards line by line.

## 2. Modules

```
DatArbitrator <- CmeData <- IncrementFeed <- MCIncrementFeed
                            |  implements OrderedStream
                            +- IncrementFeedProof
BookStateController <- BookManager <- MarketBooks <- MCMarketBooks
                                                  +- MarketBooksProof
RecoverySaver <- RecoveryFeed <- MCRecoveryFeed
                              +- ChannelProof
MarketManager <- ChannelProof
CtpTrader <- CtpGateway
                 +- CtpGatewayProof
GlobexSession <- GlobexGateway <- GatewayProof
FemasGateway <- MCFemasGateway
             +- GatewayProof
OrderMatcher <- ReplaySimulater <- MCReplaySimulater
                                +- ReplaySimulaterProof
TradeMarket <- TradeSimulater <- MCTradeSimulater
                              +- TradeSimulaterProof
Containers <- OrderMatcher, TradeSimulater, CtpGateway
           +- ContainerProof <- MarketBooksProof, CtpGatewayProof and the
                                proofs of the simulators
```

ChannelProof and GatewayProof hold the theorems of two components each, which
share nothing but the module: the one about the recovery feed and the threads of
a channel, the other about two order gateways. A module cannot extend two that
declare the same name, which is why MarketManager and FemasGateway have
`ManagerInit`, `ManagerNext`, `FemasSpec` and the like.

`Containers` has what several modules need of lists: what `std::list::erase` in a
loop leaves behind, and a sum over a list. Both are recursive functions, as
proofs can speak about those.

The first three stacks are separate because each one's result is the next one's
assumption: IncrementFeed shows that the saver gets every message once and in
order, and MarketBooks takes its input so; RecoveryFeed shows that the snapshots
are complete, each there once, in the order of the loop, with the oldest one
first, and MarketBooks collects them so. MarketManager starts and stops the
threads that these are about.

### IncrementFeed (DatArbitrator, CmeData)

A program counter per thread. The feed thread goes through receive (the
arbitrator's mutex), insert (CmeData's mutex), notify, start of a replay or stop
of the channel; a replay thread, named by the first sequence of its gap, through
receive, insert, notify; the saver through all the places at which
`Start_save` can be interrupted by another thread. A place where the saver holds
the mutex between its test and its sleep is a state of its own (`first_wait`,
`pick_wait`), in which nobody inserts.

The network is a number of datagrams per packet (`copies`, one for each line);
any of them may be delivered next, or never. `m_increment_datas` is a count of
messages per sequence, since messages are told apart by it and their place in
the packet. `SaverRecovery` is the whole of `Process_recovery_data`, of which
this module only needs the sequence it yields. When the channel has no TCP line
the first gap stops it, and so does a replay that fails: the flag is set and the
saver is notified in two steps. The signals that the stop sends afterwards
belong to the channel manager and are left out: a thread here may stop taking
steps at any moment, which is all that they add to the safety properties.

`OrderedStream` is the promise of the pipeline in two actions: join somewhere,
then handle the next message. `StreamSpec` is the refinement, with the stream's
`first` and `handled` mapped to the history variables `start` and `parsed`.

### MarketBooks (BookManager, BookStateController)

`BookManager` is the state of the saver thread with one action per call and one
per iteration of the loops in them: `work` holds the iterations that are left.
`MarketBooks` puts an exchange next to it: full books of which the best
`depth` rows are published, in packets, as entries of any of the five actions,
trades, channel resets and definitions. The program connects at any moment,
receives the definitions as of then, then a snapshot of each instrument, each at
a later moment of its own, and loads them at any time while increments queue up.

A row is identified by the number of the event that made it, which stands for
number of orders, quantity and price together.

What the exchange is assumed to do, which the code relies on:

- a definition that makes a book deeper does not reveal rows at once (how they
  would be sent cannot be seen in this code);
- a deleted instrument does not come back;
- the definitions are of the moment the increment feed was opened. A definition
  that arrives between the definition loop and the first snapshot is dropped by
  `Convert_message` together with the increments (`dat_saver.cc:141`);
- `changed` and `right_from` say from when on a book is required to be right. An
  instrument redefined, or a channel reset, while snapshots are being collected
  is excepted (`Never`): a reset that is handled before the snapshot's sequence
  empties a book which the snapshot had filled, as `Remove_past_books` filters
  by instrument and a reset has none, and a definition in that window is
  applied to a book that has been loaded with a later depth.

### RecoveryFeed (RecoverySaver)

Packets are named by their position in the endless repetition of the loop. Both
feeds advance by one position at a time, deliver or lose it, and are at most
`MaxApart` apart. The saver thread polls: it may take the vector as soon as it
is not empty, and reads its first element a second time afterwards. The vector
is copied in one step; in the code the copy itself races with the receiving
thread, which has no defined outcome. The set of instruments does not change
from loop to loop.

Three things that the model brought to light and that the properties are phrased
around: the first packet of a loop that comes again on the slower feed throws
away what was saved, so a feed two packets behind can keep the set from
completing loop after loop (hence `apart <= 1` in `WholeLoopCompletes`); a set
may be made of two loops when the end of one and the start of the next are lost;
and with a feed a whole loop behind, the first message of the set need not be
the oldest (hence `apart < Packets` in `NothingDroppedTooMuch`).

### MarketManager

The threads of a channel and who ends them. `ManagerStart` and `ManagerStop`
(`MarketManager::Start` and `Stop`), `On_definition_end` and `On_recovery_end`
are the lists of calls that these functions make, and they are run one step at a time by the
thread that calls them: the main thread, a receiving thread, or a replay thread.
A call that stops a thread has three steps: close its sockets (or set the
saver's flag), signal, join. A thread that signals itself is gone at the second
one, with its remaining calls. An exception ends the program: that of a second
`Stop` of a receiver (asking a closed socket for its endpoint), that of
`Async_receive_from` on a socket closed in the meantime, and that of a second
join.

The data are left out: any packet may be the last of the definitions or the one
that shows a gap, and the saver may be woken or asleep at any time.
`m_tcp_replayer` says whether gaps are requested or stop the channel. `early` is
history: a gap may stop a channel that is still being started, and such a stop
does not see the threads started later.

### CtpGateway (CtpTrader)

`CtpTrader` is the state of the client object and what each of its functions
does to it: the next order reference, the map from references to the ids of the
strategies, the command queue, the number of answers that `Start` waits for.
`CtpGateway` adds the four threads: `Start` in the main thread; the strategy
thread, in which `reqOrderInsert` reads `maxOrderRef` in one step and uses it
again in another, since a callback may set it in between; the thread of the
command queue, which repeats a command until the library takes it; and the
callbacks. None of the shared variables has a lock.

The library and the exchange are external. What is assumed of them stands at the
head of the module; the assumptions that matter are that an order is only
accepted with a reference above all earlier ones, that the login answer has the
largest one, and that the day's orders are sent again after each login
(`THOST_TERT_RESTART`). There is one terminal, so every reference with an id
here is this program's; one order of an earlier process is there at the start.
An order is filled at once or not at all.

`calm` is history and a precondition of the properties. It becomes false when an
order is placed, or an order cancelled, between a connection and the answer to
its login, and when an order is cancelled whose reference has been taken back.
These are the cases in which the code does go wrong: the login answer sets
`maxOrderRef` back to what the exchange has accepted, so an order that is still
in the queue, or was lost, shares its reference with the next one, and what is
said of the one is told of the other. The properties say that nothing else goes
wrong, in particular not by orders lost with a connection, by refusals, or by
the replay of the day.

### GlobexGateway (GlobexSession)

`GlobexSession` is the FIX session as far as it concerns numbers: what the
exchange has sent, what is on its way, the next number that QuickFIX expects,
and the messages it keeps because they came too early. QuickFIX is external. It
is configured to ask again for every message that is too early
(`SendRedundantResendRequests=Y`) and to store requests and send them again
(`PersistMessages=Y`), which is why requests are not lost here, and why the same
messages can be under way twice. `OrderManager` has two parts in it: it counts
the last message given to it, and it limits the range of a resend request with
that count before the request leaves.

`GlobexGateway` adds the strategies' requests, the exchange's book and reports,
and what `Order_response` tells the strategies of each: a fill, a status, or
nothing. A logon asks for the status of all orders, whose answers come as reports
like any other. An order may work at the exchange from an earlier day. `Ids` may
not contain the name that stands for no order.

What the model shows of the code, beside the run that is violated:

- `OrdStatus` 4 (cancelled) and 5 (replaced) are told as Pending; that an order
  was cancelled is never told as such. `OverIsOver` is about the converse.
- A status answer for an order that is partly filled is told as a fill of
  quantity 0, which is why fills can be counted at all.
- A request that the exchange refuses with `BusinessMessageReject` or `Reject` is
  logged and nothing is told: the strategy waits for ever.
- After a resend request of limited range nobody asks for what is left until a
  later message, at last a heartbeat, is too early. `AllReportsArrive` holds
  because of the heartbeats.
- No program passes orders to `Start`. With some, `Start` would wait for an
  answer that takes each out of `m_init_orders`, which the answer for a partly
  filled order does not, and it polls the map without a lock.

### FemasGateway

One number, `MaxOrderLocalID`, names orders, cancels and queries. A request is
four steps in the thread that makes it: the number is read into the request,
noted with the strategy's id in `m_ordermap`, counted up (a read and a write),
and the request leaves. The callbacks run in between, and the login answer sets
the number. `Start` is a sequence of waits in the main thread; the last three
share one flag, `m_startfinish`, which the thread clears after the request has
left. `OnRsp...` and the `On...` that each calls are one action. Concurrent use
of the map itself, which has no lock either, has no defined outcome and is left
out, and so is the time limit of a wait: it may end a wait that is not over.

The exchange is assumed to answer each query of an order with one row.
`OnRspQryOrder` counts rows, not answers, so that a query with two of them would
stand for two. It is also assumed to have the instrument: `OnRspQryInstrument`
alone does not return on an empty answer, and would read the missing row.

`calm` is history and a precondition of `AnswersReach`. It ends with what the
code does not handle:

- An order without a price or a quantity, which every market order may be, is
  rejected after its id was noted but before the number is counted up. The
  next order has the same number, `AddOrderId` logs that, and its reports are
  told under the id of the rejected one.
- After a reconnection the number goes back to the largest that an order had,
  although cancels, queries and lost orders have used higher ones: again the
  next requests get numbers that belong to others.
- A login is answered while a request is made.

`early` ends what is claimed when a strategy does not wait for
`OnExchangeReady`: nothing keeps it from sending before, while the main thread
uses the same number and counts the answers. Other facts of the model: a cancel
that is refused is told as a cancellation; an answer without a row never ends a
wait, so a `Start` whose orders have no trades fails (no program passes it any);
and a fast answer, before the flag is cleared, makes it fail too.

### ReplaySimulater (OrderMatcher)

`OrderMatcher` is the exchange: every operation of `ExchangeSimulater` holds one
mutex from start to end, so each is one action. An order is filled whole or not
at all, so quantities are left out; sizes and volumes of the market stay, since
they decide when a resting order has its turn in the queue.

`ReplaySimulater` adds the reader and the replayer, the condition variable
between them, the thread of the strategy, and `Stop`. The strategy's requests go
through `StrategyCommunicator`, which checks all but deletions: an invalid one
does not reach the exchange and is told as `OS_Rejected` (`Reject_order`). That
is how the exchange refuses a request too; the message tells the two apart, and
the model has them as "invalid" and "rejected". The first may be told of a
working order, the second never is. The other gateways stand behind the same
check; their models take the requests that passed it. Each section that holds
the mutex is an action. The replayer's test of `m_is_fetch_end` is apart from
its wait: the reader sets that flag without the mutex. What a record holds is
chosen when it is replayed.

Two hangs are in the model and are not excluded by a property. The reader may
set the flag and notify just after the replayer has tested it: the replayer then
waits for ever, and so does who joins it (`AllReplayed` says only that every
record was replayed by then). And `Stop` sets a flag and notifies nobody, so a
thread that waits stays. Also in the model: a changed order is not matched when
it is changed (a TODO in the code; `changed` is history for `NoneLeftBehind`); a
market order that waits while the other side is empty is filled later at the
price it was given. Records are assumed to have different stamps (`insertTime`
is in nanoseconds): of two with the same one, a page that ends between them
loses the second.

### TradeSimulater (TradeMarket)

`TradeMarket` is the market data made of the orders that wait, with the test
that decides what is sent. `TradeSimulater` is the box: a request is checked and
accepted in one action, and `Match_order` takes one action for every order it
fills and one for what is left. All of it runs in the thread of the strategies;
the other thread there is, the market data of the simulated market, touches
none of it.

Prices are in cents, and `Inexact` holds those that the conversion of the code
does not return: 1.13 * 100 is 112.99..., which is truncated, so the check
refuses that valid price; which prices are lost so is not computed. Other facts that the model has: `Change` forgets what
was filled of the old order; a market that becomes empty on both sides is not
sent (`StrategiesSeeMarket` excepts it). The expiry of an order is not in the
model: it is called by nobody, and its test reads a time that was never set.

## 3. Runs

| Run | Question | Bounds |
|---|---|---|
| `increment_feed` | Are the two records of what is missing consistent, are no wakeups lost, is the stream ordered and whole? | 5 packets, one with two messages, one with none; 2 copies of each; snapshots at 1 and 3; with and without a TCP line; a faulty server |
| `increment_live` | Do gaps close? | the same with 1 copy and a server that answers completely |
| `books` | Are the books and the best prices right after the merge? | 2 instruments, depth at most 2, 3 rows, 3 events |
| `recovery_feed` | Is the set whole, in order and never too new? | 3 packets of 1, 2 and 1 messages, 3 loops, feeds up to 4 packets apart |
| `channel_stop` | Does a stop end every thread, and end itself? | the four threads of a channel, the main thread, and 1 replay thread |
| `recovery_starts` | Does the recovery feed start after the definitions? | no replay thread; a violation |
| `ctp_gateway` | Do answers reach their orders, is none forgotten, is what is told true? | 2 orders, one of which Start is to verify; 1 lost connection; 1 cancel or query; 4 commands, requests and answers under way |
| `globex_gateway` | Is each trade told once, is what is told to be over over, does the gateway catch up? | 1 order of quantity 2, a resend limit of 2, 1 lost connection, 1 request beside Add, 2 heartbeats, the exchange acts by itself up to message 4 |
| `globex_resend` | Is a resend request limited? | the same; a violation |
| `femas_gateway` | Do answers reach their orders, does Start verify what it says? | 2 orders to verify, 2 of the strategies; 2 lost connections; 2 cancels or queries; 4 requests and answers under way |
| `replay_simulater` | Is every record replayed once and in order, are orders in one place, told truly, and filled when they can be? | 3 records in pages of 2, reader woken below 1; 2 orders of 4 kinds, 1 change, deletion, query or invalid request, 1 spurious wake-up; 2 contracts; prices 0 to 2, a side may be empty |
| `trade_simulater` | Are quantities kept, is the market that of the orders, is it told, is matching fair and complete? | 5 requests about 3 ids, 9 kinds of order, depth 1 of 2 prices and a third that is lost in conversion |

Why the bounds are enough. Five packets allow two gaps that are open at once, a
gap of two, a gap inside the range of a running replay, and a packet before the
first one seen; two copies are the two lines, and a replay is a third source.
Three events are an increment before, one between and one after the snapshots of
two instruments; a depth of 2 with 3 rows lets a row fall off the bottom and
come back. Three loops and four packets apart let a feed be more than a loop
behind the other and a set be made of two loops. `SeqMax` only has to lie above
every sequence: the channel is reset every week, long before 32 bits run out
(`SeqAssumption`). The runs of the channel do not check deadlock: a channel
stops, the network stops, and the bounded exchange stops.

With one replay thread two stops can run at once in every pairing that the code
has: the main thread's with a replay's, with the increment thread's (no TCP
line), and with the stop of a single feed at the end of its loop.

In CtpGateway one lost connection gives two sessions, with an order before,
between and after them, and leaves every kind of request and answer to be lost.
The constraint `Considered` cuts off what follows when `calm` has become false,
where nothing is claimed, and bounds what is under way; four are enough for an
order and its cancel to stand before a login and another order. Without that
bound the same properties hold in 8 million states.

In GlobexGateway a limit of 2 with up to nine messages (4, heartbeats, answers)
makes gaps within the limit, at it, and twice it; one lost connection is enough
for messages to be under way twice, since the logon, each later message and the
resend itself ask again. One order tells all that there is, as orders only meet
in the listing. In FemasGateway two orders to verify make each kind of query
follow another of its kind, whose late answer could end the wait; two lost
connections are one in `Start` and one at work. `Considered` cuts off what
follows an early call. In ReplaySimulater two records of three fill a page, so
the reader waits once, sees a short page and an empty one; one record in the
buffer is the mark below which it is woken; the five L2s make the market empty,
one sided, met, and away from the order. In TradeSimulater three ids let an
order meet two others, in both orders of arrival, and five requests leave two
for a change or cancellation of what waits. That run checks deadlock (`Done` is
the end of the requests), the others do not.

Symmetry is used for the two instruments, which no action tells apart, in runs
without liveness properties.

### Fairness

`increment_live`, `channel_stop`, `recovery_starts`, `globex_gateway` and
`replay_simulater` need it. Each thread is weakly fair: the operating system
runs what can run. `FeedInsert` and `ReplayInsert` are strongly fair, because
they wait for a mutex that the saver takes and releases again and again, and
spurious wakeups can always come first; this asks the mutex to be starvation
free in practice. In MarketManager the calls, the receivers' own steps, the
saver and the delivery of signals are weakly fair; that anybody wakes the saver
is not assumed, which is what `StopEnds` is about. Nothing is assumed of the
network, the replay server, the user or the snapshot: packets may be lost for
ever, and `GapsClose` speaks of what lies between the join point and the highest
packet seen.

In GlobexGateway QuickFIX is fair in what it does with the messages it has and in
connecting again, and the exchange in serving requests, sending again what it is
asked for, and sending heartbeats; trades, losses and requests are not. In
ReplaySimulater the reader and the replayer are fair, and nobody needs to wake
them: `MaxSpurious` bounds the wake-ups nobody asked for, on which no progress
may rest.

### What the violations show

- `recovery_starts`: `On_definition_end` runs on the definition thread, and its
  first call ends that thread by a signal to itself (`market_manager.cc:362`).
  The call that starts the recovery feed is never reached, unless the
  definitions were complete before `m_tid_udp_definitions` was assigned.

- `globex_resend`: the comment at `order_manager.cc:655` limits a resend request
  to 2500 messages. The range is measured to the last message given to
  `OrderManager`, which in the middle of a session is the one before the gap: the
  difference is then -1, and everything is asked for.

The consequences of `recovery_starts` are kept out of `MarketBooks`, which takes
a complete set.

Disagreements that the models have and no run shows:

- The saver is to wait until all recovery data are received (the comment at
  `dat_saver.cc:38-39`, `introduce.md:71`). The loop at `dat_saver.cc:73` ends
  with the first packet saved, so `recovered` in RecoveryFeed is often the
  beginning of a set only. `MarketBooks` takes a complete one here too. A set
  taken so early may even be replaced before the saver reads its first element
  (`dat_saver.cc:96`), though `recovery_saver.cc:50` says that nothing is
  concurrent here; `NothingDroppedTooMuch` claims nothing of it.
- `introduce.md:30-32` discards what "was received already"; the code cannot know
  that for packets below the first one it saw, and discards them.
- The shortcut of `dat_saver.cc:27`, for a program that starts before packet 1,
  skips the definitions with the snapshots, so an instrument listed before the
  week has no book.
- `Update_definition` returns before its callback for a deletion, so the branch
  of `Create_or_shrink` for it (`book_state_controller.cc:28`) is never reached.
- `CtpCommunicator::Start` waits for one answer for each initial order, but
  `reqQryOrder` passes over an order that this process did not submit, and a new
  process has submitted none. Every `main` clears the initial orders first, so
  no program waits.

`ToldIsTrue` of CtpGateway has an exception for an order whose cancel was
refused: it is told to be cancelled (`ctp_trader_spi.cc:517`), although it may
still be filled. `ToldIsTrue` of ReplaySimulater has one for an order about which
an invalid request was made: it is told as `OS_Rejected`
(`strategy_communicator.cc:138-144`), although it may be working and be filled
later.

What `channel_stop` shows is less than one would hope: a stop ends, and what it
reports is true, but most often it ends with an exception. Once the definitions
are complete their sockets are closed, and `Stop` closes them again; `StopEnds`
counts that (`process = "failed"`) as an end.

## 4. Proofs

Everything below is for all values of the constants under the named assumptions
of the modules.

**IncrementFeedProof.** `TypeCorrect`, `Accounting` (NothingForgotten),
`Disjoint` (ReplaysDisjoint), `Wakeup` (NoLostWakeup), `Implements` (StreamSpec).
NothingForgotten is not inductive: that an insertion takes the right branch
depends on how far `m_last_seq` is behind `m_current_sequence`, on which thread
holds which packet, and on what each replay thread may still ask for. The
invariant `IInv` adds these, and what the saver has picked against what is
stored and what has been parsed. `WakeInv` is inductive relative to it. The
refinement needs from `IInv` that a message which can be picked has nothing
missing below it, and that each message is stored, being handled, or parsed.

**MarketBooksProof.** `TypesHold`, `ChannelFit` (BooksFit), `ChannelTop`
(TopToldToStrategies), and the refinement they rest on, `AnyInput`: a program of
MarketBooks is one of `BookSpec`, in which any sequence of definitions, snapshots
and increments may arrive, well formed or not. That books fit their depth and
that the top is known are first proved there, of any input; the invariant says
that each book state is well typed and fits, and each operation on rows keeps it
by a lemma about the sequence that it returns. `TopTrue` needs in addition that an
entry for which `Is_BBO_changed` is false leaves the first row alone or turns it
into a filler. `ChannelTypes` then types the exchange and all that is under way,
which takes a fact about each message that the exchange can make. The snapshots
come in the order of some enumeration of the instruments, so these are a finite
set.

`ChannelMatches` (BooksMatchExchange) is the result about the whole channel. What
has to be true between two steps is `MatchInv`, of three kinds:

- `Chained`: each packet in the queue carries the views on, from those shown
  before it to those shown with it (`Carries`). A message carries them if its
  entries or its definition, taken one after the other by the code's own
  operations, lead the view of every instrument from the one to the other
  (`Leads`). Each event of the exchange publishes such a message, which is a lemma
  about rows for each kind of entry;
- what was received is what the exchange meant: the snapshots are in order, and
  each shows the view of its sequence number (`Collected`); the depth of a book
  that has to be right does not change, and no reset is sent, between the first
  snapshot and its own (`Kept`); an instrument is defined once at the start
  (`Once`), and only if it was listed (`Known`); nothing is loaded before the
  snapshots are (`NotLoaded`); the entries of the snapshot that
  `Remove_past_books` has skipped are not newer than the packets (`Merged`);
- `Modes`: the work that is left leads each book to where it should be. That is
  the view of the packet handled last, if the snapshot is not newer (`Follows`);
  the snapshot, if it is (`Waits`); no book, if the instrument is added later
  (`NotBegun`); and none either, if it was deleted (`Forgotten`).

`Waits` has an exception that the proof brought out. A snapshot without rows
leaves no entry, so `Remove_past_books` does not know of it and the increments
before it are applied to a book that is already empty. Rows are missing then, or
fillers stand in for them, and the book is only `Below` the one shown; that the
two agree again at the snapshot's own packet follows as the book shown there has
no rows at all. This is why `BooksMatchExchange` asks for rows in a snapshot that
is newer than the packets, and for nothing of the kind afterwards.

**ChannelProof, of RecoveryFeed.** `TypeCorrect`, `Complete` (SetInOrder), `FirstIsOldest`
(NothingDroppedTooMuch), `LoopsComplete` (WholeLoopCompletes). The invariant says in addition that the set counts as
many messages as the packets so far have, that the positions saved have been on
the line, that they ascend as long as no feed is a loop behind, and that what
the saver took stays what it was. For `LoopsComplete` `LoopInv` follows the nearest
loop of which everything arrived: the positions come in order, each once or twice
running, and when the first k packets of that loop have arrived the one saved last
is packet k, or the set is complete.

**ChannelProof, of MarketManager.** `ChannelStops` (StopComplete). A stop reports
that the channel has stopped after its four calls, so each has passed its join,
or found no thread object. `Started` says that the object of a thread is missing
only while Start has not come to it, `Ready` that no stop that counts runs then,
and `StaysStopped` that what a stop has joined stays ended, whoever else calls.
The recoveries thread is the difficult one, as On_definition_end may create it
after the stop has asked for it and found nothing. `ClosedOnce` excludes that:
sockets are closed once, and closing them again ends the program; so of the stop
and On_definition_end only one gets past the sockets of the definitions. When the
stop did, On_definition_end never reaches the creation of the thread. And when
On_definition_end did, the stop does not report its end. It follows that the
recovery feed was not listened to whenever a stop reports its end, the safety
side of the finding of `recovery_starts`.

**GatewayProof, of GlobexGateway.** `TypeCorrect`, `TradesToldOnce` (FillsToldOnce), `OverStaysOver`
(OverIsOver). That fills are told once is a statement about the messages: the
quantity traded is the number of trades among all that was sent, and the quantity
told is the number of them below the next number expected (`Counted`). It is
inductive with the type of the session, which says that nothing is kept or under
way that was not sent; with `Asked`, that resend requests are about messages
there are; with `Fresh`, that an order on its way is new to the exchange, without
which an acceptance could reopen an order; and with `Ended`, that a report which
ends an order was sent when it ended.

**GatewayProof, of FemasGateway.** `FemasInvariant`, and from it `ReadyIsVerified`
(StartVerifies) and `AnswersFindOrders` (AnswersReach). `FemasInv` was a TLC
invariant first, over the states of `femas_gateway`. It has these parts:

- `Busy`: the request that the main thread makes is the one that `start`, `turn`
  and `wait` say, and a strategy that waits for OnExchangeReady makes none before.
- `OneAsked`: of the trades, positions and instruments one request at most, with
  its answer, is on its way, and it is the one that Start waits for. So when the
  flag is set, it was set by the answer to this request and not by a late one,
  although nothing in the answer is compared with the request. This also holds when a
  connection is lost: the wait then ends in a timeout and the program with it.
- `Queries`: the queries of orders are sent without waiting, and their answers are
  counted. Those under way, on both ways, can be numbered so that the numbers
  ascend: first the answers, then the requests, all above k, the number of the
  query last answered. At most k answers were counted, and k only if the first k
  queries had one each. So the count comes down to 0 only if every query had its
  answer; a query that is lost leaves it above for ever.
- `Verified`: what follows for each phase of Start that lies behind.
- `NumbersInv`, while nobody was early and `calm` holds: a number that is in use
  by a thread is `MaxOrderLocalID`, is not in the map before the thread notes it
  there, and is below `MaxOrderLocalID` afterwards (`NextNumber`); the numbers of
  the orders to be verified are not given out (`AboveOld`), which depends on the
  first login; and every message and every order at the exchange has a number that
  leads to its order (`RightMessages`).

Only one thread at a time makes requests, which `Busy` says; that is why a number
that is read three times without a lock does no harm as long as nobody is early.

**ContainerProof.** A recursive function is what its definition says only if there
is such a function, which the library shows by theorems that take an operator as
a parameter and that cannot be instantiated here. `Induction` says the same about
a set of numbers, and `RemainingDef` and `SumDef` are shown with it. The lemmas
that follow say which elements of a list are left, in which order, how often, and
how a change of one element changes a sum.

**ReplaySimulaterProof.** `TypeCorrect`, `InOrder` (ReplaysInOrder), `Complete`
(EndsComplete), `OrdersOnce` (EveryOrderOnce), `ToldTrue` (ToldIsTrue), `NoneBehind`
(NoneLeftBehind). `PumpInv` is about the two threads: what was replayed and what
is buffered are consecutive records, the cursor of the next query is the stamp of
the record pushed last, and `m_is_fetch_end` is set only when all are pushed.
`MatcherInv` is about the matcher: the ids of the exchange are given upwards, so an
order is in one list and once, and what was told of it last is what it is. For
the answers (`ToldTrue`) each of these steps is shown to tell what the maps hold:
`MatcherTold` says what a refusal or an answer may tell, and it is used for the
refusals of the exchange, which need an order that is not working, and for those
of the check before it, which need nothing.

**TradeSimulaterProof.** `TypeCorrect`, `NoneLeft` (NoneLeftToMatch), `MarketTrue`
(MarketIsOrders), `MarketTold` (StrategiesSeeMarket), `NothingLost` (QuantityKept),
`ToldTrue` (ToldIsTrue), `TradesFair` (TradesAreFair). An incoming order goes through
a loop, one order of the other side at a time. `MatchInv` says what that loop has
left: its rest is what the orders it has passed could not fill, and those it has
not reached are as before. `QuantityInv` adds up, by the lemmas on sums, what is
open and what was traded; `ToldInv` relates the last report of an order to its
state. `TradesFair` is about two orders and the loop: the one that goes first is
at an earlier place of the list the loop walks.

**CtpGatewayProof.** `TypeCorrect`, `AnswersRight` (AnswersReach), `OrdersKept`
(NoOrderForgotten), `ToldTrue` (ToldIsTrue). What is claimed is claimed while `calm`
holds. Then the answers, the requests under way and the queue of commands are one
line in which no order and no cancel stands behind a login, and no order stands
twice (`LineOK`); that is why a login answer may set `maxOrderRef` back without
giving a reference twice. `IndexInv` says that a reference belongs to one order and
an order to one reference; `AddingInv`, that the order being added has the next
one; `RequestOK`, `AnswerOK` and `EventOK`, that the reference in a message
leads to the order it is about, with a status that was true when it was sent.

**Only model-checked**: `GapsClose`, `AllReportsArrive`, `AllReplayed` and
`StopEnds`, as liveness under fairness is beyond the prover, and the two
violations, which are runs. Every invariant of a passing run, and every action
property and refinement, is a theorem.

## 5. Not modelled

- The byte layout of packets, the parsers and FIX texts. What the parsers yield
  is modelled where it matters: one entry per row, none for an empty book.
- A packet of a replay answer that TCP delivers in two segments
  (`dat_replayer.cc:98`).
- L2 and trade messages, which carry the state as it is; the database.
- In the Femas gateway: `Stop`, prices and quantities, what a report says, and
  the answers of positions and contracts, which are passed on by themselves. Of
  REM: `OnQueryAccountPosition` (`RemEESTraderApiManger.cc:77`) never sets the
  flag that `Start` waits for.
- In the CTP gateway: contracts, quantities and partial fills, other terminals of
  the same user, positions and instruments, the pause of a second between two
  commands.
- Several channels: `CmeMarket::Stop` iterates over a map from which each channel
  removes itself.
- `status_manager.cc`, the market data converters of CTP, Femas and REM,
  transport, persistence, settings, tools, generated code: no shared state.
- In the CME gateway: initial orders, mass queries and mass cancellations (their
  format is provisional in the code, and their answers are dropped), the contents
  of requests, and the test server in `main/cme_exchange/server`.
- In the simulators: several contracts in TradeSimulater (they share nothing),
  the files and the database behind `Mongo::Query`, the positions and accounts of
  the strategies.

More than half of the lines under `src/src/` are generated: the SBE codecs of
`cme/market/message/mktdata` and the protocol buffers of `pb`. They hold no state
of the program, and no definition stands for them. That is why the map covers
a small share of all lines although it covers most of the components that keep
state.

## 6. Plan

In this order; each with its MC module and invariants.

| Module | Models | Properties |
|---|---|---|
| `RemGateway` | `rem/exchange`, which has the shape of Femas | start-up flags, order ids |
| `CmeMarket` | several MarketManagers and the map they remove themselves from | the last channel ends the program once |

Each with theorems of its invariants; of the modules there are, no invariant is
left without one.
