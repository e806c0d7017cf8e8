# A TLA+ model of predmarket (W16CryptoEngine)

predmarket is a prediction market: a Rust API takes orders and keeps the money, a C++ engine
matches orders and publishes fills over NATS, and PostgreSQL holds whatever has to last. This
directory models the parts of it whose correctness depends on the order of steps of several
actors, on crashes, or on long sequences of calls. TLC checks each model on a small instance, and
TLAPS proves every safety property that the runs check for every value of the constants.

Paths below are relative to the repository's root. `PROJECT.json` has, for every definition, the
lines it translates, and for every hazard the line where it bites.

- [The system](#the-system)
- [The modules](#the-modules)
- [Runs](#runs)
- [Environment and fairness](#environment-and-fairness)
- [Proofs](#proofs)
- [Where code and documents disagree](#where-code-and-documents-disagree)
- [Not modelled](#not-modelled)
- [Plan](#plan)

## The system

    client --HTTP--> Rust API replicas --NATS orders--> C++ engine
                        |      ^                          | WAL file
                        v      +------NATS fills----------+
                     PostgreSQL

The three replicas of the API (`infra/k8s/api.yaml:7`) share nothing but PostgreSQL and NATS.
Beside this, the API has a trading side of its own (Polymarket client, analytics, algorithmic
execution), and the engine's source tree an HFT pipeline that talks to nobody else.

| Component | State | Operations | What is hard about it | What makes it correct |
|---|---|---|---|---|
| Order book, `engine/src/order_book.cpp` | order and level pools, linked lists in arrays, price maps, cached best prices, a hash index without keys, a fill counter | add limit or market order, match, cancel | long sequences of pointer updates; full pools; colliding or repeated ids | price-time priority, no order lost or filled twice, index never dangles |
| SPSC queue, `engine/include/spsc_queue.hpp` | ring buffer and two atomic indexes | push, pop | two threads, stale loads | FIFO, no concurrent access to a slot |
| Engine process, `engine/src/main.cpp`, `wal.cpp`, `nats_client.cpp` | map of at most 256 books, log file, sequence number | recover, dispatch, drain, destroy | death at any byte; the callback thread outlives `main`'s loop | the log is ahead of the books, numbered without gaps |
| Fill processing, `api/crates/positions`, `db/src/fills.rs`, `balances.rs`, `positions.rs`, `messaging` | tables fills, balances, position_changes, orders | process a fill, one statement after the other | every replica gets every fill; any statement fails; row locks | each fill applied once, money and positions agree with the fills |
| Ledger, `handlers/deposits.rs`, `withdrawals.rs`, `db/src/idempotency.rs`, `withdrawals.rs` | idempotency keys, balances, withdrawals, holds | deposit, withdraw, approve, reject, expire keys | retries racing expiry and each other; clients that go away; two admins; fills on the same money | a key deposits once, a decision stands, balances add up |
| Algorithmic execution, `analytics/src/execution.rs` | map of sliced orders, volume profiles, two channels | create TWAP, VWAP, iceberg or smart order, cancel, execute | locks held while sending into bounded channels | slices submitted once, in time, in full, never after a cancel |
| Markets and settlement, `markets`, `settlement`, `db/src/markets.rs` | status of a market, payouts | create, pause, reopen, cancel, settle | status read in one statement and written in another | a final status stands once nobody is left who read an earlier one |
| Orders service, `orders`, `handlers/orders.rs` | keys, orders at the exchange, the reconciler's pending orders | submit, reconcile | a remote call between two statements, its answer lost; keys claimed before validation | a key sends one order at most; a complete key's order is pending |
| Circuit breakers and rate limiter, `common/src/circuit_breaker.rs`, `middleware/rate_limit.rs` | state, counters, windows | call, record success or failure, check, sweep | counter and state are not under one lock; a clock that never moves; windows swept while in use | opens after its threshold of failures; bounded bursts |
| HFT pipeline, `engine/include/hft_orchestrator.hpp`, `strategy_engine.hpp`, `order_gateway.hpp` | three SPSC queues, two threads | submit update, submit order, start, stop | loops that never look at `running_`; two producers on one queue | stops when told to |
| Polymarket client and trading engine, `polymarket`, `api-http/src/trading_engine.rs` | connection, broadcast channel, `running`, four loops | connect, reconnect, receive, trade, stop | a full channel; a channel that ended; flags read at the head of loops | every loop ends when told to |
| Blockchain transactions, `blockchain` | nonce, pending transactions | submit, retry | a send that fails after it was heard; restarts | no request is mined twice |
| Analytics, `analytics/src/pnl.rs`, `position_monitor.rs`, `risk.rs` and the statistics | positions, daily records, lots, limits, a global breaker | record fill, end of day, reduce, check | locks taken twice, and in both orders; lots and net quantity going separate ways | calls return; a loss at its limit stops orders; lots cover the net quantity |
| Audit, auth, cache, configuration, health, metrics | single rows, tokens, counters | single statements | - | - |
| Snapshot, parsers, crypto, network code | buffers | byte-level functions | - | - |

How they interact: the API publishes orders and cancels on NATS subjects, which the engine's
callback thread handles one at a time under its books' mutex; a fill goes back over NATS to all
replicas; the handlers, the fill processors and the admin's requests meet in the table `balances`
and nowhere else. Algorithmic execution shares locks and channels inside one process. The other services
meet nobody in a table or under a lock: the exchange, the chain and the wall clock are all they deal with.

## The modules

One module per component; `MC<module>` instantiates it for TLC, `<module>Proofs` has its theorems (`ServiceProofs` those of all
the services, `SumTheorems` what the others need to know of sums), and the three abstract specifications say what a component
promises without saying how.

| Module | Models | Abstract specification |
|---|---|---|
| `OrderBook` | one market's book | `PriceTimeBook`: a set of resting orders and price-time priority |
| `SPSCQueue` | the ring buffer, an atomic access at a time | `BoundedFifo`: a queue of `Capacity - 1` places |
| `EngineLog` | the process around the books, and its log | |
| `FillPipeline` | a fill from `match` to the tables | `Settlement`: recorded once, paid whole, then its taker's and its maker's position |
| `Ledger` | deposits, withdrawals and fills on one balance | |
| `AlgoExecution` | sliced orders and their executor | |
| `MarketLifecycle` | the status of a market under admin requests | |
| `OrderIntake` | an order's way to the exchange | |
| `RateLimiter`, `CircuitBreaker` | windows per address; a client's breaker and its callers | |
| `TransactionManager` | the wallet's nonce, queue and retries, and the chain | |
| `TradingFeed` | the connection to the exchange's data, and the loops behind it | |
| `RiskManager`, `PositionMonitor`, `PnlTracker` | daily loss and limits; lots; the locks of profit and loss | |
| `MCServices` | all of these but `PnlTracker`, side by side, for one run | |

**OrderBook.** `orders`, `levels`, `freeOrders`, `freeLevels`, `priceMap`, `topLevel`, `best` and
`index` are the arrays and members of `OrderBook`; the free stacks are sets, for which slot is
handed out does not matter. A call of `add_limit_order` is `AddOrder`, one `FillHead` per fill
(`on_fill` publishes in between), and one of `Complete`, `DropRemainder`, `JoinLevel` and
`OpenLevel`; `taker` holds its locals. `Unlinked`, `Shortened` and `Bypassed` are what `dequeue` and
`remove_level` do to the arrays, and `TakeOff` composes them in the way that `match` and
`cancel_order` share. The index compares no keys, so `Hash` is a constant and collisions are part
of the model. `ledger` and `tickets` are history: who was accepted when, and what became of it.

**SPSCQueue.** `push` and `pop` are cut at every load, store and copy. `headSeen` and `tailSeen` are
the values an acquire load returns, which may be old; `SeeHead` and `SeeTail` bring newer ones.

**EngineLog.** `process` is where `main` is, `buffer` the stream's buffer and `disk` what the file
had when the process started. `Recover` reads up to the first torn frame, and past it at wrong
offsets, where sequence numbers are anyone's guess. `Dispatch`, `AppendFrame` and `Apply` are one message;
`Destroy` does not wait for them, as `drain` does not. `Crash` and `PowerLoss` keep any prefix of the
bytes; `ExhaustBooks` is the null pointer that the 257th market dereferences, and
`RecoverThrows` the allocation that a garbled length asks for. `appended`, the bound on frames, counts each from when
`dispatch` sets out to append it. `WriteAhead` compares a book's operations with its market's frames place by place (`Rank`).

**FillPipeline.** `MakeFill` publishes to each live subscription, or not. `worker[r]` is where
`FillProcessor::process` is on a replica; each statement is an action: `Insert` (the unique index
decides), `LockBuyer` and `PaySeller` (one transaction, two row locks), `MoveTaker`, `MoveMaker`,
`LoadOrder` and `WriteOrder`. `Fail`, `SkipOrder`, `AbortDeadlocked`, `Crash` and `Resubscribe` are
the ways to lose the rest. `Restart` is the engine's, with empty books and a counter from zero.
`Settlement` tells what this comes to for the tables, without replicas, subscriptions or locks: `Record`, `Settle`, `MoveTaker`, `MoveMaker`. It
has the tables and the histories `paid` and `moved` under the same names, so that the refinement mapping is the identity on them. What is
written to the orders' rows is not part of it, for there the replicas do not behave like one processor: two that load the same row lose an
update (`OrdersMatchFills` says what is left).

**Ledger.** `Claim`, `ReadStatus`, `ReadResponse`, `RecordDeposit` and `CompleteKey` are the statements
of the handler `deposit`, `Drop` its end at any of them, `Expire` the clean-up of keys.
`RequestWithdrawal` is one transaction; `StartReview` and `FinishReview` are the two ends of the transaction of
`approve_withdrawal` and `reject_withdrawal`, between which the row is locked. `ApplyFill` is the
transaction of FillPipeline on the same balances.

**AlgoExecution.** `CreateTwap`, `CreateVwap`, `CreateIceberg` and `CreateSmart` cut the order; `Insert`
takes the lock on `orders`, and `Send` gives it back once the bounded channel had room. `RunExecutor` drops the
receiver, as `run_executor` does on its return. A tick of the executor is `StartPass`, a `Visit` per
order, a `Submit` per slice that is due, `Leave` and `EndPass`, with the lock held throughout.

**MarketLifecycle.** `ReadMarket` is the SELECT of an admin request and the guard behind it (`May`), `WriteMarket` the UPDATE,
which looks at no status; a settlement has `ReadPositions` in between. `PositionRow` has columns its SELECT does not
(`db/src/positions.rs:39`), so a settlement that finds any position fails there, and the payouts that get to the
database are those of nobody.

**OrderIntake.** `ClaimKey`, `ReadKey`, `ReadOrder`, `Validate`, `CreateOrder`, `RegisterOrder` and `CompleteOrder` are the steps of
`place_order` and `OrderService::submit`; the exchange takes an order and its answer may be lost, and `DropOrder` ends the handler
anywhere. The risk check asks about a user id that was made up a line before, so that it allows every
order. Cancel, get and list look at nothing, and every cancel is refused.

**RateLimiter.** `AllowRequest`, `RefuseRequest` and `SweepWindows` each hold the entry of their key. **CircuitBreaker.**
`CountFailure` and `RecordFailure` are the two halves of `record_failure`: the atomic counter, then the state under its lock.
The breaker's clock is `Instant::now().elapsed()`, always zero, which `Passed` says; a breaker with a timeout above zero that has opened
stays open until it is reset.

**TransactionManager.** `TakeNonce`, `Broadcast`, `Confirmed` and `SendFails` are `send_transaction` under the nonce's lock, `QueueTx` the queue of
`submit`, and `StartRound`, `VisitTx`, `EndRound` a pass of the retry loop, which holds the queue's lock throughout. `MineTx` and `ForgetTx` are the
chain's. The nonce counts up with the receipt: a confirmation that is lost leaves it behind, later sends are refused,
and only `TxRestart` asks the chain again.

**TradingFeed.** `Connect`, `Disconnect`, `Reconnect` and `CloseFeed` are the connection task, `SendEvent` and `ReceiveEvent` the broadcast channel,
and `CheckLoop` and `WorkLoop` a turn of one of the four loops. `initialize` drops the handle that subscriptions would go
through, so none is ever sent.

**RiskManager.** `UpdateOnFill` is `update_on_fill` with `update_pnl`: the fills of a day by market and side, all of them valued at the
price of the latest fill of any market, and the whole day's result added to the balance again with every fill. `ResetDailyStats` and
`OrderAllowed` are `reset_daily_stats` and `check_order_risk`. Two of these exist in a process, and only one sees fills.
**PositionMonitor.** `UpdatePosition` changes the net quantity and, by `SoldFrom`, the lots; `Sell` is what `retain` does at one of them. **PnlTracker.** Each call is the
list of the locks it takes, in order, with how long it keeps them; `AskLock`, `TakeLock` and `PnlReturn` run it. Their callers are
outside the repository: the fills' path into analytics is declared (`AnalyticsEngine`) and written nowhere.

**MCServices.** No two of its eight modules share a variable, so a behaviour of all is a behaviour of each. `part` names the one
that a behaviour steps; the run checks each module as if by itself, without the product of their states.

## Runs

`pass` runs find no error; each `violation` run refutes one sentence of a document or test.

| Run | Config | States | Shows |
|---|---|---|---|
| `orderbook` | `MCOrderBook.cfg` | 1,060,000 | lists, index, best prices, totals and quantities stay right; the book implements PriceTimeBook |
| `spsc` | `MCSPSCQueue.cfg` | 38,000 | no race; implements BoundedFifo with its liveness; a persistent producer gets on |
| `spsc_full` | `MCSPSCQueueFull.cfg` | | a queue of capacity 4 refuses the fourth item |
| `log` | `MCEngineLog.cfg` | 930,000 | numbering across crashes and torn frames; the log is ahead of the books; stops lose nothing |
| `log_replay` | `MCEngineLogReplay.cfg` | | a start does not rebuild the books |
| `fills` | `MCFillPipeline.cfg` | 650,000 | the replicas together implement Settlement; money and orders agree with fills; replicas keep processing |
| `fills_restart` | `MCFillPipelineRestart.cfg` | | a fill made after an engine restart is taken for an old one |
| `ledger` | `MCLedger.cfg` | 2,600,000 | one deposit per key while it is kept; decisions stand; balances add up |
| `ledger_retry` | `MCLedgerRetry.cfg` | | a retry that found its key complete deposits again |
| `algo` | `MCAlgoExecution.cfg` | 139,000 | slices once, in time and in full; cancels hold; calls return; due slices are tried |
| `services` | `MCServices.cfg` | 73,000 | final statuses stand; one order per key; nothing mined twice; breakers open; bursts are bounded; a loss stops orders; lots cover positions; loops end |
| `pnl_calls` | `MCPnlTracker.cfg` | | `record_fill` waits for itself |

**Bounds, and why they are enough.**

- `orderbook`: two ids with a bucket each, four accepted orders, three order and three level slots,
  three limit prices, quantities to 2. Three orders make a queue with a middle, three prices a level
  list with a middle, and the fourth order fills the others, cancels them, or finds the order pool full;
  a second order under one id is the same to the code as a collision. `LevelSlots` is as
  large as the number of prices, like 16384 against 9999 in the code. Slots are symmetric.
- `spsc`: capacity 4, so that the indexes wrap at different fillings; two items to tell order.
  The state space is finite without a bound.
- `log`: two orders in two markets and room for one book, four frames over three starts: a
  log can be torn, appended to, read at wrong offsets, and appended to again. `MaxNumber` is
  larger than the number of frames, so that numbers guessed in garbage can be higher than all of them.
- `fills`: two replicas, two users in both roles, four orders of which one can be filled twice, two
  fills and an engine restart. `Reserved` is less than what the fills cost, so that `GREATEST(0, ...)` cuts.
- `ledger`: two requests at once with one key, four in all, two expiries, two withdrawals, two admins and
  two fills. It ends when all are used up: deadlock is not checked.
- `algo`: two callers, two orders of three units in two slices, channels of one place, so that both fill
  up, and a clock of one step. Quantities and weights are such that every way to cut leaves unequal slices.
- `services`: two admin requests at once on a market, four in all, and two traders: one request can overtake
  another, and a third finds what they left. Two keys, two handlers, three orders and an expiry. A limit of
  two in a period of two, for six ticks: three windows. Three callers of a breaker that opens at two, so that
  one is under way when it does. Three transactions, two of them queued, with two retries. A channel of two
  events. Two users, two markets and two fills, with prices for which averages are whole. Four fills
  in two markets: lots are used up, begun and left behind. Each part stops at its bounds: deadlock is not checked.

Each property of a pass run has a mutant: a plausible bug in one mapped definition (a dropped guard, an
off-by-one, a missing reset) with which the run finds the property violated. They stand in the modules,
marked `mutant`, just before the definition they would replace.

## Environment and fairness

What is not in the repository is modelled by how the code uses it:

- NATS core delivers in order and at most once to each subscriber; a subscriber that is down, or slow, loses
  messages. (JetStream is required by the README, and used by no code.)
- PostgreSQL runs a statement at a time under READ COMMITTED; an UPDATE keeps the row locked to
  the end of its transaction, a waiting one looks at the row again, and one of the transactions in a deadlock is aborted.
- `std::ofstream` keeps the order of bytes; which of them reached the file at a crash is open.
- An axum handler whose client goes away is dropped at its next `await`.
- An idempotency key expires after a day, when the request that claimed it is over.
- tokio's `RwLock` is fair: it is handed out in the order it is asked for.
- The exchange may take an order without its answer arriving. The chain mines a wallet's nonces in order, once each; its
  node refuses older ones and may forget what is not mined; any call to it may fail after it was heard.
- tokio's broadcast channel drops the oldest event when it is full, and tells the receiver once.

Safety needs no fairness. Liveness assumes:

- `SPSCQueue`: both threads poll in a loop (weak fairness of `Push` and `Pop`), and an atomic store reaches the
  other thread in finite time.
- `FillPipeline`: a statement that can run is run in the end, and PostgreSQL detects deadlocks. Nothing is
  assumed of new messages, failures and crashes, which may happen for ever or never.
- `AlgoExecution`: the clock runs, the executor is started some day and scheduled for ever, the children are taken
  as long as their receiver lives; strong fairness for the two waits for the lock, since its queue is FIFO.
  That the executor is started is essential: until then the channel of new orders has a receiver that reads nothing,
  and with the channel full a caller waits with the lock in its hand.
- `TradingFeed` (`part = "feed"`): a task that can run is run, and timers and requests end. Nothing is assumed of the connection: a data
  loop whose feed lives and is silent does wait for ever, and `LoopsEnd` does not promise otherwise.
- `PnlTracker`: a caller that can go on does.

## Proofs

Every theorem holds for all values of the constants that satisfy the module's named assumption, which TLC evaluates in the runs.
The assumptions give the constants their types, and say a little more: that `None` is nothing else; that the price cap exceeds 1 and the
queue has at least two slots (`BookAssumption`, `QueueAssumption`); that quantities, limits and channels are positive, as the code
validates (`api/crates/api-http/src/handlers/orders.rs:82`) or configures them (`PipelineAssumption`, `LedgerAssumption`, `AlgoAssumption`, `MonitorAssumption`,
`RateAssumption`, `FeedAssumption` and so on); that what is summed over is finite, order slots, keys, withdrawals, markets; and that sequence numbers go beyond
the number of frames, so that 64 bits do not wrap (`LogAssumption`: `MaxFrames < MaxNumber`).
One theorem assumes more, `LevelsSuffice`: that the level slots are finite and at least as many as the limit prices, as the 16384 of the code are.

Every safety property of every passing run is proved, the action properties and the refinements among them. The obligations of each module are in brackets.

**OrderBookProofs** (4718): `TypeCorrect`, `ListsStayLinked`, `IndexStaysSound`, `NeverCrossed`, `BestStaysTop`, `RefinesPriceTime`,
`LevelsSuffice`, `NothingLost`, `CancelsReach`, `TotalsAddUp`. The inductive
invariant is `IInv == TypeOK /\ ListsLinked /\ IndexSound`. None of the three is inductive alone: `TypeOK` needs that the
head of a level is a live slot, which is `ListsLinked`; that a cancel unlinks the right order from the right level needs `IndexSound`;
and that stays true because `dequeue` frees only an order whose entry the caller cleared, or which another order had overwritten.
The proof follows the code's structure. `UnlinkedFields`, `ShortenedFields` and `BypassedFields` say what the pointer updates do, field by field;
`TakeOffQueues`, `TakeOffLevelEnds` and `TakeOffLevelsLinked` what taking an order off does to the queues and to the level list, with the
cases head, middle, tail and last; `InsertLevel` what linking a new level does. There is one lemma per action (`InvAddOrder`, `InvFillHead`,
`InvJoinLevel`, `InvOpenLevel`, `InvCancelOrder`). `NeverCrossed` then rests on `TopIsBest`: the level `match` looked at last is the best of its side, so
a remainder that does not cross it crosses none. `BestStaysTop` adds `BestPrice` to the invariant: the cached best is the head level's price.

- `RefinesPriceTime`: the refinement mapping reads the live slots as a set of orders (`Shelf`). The head of `topLevel` comes first among them in
  priority (`HeadIsFirst`, from `TopIsBest` and the queues' order), so a fill of the code is a `Trade`; and when `match` stops, nothing on the other
  side crosses what is left (`NothingCrosses`), which is what `PriceTimeBook` asks before it lets an order rest or go.
- `LevelsSuffice` counts: no two levels in use have one price, since an uncrossed book has no price on both sides (`PricesApart`), and a price
  that has no level yet is used by none (`PriceIsFree`); so the levels in use are fewer than the limit prices.
- `NothingLost` needs `History`: the order in a slot, or in flight, has the id accepted under its ticket, and nothing of it was given up. No sum is taken:
  tickets are distinct, so that what is owed under each can be compared with the one order that has it.
- `CancelsReach` uses the same history: an operation takes over or clears the entry of its own order's bucket only, which is another bucket than that of an
  order whose bucket no other ticket shares.
- `TotalsAddUp`: a level's total and count are what its queue adds up to. Each step adds, takes off or shortens one order of one queue, and the
  code changes total and count of that level by as much (`TotalsStep`, on SumTheorems); that the level it changes is the one the price maps to is `ListsLinked`.

**SPSCQueueProofs** (400): `TypeCorrect`, `NeverRaces`, `RefinesFifo`. `IInv == TypeOK /\ Ordered /\ PushAt /\ PopAt`: around the
ring the four indexes keep the order `headSeen`, `head`, `tailSeen`, `tail`, however old the loaded values are, and each thread's local slot is
the index it owns. `RefinesFifo` shows that `Publish` is a `Put`, `Release` a `Take`, and every other step a stutter.

**SumTheorems** (487) is about the sum of a function over a finite set, `SumFunctionOnSet` of the community modules: a fold that picks an arbitrary element at
a time. That sums exist and do not depend on the order of picks would be an induction, and the library's induction theorems take operators that no prover
here instantiates. A smallest set for which a claim fails (`MinimalSubset`, from the well-foundedness of strict inclusion) takes its place: it has an
element to pick, and the claim holds without it. On this rest `SumRemove`, `SumChange`, `SumDiffer` (one summand changes, joins or leaves), `SumMonotone`,
`SumScaled` and the like, and `LeastNumber`, which serves for sequences and recursive functions in the same way.

**FillPipelineProofs** (1761): `PipelineTyped`, `FillsAppliedOnce`, `MoneyMatchesFills`, `RowsMatchFills`, `RefinesSettlement`, `LocksBelongToTransactions`. The inductive invariant is
`Core == TypeOK /\ Identified /\ Holding /\ Applied`: fills under way have ids of their own (`Identified`); the unique index lets one worker only past
`Insert` with a fill, whatever replica it is on (`Holding`); and what was paid and moved of a fill is what its worker has reached (`Applied`), or
what it had reached when it failed. With that, a step pays or moves the fill of one worker, and the sums of `BalancesMatchFills` change by it. `RowsMatchFills` needs two
more: the engine fills no order beyond its quantity (`BookSound`), and what a worker has loaded from a row is no more than what was written to it
(`OrdersSound`), so that two workers that load the same row lose an update and gain none.

- `RefinesSettlement`, the refinement `KeepsPromise`, comes from the same invariant: `Insert` of a fill that the index lets in is a `Record`, and one it
  refuses is a stutter; `PaySeller` is a `Settle`, for a worker past the index that has not paid yet has an unpaid fill, and both rows change in one step; the moves come
  in order, for each worker knows what it did. Everything else leaves the tables alone. `FillsAppliedOnce` is the invariant `AppliedOnce` in
  `FillPipeline`, which the refinement implies; it is proved by itself and not run.
- `LocksBelongToTransactions`: a balance row is locked exactly by the worker that is between the two statements of its transaction on it (`LocksHeld`, inductive with
  the types). No failure, abort or crash leaves a lock behind, so that whoever waits for a row waits for a worker that is about to pay.

**EngineLogProofs** (1411): `LogTyped`, `NumbersHaveNoGaps`, `LogAhead`, `StopsKeepAll`. The inductive invariant `Sound` adds to the types that a
process which takes no messages has neither books nor a buffer (`Quiet`), that frames are counted from when `dispatch` sets out to append one
(`Counted`), that behind whole frames only a frame has its place as its number and the next one will have (`Sequential`), that only a death tears
a frame (`Unbroken`), and that the operation under way is the last logged (`LastLogged`). A log can be garbled and go on with any number: `Numbered` survives, for
the torn frame ends what is readable. `WriteAhead` is inductive with `Sound`; `StopsKeepAll` needs `Kept`, the same claim of the log before the frame under way.

**LedgerProofs** (962): `LedgerTyped`, `KeyMadeOnce`, `AnswersAreMade`, `AllAddUp`, `DecisionsStand`. `IInv` has, beside the types: until a key expires one
handler at most is at work under the claim, it has deposited exactly if it is past its deposit, and only retries of a complete key come past the claim
besides (`HandlersSound`, `KeyKept`); a key is complete after a deposit only (`MadeFirst`); an open review is of a pending withdrawal and the only one of it (`ReviewsSound`), for the row
is locked; and the pending withdrawals are those with a hold (`HoldsSound`). `BalancesAddUp` then follows step by step: each changes one summand of one user.

**AlgoExecutionProofs** (1687): `CancelStands`, the action property `CancelHolds`; `OrdersSentInFull`, `AlgoTyped`, `LocksAreOwned`. `IInv == Shape /\ Bounded /\ SendHolds /\ PassHolds`: during
a pass the executor holds the lock, what it has left to visit is pending or running and the order it is about is running (`PassHolds`), and a
caller about to release the lock is the one that holds it (`SendHolds`). `Bounded` keeps the orders' numbers in the domain of `sent`.
`OrdersSentInFull` adds `Sound`: whichever way an order is cut, its children are whole, that is, they sum to it and are in the order of their times
(`TwapWhole`, `VwapWhole`, `IcebergWhole`: integer division leaves a remainder which the last child takes, and VWAP's shares, rounded down, are together no more than the order); and
before a submitted child every child was tried (`Kept`), so that none is sent twice and what was sent sums to the children marked so.
`LocksAreOwned` says where the locks are: that of the orders with a caller exactly while it sends and with the executor exactly during a pass, the
profiles' read lock with callers between their cut and their return. Who has the first waits for room in a channel at most, who has only the second waits for
the first: the waits for locks cannot form a circle.

**ServiceProofs** (2182): `PartsBehave` says that a behaviour of `MCServices` is one of every service (of the feed's tasks without their fairness, unless they are the part), so that what is proved of one holds of the run, and
`ServicesTyped` collects the types. Service by service:

- TransactionManager, `NonceNeverAhead`, `NeverExecutedTwice`. `TxInv == TxTypeOK /\ Resendable /\ PoolNew /\ RoundOpen /\ ExecutedOnce`: a request that may
  be sent again is on the chain at the provider's nonce or later, if at all, so a broadcast that the node accepts, at the chain's end, is of one that is not
  (`Resendable`), and what waits in the pool is not mined yet (`PoolNew`). The provider's lagging nonce, a nuisance otherwise, is what this rests on.
- RateLimiter, `BurstsBounded`. `Paced` says, of every client, that the requests before the open window were let through at its start at
  the latest, and those more than `Limit` before it a whole period earlier, since the window between took `Limit` at most (`Steady`); `Spread` is the bound itself.
  A sweep drops a window only at its end, so that whatever opens next starts no earlier. With one window's limit at either end of a period, the bound is twice the limit.
- CircuitBreaker, `OpensAtThreshold`. With the types, `ClosedBelowThreshold` is inductive by itself: whoever counts the threshold up holds that count until it has the lock.
- MarketLifecycle, `FinalStatusStands`. `SeenAllows`: a request past its check has seen a status that allows its operation, which none of the final ones does, but that a cancelled
  market may be cancelled again.
- OrderIntake, `PlacedOnce`. `OiInv` has `Filed` and one `KeyInv` per key: until a key expires one handler at most is past the claim of it,
  and an order of the key exists only if that handler has it in hand or the key stays taken.
- RiskManager, `RiskTyped`, `LossStops`. `TrippedByLoss`: the breaker has tripped while any user's loss of the day is at its limit; a new day resets both in one step.
- PositionMonitor, `LotsKeepCover`. `Covered` keeps each net quantity at what was traded, and the lots at no less than it. That a sale takes no more out of the lots than it sold is
  `SoldLittle`, from the recursive function of `SoldFrom` (it exists: `SaleGoes`) and what is left after each lot (`TakesLittle`). That the result of a long position is no
  loss at the dearest lot's price is `AverageBelow`, on `SumScaled`; that one market holds more than half, at most, is `OneConcentrated`.
- TradingFeed, `LoopsWindDown`. Once a loop was told to end (the engine was stopped or the breaker tripped, and for the data loop the feed has ended), it stays told, and whatever
  step changes where the loop is brings it closer to its end (`Turns`). That it takes these steps is the fairness, and with it `LoopsEnd`.

Model-checked only: liveness (`KeepsPromise` of the queue with its fairness, `KeepsAccepting`, `KeepsProcessing`, `CallsReturn`, `EveryChildTried`, `LoopsEnd`), which the
prover cannot do. Their safety halves are proved where there is one: the queue's refinement (`RefinesFifo`), that no lock is left behind for `KeepsProcessing` and `CallsReturn`
(`LocksBelongToTransactions`, `LocksAreOwned`), that nothing sets a loop back for `LoopsEnd` (`LoopsWindDown`). The type invariant of `SPSCQueue` is proved and not run.

## Where code and documents disagree

- `spsc_full`: `engine/tests/test_spsc_queue.cpp:24` expects a queue of capacity 4 to take four items; it takes three.
- `fills_restart`: `README.md:206` promises no lost fills after a restart. A book numbers its fills from 1 again, and the
  unique index on (market_id, sequence) drops a new fill as a duplicate of an old one.
- `log_replay`: `README.md:26` and `:206` say that the engine replays its log. `main` counts the records (`engine/src/main.cpp:213`) and starts with
  empty books.
- `ledger_retry`: `README.md:202` says that a retry returns the cached answer without executing again. If the key expires between the
  two statements that look at it, the deposit is made a second time.
- `pnl_calls`: `api/tests/integration_tests.rs:170` awaits `record_fill` and goes on. `record_fill` holds the write lock on the positions
  (`analytics/src/pnl.rs:77`) while `update_daily_record` asks for a read lock on them (line 164), and never returns. `end_trading_day` takes the
  locks in the opposite order, too.

Seen on the way, and in the models, where no document or test says otherwise:

- an open breaker stays open, since its clock stands still (`common/src/circuit_breaker.rs:53`);
- a confirmation that is lost leaves the wallet's nonce behind the chain's until a restart;
- a settlement fails when anyone holds a position, so that no payout is ever made;
- no order is ever held against a user's risk: `OrderService` asks about a fresh random user, in a risk manager that sees no fills;
- the balance in `RiskManager` takes the whole result of the day again with each fill, and with a peak of zero the drawdown limit does not bite;
- a lot that a sale only begins keeps its full size;
- the trading engine sends no subscription, and its data loop keeps the stream's lock while it waits for an event;
- a claimed idempotency key stays in processing when its request is refused, so that a corrected retry conflicts for a day.

## Not modelled

- Floating-point statistics (signals, regimes, arbitrage, predictors, the risk score), request signing, ABI encoding, parsers,
  cryptography and sockets: byte-level or numerical code without a protocol, out of TLC's reach.
- The HFT pipeline: `MarketDataParser::parse_orderbook` is a stub that leaves the update at its defaults, so that `process_update` drops
  every update and nothing ever enters the queues. What it is made of, the queue, is `SPSCQueue`. (`stop` joins threads whose loops do not look at
  `running_`, and `submit_order` is a second producer on a queue for one.)
- Audit, auth, cache, configuration, health, metrics, and the lists of the API: single statements.
- `engine/src/snapshot.cpp`, `orders/src/circuit_breaker.rs`, `positions/src/processor.rs`, the crate `risk`, `process_fill` and `finalize` of
  the reconciler, the registry of breakers, `get_and_increment_nonce`: nothing calls or declares them.
- Payouts of a settlement and their arithmetic, which no input reaches (see MarketLifecycle).
- The files `cuda.cpp`, `irq.cpp`, `kernelmng.cpp` and `processlist.cpp` at the root: no part of a build of this system.
- Within the modelled components: wire formats, wording, identifiers and timestamps; conversion of amounts from floats; depth
  and other read-only queries; `size`, `empty` and the unused pools of `spsc_queue.hpp`.

## Plan

Written so far, in order of importance: `OrderBook`, `SPSCQueue`, `FillPipeline`, `EngineLog`, `Ledger`, `AlgoExecution`, then the services. Left:

1. `HftPipeline`, two threads over three queues, once its parser is written; it would instantiate `BoundedFifo` in place of `SPSCQueue`, which the refinement justifies.
2. Payouts, once the positions can be read: a settlement composed with `Ledger` through `balances`. Nobody is to be paid twice, which two settlements that both read an
   open market would do.
3. Theorems: those of the two modules above, once they are there. Of what is modelled, no safety property is left.
