# Formal models of hikyuu

TLA+ specifications of the parts of [hikyuu](../src/readme.md) whose correctness depends on
interleavings, on the order of calls, or on long sequences of legal calls; TLC configurations that
check them on small instances; and proofs, checked by TLAPS, for every instance.

All C++ paths below are relative to `src/hikyuu_cpp/hikyuu/`. The map from definitions to source
lines, the runs, the mutants that show each property can fail, the hazards and the theorems are in
`PROJECT.json`.

To check: `tlc -config MCResourcePool.cfg MCResourcePool.tla` (likewise the others), and `tlapm` on
`ResourcePool_proofs.tla`, `ResourceVersionPool_proofs.tla`, `ResourceAsioPool_proofs.tla`,
`TimerManager_proofs.tla`, `GlobalStealThreadPool_proofs.tla`, `Strategy_proofs.tla`,
`System_proofs.tla` and `Backtest_proofs.tla` (the last, on the account and the aggregate, is the longest:
about a quarter of an hour).

---

## 1. Inventory of the system

hikyuu is a back-test and live-trading framework. A C++ core holds stocks and K-data, runs trading
systems bar by bar over an account, and offers thread pools, resource pools, timers and a market-data
agent to do so concurrently; Python drives it. The components, what they keep, and what makes them
hard:

### 1.1 Concurrency utilities (`utilities/`)

| Component | State | Operations | Hard behaviour | What makes it correct |
|---|---|---|---|---|
| `ResourcePool`, `ResourceVersionPool` (ResourcePool.h) | mutex, condition variable, idle FIFO, counter, closed flag, number of waiters, registered closers; version and parameters | `get`, `getWaitFor`, `getAndWait`, dropping a handle, `releaseIdleResource`, the limits, `setParameter`/`incVersion`, destructor | lost wakeups, handles that outlive the pool, counters changed in five places, stale parameters | exclusive ownership, exact count, no lost wakeup, a destructor that is last, current versions only |
| `ResourceAsioPool`, `ResourceAsioVersionPool` | lock-free idle queue, atomics, list of waiting coroutines with a hand-over slot each | the same, as coroutines | two atomics that must agree, registration against return | as above |
| `ResourceTlsPool`, hybrid pools | a cache per thread, in front of a shared pool | as above | threads that end while holding a cache | as above |
| `GlobalStealThreadPool` and its queues | master queue, a deque per worker, task and sleep counters, interrupt flags | `submit`, worker loop, `join`, `stop`, `wake_up`; waiting by running other tasks (algorithm.h) | nested waiting, shutdown against submission, sleeping against pushing | each task at most once, `join()` waits for what it promised, nobody waits for ever |
| `ThreadPool`, `MQThreadPool`, `StealThreadPool`, `MQStealThreadPool` | queue(s) and a done flag | `submit`, `join`, `stop` | shutdown by null tasks among real ones | as above |
| `TimerManager` (and the scheduler singleton) | timers by id, a queue by time, a detection thread | add, remove, start, stop | removal against firing, reuse of ids, a wait without predicate | a timer fires as often as promised, none after removal |
| `LruCache`, `FileLock`, `snowflake`, `FilterNode` | small | sequential, or one lock | boundaries | size bound, uniqueness |

### 1.2 Trading core

| Component | State | Operations | Hard behaviour | What makes it correct |
|---|---|---|---|---|
| `TradeManager` | cash, long and short positions and their history, loans, borrowed stock, the trade log, and per-stock frontiers up to which ex-rights events were applied | check in/out cash and stock, borrow/return cash and stock, buy, sell, sellShort, buyShort, queries of the past, reset, save/load, addTradeRecord | ex-rights events are applied lazily, by whichever call comes first; records are inserted in the past; buy and sell call borrow and return half way | the log replays to the holdings, the books balance, each event reaches each holding once |
| `System` | four lists of delayed requests, take-profit ratchets, the previous validity of environment and condition | one step at the open and one at the close of each bar; forced sales and delayed requests on behalf of a portfolio; reset | requests that wait over limit boards and suspended days while signals and validity change | entries are void while invalid, a liquidation is not forgotten, ratchets only tighten |
| `MultiSystem`, `WalkForwardSystem` | sub-systems, sub-accounts, an event loop over their bars | run, the portfolio calls forwarded to children | a shared account, netting, forwarding of some calls and not of others | per-child books add up to the parent's |
| `Portfolio`, `Selector`, `AllocateFunds`, `MultiFactor` | running systems, delayed adjustments, sub-accounts | one step per bar: selling, adjusting, allocating, buying | the order of the phases, cash moved between accounts | cash is conserved, no system is run twice |
| signal, money manager, stop-loss, profit goal, slippage, environment, condition | numeric | formulas | none of order | - |
| `Performance`, cost functions, indicators, factors, analysis | numeric | formulas over series | none of order | - |

### 1.3 Live runtime

| Component | State | Operations | Hard behaviour | What makes it correct |
|---|---|---|---|---|
| `Strategy` | an `alive` token shared with timer callbacks, running flag, event queue, generation of events, `periodic_armed` per daily function | `start` (stays in the event loop), `stop` from any thread, timer callbacks that queue events, alignment one-shots | stop against everything; restart with callbacks of the last run still around | no task after stop, a loop that ends, daily functions that survive |
| `SpotAgent`, `GlobalSpotAgent` | receive thread, batch status, work pool | start, stop, callbacks | stop against receive | each batch processed in order |
| order brokers, `BrokerTradeManager`, `RunSystemInStrategy` | a book mirrored from a real account | buy, sell, refresh | what the broker confirms late, in part, or not at all | the mirror agrees with the account |

### 1.4 Data

`StockManager`, `Stock`, `KData` (loading, reload, locks between readers and loader), drivers for
MySQL, SQLite, HDF5, ClickHouse and TDX files, shared memory K-data, `Block`: mostly I/O around a few
locks. Serialization, plug-ins, HTTP, node messaging, database connections, date and time, the Python
bindings and the Python applications carry no protocol of their own.

### 1.5 How they interact

* `TimerManager`, `SpotAgent` and the asynchronous SQLite connection run their callbacks on a
  `ThreadPool`; index calculation, back-test loops and loading use the global stealing pool through
  `parallel_for_*` and `wait_for_all_non_blocking` (thread/algorithm.h).
* Data drivers take database connections from a `ResourcePool` (data_driver/DriverConnectPool.h).
* `Strategy` registers callbacks with the scheduler's `TimerManager` and with `SpotAgent`; they run on
  those threads, look at the token, and queue events for the loop of the owner's thread.
* `System` calls its parts (signal, money manager, ...) synchronously and trades through
  `TradeManager`; `Portfolio` and `MultiSystem` drive many `System`s bar by bar.
* `TradeManager` asks `Stock` for the ex-rights events of a period and passes orders on to brokers.

---

## 2. What is modelled

| Module | Code | Proofs in |
|---|---|---|
| `PoolContract` | what every pool promises, abstractly | |
| `ResourcePool` | utilities/ResourcePool.h, first class | `ResourcePool_proofs` |
| `ResourceVersionPool` | utilities/ResourcePool.h, second class | `ResourceVersionPool_proofs` |
| `ResourceAsioPool` | utilities/ResourceAsioPool.h | `ResourceAsioPool_proofs` |
| `TimerManager` | utilities/TimerManager.h, and ThreadPool.h as far as it is used there | `TimerManager_proofs` |
| `GlobalStealThreadPool` | utilities/thread/GlobalStealThreadPool.h, WorkStealQueue.h, the waiting loop of algorithm.h | `GlobalStealThreadPool_proofs` |
| `TradeManager` | trade_manage/TradeManager.cpp | `Backtest_proofs` |
| `TradeBooks` | no code: the terms the proofs about `TradeManager` are stated in | |
| `Strategy` | strategy/Strategy.cpp, Strategy.h | `Strategy_proofs` |
| `System` | trade_sys/system/System.cpp | `System_proofs` |
| `SubSystem`, `SubSystemContract` | what an aggregate sees of a `System` | |
| `MultiSystem` | trade_sys/system/imp/MultiSystem.cpp, the shared account (mode C) | `Backtest_proofs` |
| `MC*` | the instances | |

### 2.1 `PoolContract`, `ResourcePool`, `ResourceVersionPool`

The contract knows which resources exist, who owns each, and the limit: create below the limit,
acquire a free one, keep or drop a returned one, trim free ones. It has no mutex, no waiting and no
counter. `ResourcePool!Contract` maps "exists" to what is idle or held, "owner" to the holder;
`ImplementsContract` says every step of the pool is a step of the contract or a stutter.

In the pool modules one step is one body under `m_mutex`. Outside the mutex, and therefore steps of
their own, are: blocking on `m_cond` (`GetWaitFor` ends asleep), being notified or timing out, taking
the mutex again (`SleepAgain`, `LeaveWait`), and the closer's read of its pool pointer
(`CloserSeesPool`), which the code makes before it locks (line 289). Dropping a handle is therefore
two steps, with the destructor free to run in between. The destructor is two steps when getters are
blocked (`DestructorCloses`, `DestructorEnds`), one otherwise. A call that throws, or returns null,
before it changes anything is a stuttering step; a resource constructor that throws is one of these,
because the code creates before it counts.

`ResourceVersionPool` adds versions and parameters. The stamp a resource was made with is history.
`Current` and the test of a returning resource compare versions as the code does. The two limits are
variables, as in the first pool, and their setters may be called at any moment, during a wait too.

### 2.2 `ResourceAsioPool`

The pool for coroutines: a lock-free idle queue, two atomic counters, the limit as a compare-and-swap,
and a registry of waiting coroutines, each with a one-place slot in which a returning thread, the
coroutine's own time-out and the destructor meet. A step is one access to what is shared, so that a
return of a resource is up to five steps and anybody else may come in between. `m_registeredWaiters`
is the length of the registry; the idle list is a set, since any order of a concurrent queue is possible.

A version is compared with the current one only, and the current one only grows: `stale` and `outdated`
say which resources and which calls carry an old one, so that any number of changes is covered. A
coroutine that waits may be destroyed with its executor (`DestroyCoroutine`), with what was handed to it
or found by it.
Without version changes the module is `ResourceAsioPool`, the first class of the file.

Left out: the parameter object; the wait of the destructor for its two counters is one look at both;
nobody calls a pool whose destructor has begun, but every call that was inside goes on.

### 2.3 `TimerManager`

A table of timers, a queue of their next moments, a detection thread, the thread in `start()` and
`stop()`, a client in `addFunc`, and the worker of the pool that runs the callbacks. A body under
`m_mutex` is one step; the looks at `m_stop` outside it, the notifications and the joins are steps of
their own, because `stop()` stores, notifies and joins in between. Ids are allocated cyclically from a
small range, so that they are reused. The arithmetic of moments (`FirstMoment`, `NextMoment`: a daily
window, rounding to the interval, one time of day) is the code's, over days of two moments.

Bounds and simplifications: one client at a time is on its way out of `addFunc` (`adding`), the `now` it
reads belongs to the step that inserts, and the clock starts on the second day. `OwnerStopsPool` is the
owner of a foreign pool stopping it under the timer manager's feet.

### 2.4 `GlobalStealThreadPool`

Workers are the numbers `1..WorkerNum`. Each thread has a stack of tasks:
a task that submitted others waits for them by running what it finds (`Help`), on top of its own stack,
so only the top one advances. Pushing, popping and stealing are one step each (each queue has its own
mutex, held for one operation); the steps of `submit()` between its two looks at `m_done`, the raise of
the counter, the push and the notification are separate, as are those of a worker going to sleep: raise
`m_sleep_count`, take `m_cv_mutex` and test the predicate, block. `join()` and `stop()` share
`m_join_mutex` and are modelled from entry to return, with the interrupt flags handled one worker at a
time under `m_cv_mutex`.

A task that submitted others ends (`FinishTask`) when `get()` has answered for each of them: it was
executed, or thrown away with its promise (`Answered`). The wait before it returns early in a pool that is
done, `get()` does not. A task whose next `submit()` is refused may also end by that exception
(`ThrowTask`); nobody counts on it. How far a task is between its submissions and its `get()` is not part of
the state.

Left out: what a task computes, the value of a future, and a thread constructor that throws.

### 2.5 `TradeManager`

The account is one record with the members of the class, and each handler of the code an operator from
an account to an account, because `buy`, `sell`, `sellShort` and `buyShort` call other handlers half
way (borrowing before a purchase, repaying after a sale) and what they have done stays done when the
outer call is then refused. Guards keep the order of the code's early returns, since `updateWithWeight`
runs before some of them and after others. Dates are day numbers; money and shares are whole numbers;
the margin rate 0.6 is 3/5; fees are constants.

`updateWithWeight` is modelled whole: the early return for dates up to the last update, the window of
each stock from the later of the day after the last record and the stock's frontier, the records of an
event on long, short and borrowed shares, the rounding of a consolidation, the sort of the new records
by date and the running cash balance filled in afterwards. The code goes through three maps one after the
other and sorts what they wrote by date, keeping the order within a date; the model goes from day to day
and on each day through the three maps, which yields the same list because no holding depends on another.
The batch so far (the account, and the buffer of new records) is passed along by recursive functions
(`WeighOne`, `WeighSide`, `WeighDay`, `Weighed`). `ReloadAccount` is save followed by load: the last update
and the frontiers are not archived.

An event scales the lots of a borrow record by a factor that seldom is a whole number. The record therefore
carries a `unit`: a lot of `number` stands for `number / unit` shares, exactly.

`addTradeRecord` books a record made elsewhere, one operator per kind of record (`add_buy_tr` and its
siblings): it takes the record at its word and makes none of the decisions of the live handler.

Not modelled: `addPosition` (a holding that nobody paid for, given to a fresh account: neither the log
nor the books know of it), registered order brokers, the recorded command script, and the valuation part
of `getFunds`.

### 2.6 `Strategy`

One thread, the owner, calls `start()` and stays in the loop; others call `stop()`; workers run timer
callbacks. Each access to an atomic, each queue operation and each call of the scheduler is a step:
`stop()` alone is six. A task of the loop may call `stop()` too. The scheduler is external: a one-shot
fires once, at any later time, on any worker, and what was registered is never withdrawn.

One `runDaily` function is modelled, with its `periodic_armed` flag: `start()` either arms its periodic
timer at once or registers an alignment one-shot that arms it later, if it finds the token alive.

Not modelled: `runDailyAt` (registered once, never withdrawn), the spot agent's callbacks beyond the
guard and the `event()` they share with timers, the trading helpers, and the process-wide
`ms_keep_running`.

### 2.7 `System`, `SubSystem`, `SubSystemContract`

`RunMomentOnOpen` serves one list of delayed requests per bar, the first that is not empty of sell,
sell short, buy, buy short, or none when the bar's prices are inconsistent;
`RunMomentOnClose` makes the decision of a bar: environment, condition, signals, stop-loss, take-profit
and goal, for long and short. What the parts of a system answer is chosen freely within what their
interface allows. A bar is a member of a small set: one price or several, how a one-price board moved,
with or without volume; that is all that the code looks at to decide whether a trade is possible.
`Trade`, `ServeOne` and `Served` are the code's pairs `_buyNow`/`_buyDelay` and so on, written once for
the four sides; where the sides differ in the code (who checks the volume, who clamps the size, who
forgets a request) they differ in the model.

A size is a number of shares. The money manager cuts an order to enter to lots and a sale to the maximum;
when the environment or the condition forces an exit it asks for everything (`ForcesOut`; two switches
turn that off). The trade manager refuses what is below a lot or above the maximum, unless the order is for
everything (`Refused`). A delayed sale that was sized when asked for, and a forced sale of the portfolio,
are made by the number of shares even when they are for everything, so that an odd lot or a position above
the maximum is refused; `refused` remembers that a delayed sale was gone like that.

The portfolio's calls (`SellForce`, `PfProcessDelayRequest`, the two clears) may come at any time after
a bar's step.

`SubSystem` is what an aggregate needs to know of a system: whether it holds, whether it owes, and which
of its lists are not empty, with one operator per call that gives every state the call can lead to.
`SubSystemContract` makes it a specification, and `System!ImplementsContract` says that every step of
the detailed system (sizes, lots, limit boards, take-profits, ratchets, all four settings) is one of
them or a stutter. `MultiSystem` then is built from `SubSystem`, not from `System`.

Not modelled: adjusted K-data, ex-rights events that change a position (odd lots come from sales that are
not cut to lots), saving and cloning, several `run()`s without a reset, a trade manager shared over
resets, and `lastSuggestion()`, which only reads.

### 2.8 `MultiSystem`

Sub-systems on a shared account (mode C), driven once at the open and once at the close of a day. The
selector is free: any set may be admitted on any day. A step is one stage of one day: at the open the
removal of delisted positions, the sweep of the force-sell pool, the drive of the two pools; at the close
of a rebalancing day the removal of the deselected, the drive, the forced or last sale of each removed
sub-system and the hand-over of what still holds. The mutual exclusion of the two pools is not a variable
of the code but a consequence of a filter in the one and of the order of the updates.

The pools are sets: their order only decides who gets the cash first, and any purchase may fail. Each
sub-system has a stock of its own; the switches are fixed for a run; a stock has a bar today or it has
not (`quoted`), and none after `Delist`. `Reload` saves, loads and continues without a reset, which keeps
the sub-systems and loses the pools; `unfollowed` remembers what was held then. A forced sale of a position is
accepted or refused freely, since its size is not part of the state; `refused` holds the members of the
force-sell pool whom a sweep was refused, until they leave it.

Not modelled: the shadow accounts of mode A and the quotas of mode B, which are arithmetic over cash and
weights; sub-systems that are aggregates; the calendar of rebalancing days; turnover and cycle signals.

---

## 3. What the runs check

| Run | States | Question |
|---|---|---|
| `MCResourcePool` | 19 278 | counting, exclusive ownership, wakeups, destruction, the contract, under limits changed at any time |
| `MCResourcePoolStuck` | violation | does a getter block only at the limit? |
| `MCResourceVersionPool` | 496 536 | is a stale resource ever handed out, or a getter without timeout told it timed out, under limits changed at any time? |
| `MCResourceAsioPool` | 1 260 275 | are resources counted and owned once over hand-overs, time-outs and destroyed coroutines, and does the destructor return, last? |
| `MCTimerManager` | 408 512 | do the table and the queue agree, do timers run as often as asked, when due, and does `stop()` stop? |
| `MCGlobalSteal` | 778 777 | tasks lost or run twice, counters, closing, lost wake-ups |
| `MCGlobalStealStop` | violation | does a `stop()` that was let in return? |
| `MCTradeManager` | 107 508 | do the books, the log, the account rebuilt from it and the lazy ex-rights events agree? |
| `MCStrategy` | 568 911 | tasks after stop, the daily function over restarts, the end of the loop |
| `MCStrategyRestart` | violation | can a `stop()` abort the next `start()`? |
| `MCSystem` | 127 150 | void entries, pending liquidation, ratchets, the contract of a sub-system |
| `MCMultiSystem` | 145 932 | is every position followed, every sub-system driven once, every removed one sold out? |

### 3.1 Properties worth a word

* `NoSleeperMissedWakeup`: no getter sleeps while an idle resource is there or the pool is closed. It
  fails as soon as a return notifies one waiter instead of all.
* `HandedOutIsCurrent` is an action property: it looks at the parameters at the moment of the hand-over,
  after a wait during which they may have changed.
* `ResourceAsioPool!CountExact` counts what exists in every place a resource can be: idle, held, in the
  hands of a call, or handed over and not yet claimed. It fails when a waiter's node is used again
  before the thread that is about to claim it has let go. `DestructorIsLast`: when the destructor has
  seen its two counters agree, no resource is left anywhere, not even in hands that still run.
  `DestructorReturns` holds unless a coroutine was destroyed with a resource (see 3.3).
* `EntriesMatchTimers`: a running service has exactly one queued moment for each timer, a stopped one
  none for a timer that does not exist, whatever `addFunc`, `removeTimer`, `stop()` and the next
  `start()` leave behind. `RemovedRunsOnceMore` is the most that can be said of a removed timer: its
  entry stays queued. `StopReturns` excepts the window in which `stop()` may hang (see 3.3).
* `NeverTwice`: a submitted task is on its way in, or once in one queue, or once on one stack, or
  executed. `JoinKeepsPromise`: `join()` of an until-empty pool has executed what it found *and all that
  this submitted since*. `NobodySleepsOn` and `NoTaskSleeps` are about the wake-ups of closers and
  submitters: the first holds because the flags are set and the predicate read under one mutex; the second
  although a submitter notifies without it, because at most one worker can be between the two, and it does
  not say anything of a pool with a single worker (see 3.3).
* `LogMatchesAccount`, `RebuiltFromLog` and `BooksBalance` relate three representations of the account:
  the positions and debts, the log, and the totals. The first replays the log as the queries of the past
  do; the second feeds it to `addTradeRecord` of a new account, which must come out the same in every
  position, closed or open, every loan and every record; the third is double entry over cash, and over
  the lists of debts. `ExRightsExactlyOnce` compares the lazy update with a reference that applies events
  day by day. `HistoryIsFinal`: no step changes what the log says of an earlier day.
* `CoverLostOnlyByReturn` names the two actions that may uncover a short position: `returnStock` called by
  the client, of that stock, and `addTradeRecord`. The automatic return inside `buyShort` is not excepted,
  and ex-rights events round debt and short separately: it fails when the debt alone is rounded down.
* `DailyFunctionNotLost`: `stop()` between the registration of an alignment one-shot and its firing
  suppresses it, and the restart must notice. `NoTaskAfterStop` excepts tasks of jobs that saw the token
  alive before `stop()` and read the generation after it (see 3.3).
* `LiquidationPending` and `EntriesVoidWhileInvalid` take several bars to violate; `TakeProfitRatchet`
  relates two states. The first does not speak of a system whose money manager does not force an exit, and
  excepts, until the next close, a position whose sale was refused for its size: without `refused` TLC
  finds a purchase that fills a position above the maximum, whose forced sale is then refused and erased.
* `HoldingsFollowed`: a position of a sub-system that was dropped, sold in part, not sold because its
  stock was suspended, or bought after all, is in one of the two pools. `SweepEndsFlat` and `ForcedOut`
  are the promise of the documentation that what cannot be sold is swept at every following open until
  flat, as a state and as a liveness property, for positions of a size that the account accepts. A member
  that was refused once is excepted until it leaves the pool: it goes on trading, and TLC finds a purchase
  queued after the refusal that is filled behind the next sweep.

Every property of a passing run has a mutant in `PROJECT.json`: a definition changed as a plausible bug
would change it (one notification instead of all, a dropped drain, a frontier used alone, a forgotten
request list), and TLC finds the property violated.

### 3.2 Bounds, and why they are enough

* Pools: three clients and three resources against limits 0, 1, 2: two clients suffice for a lost
  wakeup, three for one that goes to the wrong sleeper. The versioned pool has two versions and two
  parameters: a third version adds nothing, versions being compared only for equality.
* Coroutine pool: three clients and two resources against a limit of two and a registry of two: a full
  registry, a waiter behind another, a return that meets a waiter and one that meets none.
* Timers: four moments (two days), two timers of three kinds, three ids, two starts, one callback waiting
  in the pool: an id is used again while an entry of its former owner may be queued.
* Stealing pool: two workers, one client, two tasks, one of which may submit the other: local pop, steal,
  master queue, nested waiting and helping all occur, also on a client (`ClientsNest`). Two closers in
  `MCGlobalSteal`; tasks and closers are interchangeable (`Symmetry`), workers are not. One closer and one
  `stop()` in the violation run.
* Account: four days; one stock with a dividend, bonus shares and a contraction of three shares to two on
  day 2 and the opposite expansion on day 3, one with bonus shares on day 2, so that two events of one stock
  and one event of two stocks fall into one lazy update, and counts are rounded up and down. The margin
  client sees the first event, with automatic borrowing of stock both; its debts and shorts are rounded too. Logs of at most 4 records for the client that trades long and 5 for the margin client
  (`Profiles`), 4 for the one that is fed records. Calls come in date order (`Chronological`; see 3.3).
* Strategy: two runs, two workers, one queued event (two in the violation run), one stopping thread
  besides the loop itself. `Orderly`: one `stop()` per run, while it runs.
* System: two prices, lots of two shares, at most three in one order and four in a position, so that odd
  lots and positions above the maximum occur; two requests waiting together, seven kinds of bars, four
  settings of the parameters.
* Aggregate: two sub-systems, every combination of the switches with a selector, one without; the two
  pools have at most two members between them, and the conditions are about one sub-system at a time.

Deadlock checking is off where the system may stop: a destroyed pool, a closed thread pool, an account
whose log is full, a strategy that is not started again, a timer service at the end of its clock.
`MultiSystem` never stops and is checked for it.

### 3.3 Findings

Where a comment or document says one thing and the code does another:

1. **A pool without a cache leaves getters asleep** (`MCResourcePoolStuck`). With `maxIdleNum` 0 a
   return deletes the resource and frees the slot but notifies nobody, and the predicate looks only at
   the idle list: `getAndWait()` stays blocked on an empty pool. The same happens when capacity appears
   by raising the maximum or releasing stale resources.
2. **A `stop()` may abort the next `start()`** (`MCStrategyRestart`), which the comment in `stop()` says
   cannot happen: `m_event_loop_running` is still true when the loop is about to leave.
3. **`stop()` and a worker may wait for each other** (`MCGlobalStealStop`). A worker's task that waits for a
   task in its own queue leaves the helping loop when the pool is done and blocks in `get()`
   (algorithm.h:384-386 and its siblings); `stop()`, whose comment says it waits for the tasks being executed
   and exits, joins that worker before it clears the queue (GlobalStealThreadPool.h:252-261), and only the
   clearing would end the `get()`. `join()` of a pool without until-empty, as the global one is, does the same.

Met while modelling, and kept as notes of the hazards in `PROJECT.json`; the properties state the
exception where there is one:

* a task accepted while `join()` closes the stealing pool is dropped, although the comment at the second
  look at `m_done` says it guards against that; without until-empty, `join()` discards what is queued,
  while the comment on the destructor (line 80) speaks of waiting for the tasks;
* a coroutine that joins the registry while a return has found no waiter and not yet pushed sleeps beside
  an idle resource, although ResourceAsioPool.h:1016 says it finds it by itself; a stale resource deleted
  in its second look leaves it asleep beside a free slot; a coroutine destroyed with a resource leaves the
  destructor waiting for ever, against the comment at line 1013; `get()` may stamp a resource of the old
  parameters with the new version (line 791); the last notification may touch a freed pool; and
  `incVersion` ignores its argument;
* `TimerManager::stop()` may hang: the detection thread looks at `m_stop` before it takes the mutex and
  waits without a predicate (TimerManager.h:353); and a timer may fire behind the end of its daily window,
  which is looked at before the first moment is rounded to the interval (line 547);
* a trade dated before a query misses its ex-rights events, although the comment in `buy` says the stock
  is rescanned: `ExRightsExactlyOnce` is violated without `Chronological`;
* `max_delay_count` is without effect: a deferral returns before the count is raised, and a request that
  is looked at is either traded or erased, so that requests pile up behind a locked board
  (System.cpp:1101);
* a sub-system swept flat stays in the force-sell pool until the next open and is driven with its
  signals, so that it may buy, although the comment at MultiSystem.cpp:2380 says it cannot; with
  `trade_on_close` off the last drive of a removed sub-system only queues its sale, and a pool that is not
  driven never serves it; the clearing of delayed purchases is forwarded to children, that of sales is not
  (line 3983);
* a forced sale of the portfolio, and a delayed sale sized when it was asked for, name the number of shares
  of the position (System.cpp:1171, 1356), and the trade manager refuses an odd lot or more than the maximum
  (TradeManager.cpp:993-998), although the comment there says that such a position is sold with
  `MAX_DOUBLE`. The system asks again at the next close (System.cpp:1365 erases the request); a removed
  sub-system is swept and refused at every open, where docs/en/trade_portfolio/portfolio.rst:201-202 says
  "force-swept at every following open until flat";
* a handle dropped while the pool is destroyed may lock a destroyed mutex (ResourcePool.h:289);
* `m_interrupt_flags` is cleared by a worker while a closer, which has tested it, uses it
  (GlobalStealThreadPool.h:244);
* with one worker and a client that executes a task that submits in turn, a push may find the worker
  between predicate and blocking: its notification is lost, the client may not help in a nested wait, and
  client and worker both wait, although algorithm.h:238-240 says that no wake-up is needed there
  (GlobalStealThreadPool.h:199). `NoTaskSleeps` excepts this case;
* a second `stop()` drains the wake-up task of the first, and the loop stays blocked; a `stop()` between
  `alive = true` and `m_running = true` is overtaken by the rest of `start()`; a job that read the
  generation after `stop()` began is executed by the next run; two alignment one-shots of different
  runs may both arm the periodic timer (Strategy.cpp:302); the header says the token is recreated on each
  start, but it is reused (Strategy.h:246);
* on a one-price board that may be traded, a trade at the close ignores a missing volume, the delayed
  ones do not (System.cpp:893); when the environment turns valid while the condition is invalid,
  `ev_open_position` buys anyway (System.cpp:682); with a long and a short position at once, the forced
  exit covers the short only after the long position could be sold.

---

## 4. Fairness

Safety runs use `Spec`, without fairness. Liveness uses:

* `ResourcePool!FairSpec`: threads run, timeouts fire, a started destructor goes on, and a holder drops
  its pointer in the end. Nobody has to get anything, and no return is assumed to notify anybody: what
  is notified is in the actions.
* `GlobalStealThreadPool!FairSpec`: worker loops run, a call that was entered goes on, a task ends once
  the tasks it waits for have been answered for, and a waiting thread keeps helping, as the polling loop of
  `wait_for_all_non_blocking` does. Nobody has to submit or close, and no refused `submit()` has to end a
  task. It is used for the violation `MCGlobalStealStop`.
* `ResourceAsioPool!FairSpec`: whoever is inside a call, a return or the destructor goes on, timers of
  waiting coroutines fire, and a holder drops its resource in the end: one weak fairness condition on the
  running steps together (`Running`), none on new calls, changes of the version or destroyed coroutines.
* `TimerManager!FairSpec`: the detection thread, the worker (a callback ends), a started `start()`,
  `stop()` or `addFunc` run on, and `wait_for` times out. The clock may stand still, a wait without a
  timeout need not end by itself, and nobody has to add, remove, start or stop anything.
* `MultiSystem!Spec`: a day that was opened is closed (weak), and a stock that is not delisted has a bar
  on one open after another (strong: suspensions end). That a sale is accepted is not assumed.
* `Strategy!FairSpec`: a thread inside `start()`, the loop or `stop()` runs on, blocking only in
  `wait_and_pop`. No timer has to fire, nobody has to call `start()` or `stop()`.

All but the bars of `MultiSystem` is weak fairness of steps of threads the operating system schedules.

---

## 5. What is proved

For every value of the constants, under the assumptions named in the modules.

### 5.1 `ResourcePool_proofs`

From `ConstantsOK` (finitely many clients, null pointers that are no resource or client, limits in Nat):

* `Invariance`: `Spec => []IInv`;
* `CountIsExact`, `NoLostWakeup`, `DestructorIsLast`: three parts of it by name;
* `Refinement`: `Spec => ImplementsContract`.

`IInv` is the conjunction of the checked invariants with `Bookkeeping`, which TLC's invariants do not
need but induction does: a closer is registered exactly for each holder while the pool exists, a blocked
getter holds nothing, `closed` agrees with the owner's phase, and only holders return. Without it the
step of a return could lower the count of a pool the resource is not counted in. The parts depend on
each other: `CountExact` needs `Exclusive` only for the refinement (the count is the *cardinality* of
what exists only if nothing is listed twice), `DestructorWaitsForGetters` needs that a getter leaves
`m_waiting` in the same step in which it leaves the wait. The proof has one lemma per action; hand-over,
drop and tear-down, which several actions share, are lemmas of their own. The refinement adds a lemma per
kind of step on how owners change, and uses that the holder of a resource is unique to evaluate the
`CHOOSE` in `HolderOf`.

### 5.2 `Strategy_proofs`

From `StrategyAssumption` (finitely many workers; the owner is not one of the other stoppers):

* `Typed`: `Spec => []TypeOK`, with the bound that there are no more timers for the daily function than
  calls of `start()`;
* `DailyFunctionKept`: `Spec => []DailyFunctionNotLost`, whatever order `start()` and `stop()` come in;
* `StoppedRunsNothing`: `Orderly => (Spec => NoTaskAfterStop)`.

The bound on timers is not inductive: a one-shot that has fired is in neither count until its callback
arms the periodic timer. `TimersPaid` counts those callbacks too (`Pledged`) and the start that has
not registered yet (`Credit`). `DailyKept` extends the property to the end of `start()`'s registration,
and rests on `FlagHasTimer` and on `ArmersAlign` (only an alignment callback gets as far as arming).
`StopInv` says that from the raise of the generation on, every task in the queue, in the loop or on its
way into the queue is out of date or marked late; it needs that at most one `stop()` is under way, which is
where `Orderly` is used.

### 5.3 `TimerManager_proofs`

From `TimerAssumption` (any ids, calendar, requests and bounds):

* `Typed`, `QueueMatchesTable`, `NoExtraRuns`, `QuietWhenStopped`: type correctness and the three
  invariants of the run;
* `RemovedOnce`: the action property, from the same invariant.

The invariant is the checked ones with `TypeOK` and `Phases`, which says where the user thread, the
detection thread and the pool can be at once: without it the table might be rebuilt while a detection
thread of the last start still serves it, and an entry would be there twice. `RunsAsAsked` alone carries
the count of runs, because runs made and runs left never add up to more than was asked for (`AccountKept`), also over
`stop()` and `start()`, which queues only what is still valid (`Rebuilt`). The lemmas on moments say only
that a moment is an integer and that the next one exists; what a calendar means is left to TLC.

### 5.4 `Backtest_proofs`: `MultiSystem`

From `MultiSystemAssumption` (any set of sub-systems, any settings):

* `Followed`: every position is in a pool, or its stock delisted, or the pools were lost;
* `Once`: no sub-system is driven twice in a stage;
* `SweptOut`: no member of the force-sell pool with a bar holds after an open, unless it was refused a sale.

`SweepEndsFlat` is not inductive: a purchase queued before the removal would be filled behind the sweep.
The invariant adds that a member of the force-sell pool that was not refused has no request queued after an
open, and after a close none if it holds, when the liquidation is forced (which `Removed` establishes and
the drive of an idle sub-system at the open keeps), and that the pools are disjoint. The lemmas about `SubSystem` (`OpenedIdle`, `ClosedFromIdle`, ...) are stated once and
cited by the three lemmas of the close.

### 5.5 `ResourceVersionPool_proofs`

From `ConstantsOK` of that module:

* `Invariance`: `Spec => []IInv`;
* `HandedOut`: the action property `HandedOutIsCurrent`;
* `NeverTimesOut`: the action property `AndWaitNeverTimesOut`;
* `RInvariance`: `Spec => []RInv`, one owner for every resource and an exact count;
* `Refinement`: `Spec => ImplementsContract`.

The first two rest on `IdleCurrent`: because a raised version empties the idle list in the same critical section
and a returning resource is compared with the version in its own, nothing idle is ever stale. The pass
over stale entries in `_popCurrentIdle()` therefore never deletes one, and a getter woken by "the list is
not empty" always finds a resource to take. That the version *names* the parameters
(`VersionNamesParam`: of a live resource, the present version implies the present parameters, and no
stamp is ahead of the version) turns "current version" into "made with the present parameters".
`ReturnerHolds` is there for the typing of the list, `ExpiredHasTimeout` for the getter without a timeout.
The limits are any natural numbers and may change between any two steps: also a limit set to 0 (none) while
a getter waits, which it compares with after the wait (ResourcePool.h:569), does not make it time out.

The refinement adds `Exclusive`, `CountExact` and `Bookkeeping` (`RInv`), as for the first pool. There are
many ways through the code to the same effect, so it is split in two: every step is one of five moves of
resources (`Take`, `Make`, `GiveBack`, `Lose`, and `Empty` of the idle list) or leaves them alone, and each
move keeps the invariant and is a step of the contract. That the pass over stale entries deletes
nothing is used again: otherwise one critical section could be two steps of the contract.

### 5.6 `System_proofs`

From `SystemAssumption` (settings are Booleans, bounds natural numbers, the lot and the prices positive, bars bars):

* `SystemInvariance`: `Spec => []SInv`;
* `EntriesVoid`: `Spec => []EntriesVoidWhileInvalid`;
* `LiquidationIsPending`: `Spec => []LiquidationPending`;
* `LevelsAreRatchets`: the action property `TakeProfitRatchet`;
* `SystemImplements`: `Spec => ImplementsContract`.

The first property is inductive together with the shape of the request lists. The step that needs it is the
one in which an environment that turns valid opens a position while the condition is invalid
(`EnvironmentOpens`): the code does not throw the waiting entries away in that branch, and none waits only
because none could while the environment was invalid. Every other step either empties lists or is a close
at which both are valid.

`LiquidationPending` is not inductive: a waiting sale of *some* of the position would be served, the list
emptied, and the rest forgotten. `OnItsWayOut` says more: the *last* request of the list was made by the
environment, which forces an exit, and takes whatever is left (`TakesAll`), or one was refused for its size
since the last close. That it takes all is so because the position does not grow while
the environment is invalid; there the proof needs `EntriesVoidWhileInvalid`, since a queued purchase filled
after the sale was sized would leave a rest.

Trades are summed up by `Toward(side, b, c)`: what any number of trades of one side does to the other side
(nothing), to the position, and to its level. It is transitive, holds of each of the four trades
(`OneTrade`), and so of the books a whole list leads to, by induction over the list (`ServedBooks`).
Ratchets and the contract's `Filled` are consequences of it, so that no branch of the open or of the
close has to look into a trade. The refinement then follows the branches of the code one by one
(`OpenSeen`, `CloseSeen`, `SellForceSeen`, `ClearSeen`); its contribution is that the order of the lists,
the voided entries of a forced exit and the emptied list of a short trade agree with what an aggregate
assumes.

### 5.7 `GlobalStealThreadPool_proofs`

From `ConstantsOK` (any number of workers; clients are no workers, `Null` is no task and no closer):

* `Invariance`: `Spec => []IInv`;
* `ClosedIsOver`: `Spec => []ClosedMeansEnded`;
* `PoolInvariance`: `Spec => []PoolInv`;
* `TasksInOnePlace`, `CountIsExact`, `JoinWaits`: `Spec => []NeverTwice`, `[]CountExact` and
  `[]JoinKeepsPromise`;
* `NoWorkerSleepsOn`, `SomebodyIsUp`: `Spec => []NobodySleepsOn` and `[]NoTaskSleeps`.

`ClosedMeansEnded` is about whichever caller of `join()` and `stop()` returns first, and the second returns
at once when it sees `m_done`. `OneCloserEnds` says why that is not too early: from the moment `m_done` is
set until the last worker is joined the closer that set it holds `m_join_mutex`, so that `m_done` with a
free mutex means all workers have ended. No worker comes back from its end because only a worker inside a
task has a stack (`StacksOfRunners`), whatever it helps with, and a task's end is the only step that sends
a worker to its loop from elsewhere.

For the other three, all queues and stacks are one function from stores to sequences (`Stored`), and a step
moves one entry from one place to another, adds one, or removes one: a lemma for each says that entries
stay in one place. `StoreInv` adds to `NeverTwice` what a submitter between its raise of the counter and
its push carries (`Carriers`): two of them never carry the same task. `CountInv` adds that what is
submitted and not executed is finite. `PromiseInv` says that the tasks a `join()` owes are executed from
the moment one joiner has passed its wait (`PastDrain`) on; the step that matters is a task that submits
another while it is owed: it is not executed itself, so that no joiner is past its wait yet.

The last two rest on `SleepInv`: one worker at most is between its look at the queues and its blocking
(`OneChecks`), and none while a closer handles the flags or later (`ClosersSeen`), since from then on the
pool is done and the predicate true. A notification that finds nobody asleep therefore leaves a second
worker up.

### 5.8 `ResourceAsioPool_proofs`

From `ConstantsOK` of that module:

* `AsioInvariance`, `AsioTypeInvariance`: `Spec => []IInv` and `Spec => []TypeOK`;
* `AsioCountIsExact`: `Spec => []CountExact`;
* `AsioDestructorIsLast`: `Spec => []DestructorIsLast`.

Resources are in many places here: in a `shared_ptr`, in a call, in a waiter's slot, in the idle list. The
proof reads a state as *cells*, one for each such place (`Content`), and every step as one that leaves the
cells alone, moves one resource between two, takes one out or puts one in (`Rests`, `Moves`, `TakesOut`,
`PutsIn`); each keeps `OneEach`, that no two cells hold one resource. `Hands` says at which line a client
has what in its hands. The two counters are compared with the size of what is live, of the idle list and of
the sets of calls between an access to one atomic and to the other (`Counts`), over the difference a step
makes to each set. For the destructor, nobody is inside a getting call once it has begun (`Destroying`), so
nothing is created any more, and equal counters then mean that all that is left is idle.

The registry of waiters is filtered by a recursive function (`Without`); that it yields a registry again is
proved by induction over its length.

### 5.9 `Backtest_proofs`: `TradeManager`

From the assumptions of the module (any stocks, any events on any days, prices and amounts positive, fees
natural numbers, any clients):

* `AccountIsGood`: `TMSpec => []TMInv`, the inductive invariant;
* `AccountMatchesLog`: `TMSpec => []LogMatchesAccount`;
* `AccountBalances`: `TMSpec => []BooksBalance`;
* `AnswersAreFinal`: `TMSpec => HistoryIsFinal`;
* `ShortsStayCovered`: `TMSpec => CoverLostOnlyByReturn`;
* `EventsReachOnce`: `Chronological => (TMSpec => []ExRightsExactlyOnce)`. That calls come in date order is
  the assumption under which the run checks it, and it is needed (see the hazard at TradeManager.cpp:2036).

The terms are in `TradeBooks`. None of the checked properties is inductive: each compares the account with
a sum over its whole log. What is inductive is `Good`: an account of the right types (`IsAccount`), whose log
is in date order, with a running balance, and *tells* the account (`Story`). A **measure** is one number of
an account: how much of a stock is held, short or owed, the cash, the loans, or the costs that no position
carries; a record has an **effect** on each. `Story` says that every measure is the sum of the effects of the
log, so that the holdings, the cash column and the double entry are one statement, proved once.

A handler has to be shown to append one record whose effects are what it changed (`Entry`, one lemma for each
handler and each `add_..._tr`), or nothing; those that call others half way append several (`Leads`: same
calendar, all records of the day). The lists of debts and the gains of positions need lemmas about `Total`
(splitting, changing one place, an erased entry) and about `Repay`, which is shown to take exactly the amount.

The ex-rights update is three nested recursions. `Struck` says what one event does to one holding in every
measure and that its records say the same; `Batch` is kept over the stocks, the sides and the days: the new
records are in date order, after the last trade, and tell what changed since the batch began. Filling in the
cash column at the end is then a step of `RunningCash`. `AfterEvent` is monotone and of the same value for
equal counts, so an event uncovers no short position; the automatic return of `buyShort` takes back at most
what was bought back (`SafeBuyShort`), so it uncovers none either.

`EventsReachOnce` compares with `EagerHolding`, an account that applies each event on its day. The invariant
adds `OnTime`: on the last day of the log every holding is the reference's; events between then and the last
update change nothing (else they would have left a record, and the log would be longer); and no frontier is
ahead of the day after that update. It follows that every event before the scan window has been applied or
has nothing to do, and that none in it has been. A trade drops a frontier at most (`KeepsCalendar`), and a
reload forgets it: neither makes the window reach back over the last record. TLC has confirmed `TMInv` and
`OnTime(tm)` on every state of `MCTradeManager` (which extends `TradeBooks`, so that they can be added to its
configuration).

### 5.10 Only model-checked

* Liveness (`DestructorTerminates`, `DestructorReturns`, `DueTimerFires`, `StopReturns`,
  `StopEndsLoop`, `ForcedOut`), since the prover does not reason about fairness and
  ENABLED.
* `RebuiltFromLog` of `TradeManager`. It compares two accounts that are updated at different times: the live
  one applies the events of several days in one batch, the rebuilt one as the records around them arrive,
  ignoring the records of events. A proof needs that an update to one day and then to a later one is
  the update to the later one, and for each handler that its decisions and the bookkeeping of its
  `add_..._tr` leave equal accounts, field by field: an induction over the log with an invariant on pairs of
  accounts, as long again as what is proved. TLC checks it in all 107 508 states.

The library's induction theorems take operators as parameters, which the installed provers cannot
instantiate. The inductions over lists that are proved (`ServedBooks`, `WithoutQueue`, the sums and the
batches of `TradeManager`) go another way: the recursion is a function on `0 .. n`, and the numbers up to
which a claim holds are shown to be a set that
contains 0 and is closed under successor (`SetInduction`, from the well-foundedness of `<`).

---

## 6. What is not modelled, and the plan

Components with status `not_modelled` in `PROJECT.json` have the reason there. Worth adding, in this order:

1. `ThreadPool` and the other pools with queues: null-task shutdown, against the same promise of `join()`
   as the stealing pool. `TimerManager` has the part of it that a timer service uses.
2. The thread-local and hybrid resource pools on `PoolContract`: a cache per thread.
3. Order brokers and the broker-backed account: what a real account confirms late or refuses.
4. `Portfolio` over `SubSystem`: the order of the phases of a bar, delayed adjustments; modes A and B of
   `MultiSystem`, nested aggregates.
5. A proof of `RebuiltFromLog`, from the lemma that updates compose.

Not planned: numeric formulas (indicators, factors, performance, costs), I/O (drivers, files, network,
shared memory), serialization, the bindings and the Python applications: they have no control state that
outlives a call, and what they compute is the business of unit tests.
