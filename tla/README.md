# Verification of the Pump.fun trading bot

TLA+ models of the bot in this repository (`src/src/`, about 1800 lines of
Rust), TLC configurations that check them on small instances, and TLAPS proofs
of the results that should hold for every instance. Paths below are relative to
`src/src/`; TM stands for `modules/token_manager/token_manager.rs` and TV for
`modules/monitoring/transaction_verifier.rs`.

    tlc -workers 2 -config tm_safety.cfg MCTokenManager.tla
    tlapm TokenManagerProofs.tla

## 1. The system

The bot watches the Pump.fun program. When a new token is created and its
developer buys for 0.5 to 4 SOL, it buys too; from then on a worker per token
follows the price and orders a sale at +50 %, at -10 %, or after 15 s without a
trade.

| component | code | state it keeps | operations |
|---|---|---|---|
| token manager | TM | `workers`: mint -> Sender, `metas`: mint -> static data and balance; one task and one bounded channel per worker | `register_meta`, `update_balance`, `deduct_balance`, `clear_after_sell`, `ensure_worker` (with the worker), `route_trade` |
| main loop | `main.rs:198-472` | `created`: mint -> confirmed?, `wallet_ready`, `last_slot` | a biased select: ready (oneshot), pump transaction, create, sell order, trade, block meta, shutdown |
| buy task | `main.rs:274-333` | a permit of `tx_sem`, a watch channel | build, register in `pending`, send, wait, then `created`, `update_balance`, `ensure_worker` |
| sell task | `main.rs:348-428` | a permit, `attempt: u8`, a watch channel | loop: build, register, send, wait 25 s; then `deduct_balance`, `clear_after_sell`, `created.remove` |
| confirmation watcher | TV | (shares `pending`, `wallet_balance`) | one update of the wallet stream at a time: look up, store the balance, notify, record or remove |
| buy arithmetic | `modules/wallet/utils.rs:10-39` | none | token amount and highest cost of a buy |
| transaction building | `modules/wallet/wallet.rs`, `instructions.rs`, `constants.rs` | keypair, RPC client | buy and sell transactions, `is_wallet_new` |
| decode pool | `main.rs:133-163`, `modules/utils/decoder.rs` | three bounded channels, the threads of rayon | logs -> Create+Trade pairs and trades, in parallel, dropping what does not fit |
| gRPC client | `modules/grpc_configuration/client.rs` | two connections with backoff, the Sender of the "go" | subscribe, signal the "go", forward with 512 concurrent senders, reconnect |
| shutdown | `main.rs:474-486` | a cancellation token, the handles of the tasks | cancel, wait 2 s, abort and join |
| unused code | `main.rs:496-582`, `modules/utils/blockmeta_handler.rs` | | called from nowhere |

How they interact:

    wallet stream --> watcher --(pending, watch channels)--> buy and sell tasks
    pump stream --> main loop --> decode pool --(creates, trades)--> main loop
    main loop --spawns--> buy task --(created, metas, workers)--> token manager
    main loop --route_trade--> worker --(sell orders, 256)--> main loop --spawns--> sell task
    sell task --(created, metas, workers)--> token manager

Shared state is in DashMaps (`created`, `metas`, `workers`, `pending`: sharded
maps with a reader-writer lock per shard, whose guards block the thread and not
the task), in an atomic (`wallet_balance`), in a semaphore (`tx_sem`, 128) and in
bounded channels.

What is hard here:

* **interleaving**: `ensure_worker` is a look-up and an insert; two callers (main
  loop and buy task) race, and the Sender it finds may be that of a worker that
  has left. The clean-up after a sale is four steps on three maps during which
  trades go on being routed.
* **locks across an await**: a worker keeps a read guard of its `metas` shard
  while it waits for room in the sell channel (TM:145-152, 172-182); the main
  loop keeps one of `created` while it waits for room in a worker's channel
  (`main.rs:436-448`).
* **the network**: a transaction is lost, executed late, or executed although the
  RPC call failed; its update is lost, late, repeated, overtaken. The sell task
  retries, and its retries (and the other sell tasks of the mint) share a
  signature as long as the blockhash is the same.
* **limits**: the channels, the permits, `attempt`; a biased select whose first
  branches carry a flood; a balance that is tested by every buy and reserved by
  none.
* **stopping**: four tasks, a thread pool and a process that ends in the middle of
  all that; a loop or a watcher that is parked in a shard lock does not see an abort.

What makes each component correct:

* manager: an order is for what the bot holds, of a mint that has not been
  liquidated; a position always has somebody who will sell it; nobody waits for
  ever.
* confirmation: a buy learns the amount the chain credited; a sell that is
  reported as done has emptied the account; a sell task goes on until that is so.
* buy arithmetic: the amount is the most the lamports buy, the cost bound is the
  slippage.
* main loop, streams and decode pool: nothing is analysed before the wallet is
  watched; the blockhash never gives way to an older one; orders and blocks are
  received however many transactions there are.
* buy decision: what is spent beyond the tested balance is bounded; a mint that is
  held is not bought.
* shutdown: the process ends, and not before the watcher and the main loop have. (The buy
  and sell tasks and the workers are joined by nobody; they go on writing to the maps until
  the runtime is dropped.)

## 2. Modules

| module | models |
|---|---|
| `TokenManager` | the manager, its workers, and the parts of the main loop, the buy task and the sell task that touch it |
| `TokenManagerProofs` | its types, offers, orders, liquidations, that nobody is stuck outside the circular wait, and that nothing ends that wait |
| `Position` | the abstract life of a position, without locks, workers and channels |
| `TokenManagerPosition` | the refinement mapping from `TokenManager` to `Position` |
| `TokenManagerPositionProofs` | the theorem that the one implements the other, and that a position has somebody who sells it |
| `TxConfirm` | `pending`, the watcher, the network side of the buy and sell tasks, `tx_sem`, the two transactions; the cluster and the wallet stream as environment |
| `TxConfirmProofs` | its types, its four safety invariants, and that it never comes to a stop of its own |
| `Settlement` | the abstract outcome of a purchase and its sales, without signatures, `pending`, permits, retries and lost messages |
| `TxConfirmSettlement` | the refinement mapping from `TxConfirm` to `Settlement` |
| `TxConfirmSettlementProofs` | the theorem that the one implements the other |
| `Bot` | `TokenManager` and `Settlement` together, the answers of the one being steps of the other |
| `BotProofs` | its three invariants |
| `Pipeline` | the two streams, the channels, the biased select, the decode pool, the blockhash, the shutdown and what can hold it up |
| `PipelineProofs` | its types, its three safety properties, and where it can stop |
| `BuyGate` | the tests that lead to a buy, what the buys spend, and the balance the watcher stores |
| `BuyGateProofs` | its types and its three safety invariants |
| `BuyQuote` | `buy_instructions_arguments` |
| `BuyQuoteProofs` | the theorems about it |
| `MCTokenManager`, `MCTxConfirm`, `MCBot`, `MCPipeline`, `MCBuyGate`, `MCBuyQuote` | constants (and symmetry) for TLC |

`TokenManager` and `TxConfirm` cut the buy and the sell tasks at the same place:
the moment when the watch channel answers. What the buy task does then in the manager, with its read
guard of `pending` and after it, are two places in `TxConfirm` (`telling`, `starting`) that it leaves
when it has come back; a sell task is at `confirmed` while it clears the maps, with its permit. `TokenManager` takes that answer as a
nondeterministic event (`BuyConfirmed`, `BuyConfirmedBlind`, `BuyAbandoned`,
`SellConfirmed`), `TxConfirm` takes the orders as given (`SellStarts`: any number
of sell tasks for a mint whose buy is done) and explains the answers. `Bot` closes the cut:
it runs the manager against `Settlement`, which `TxConfirm` implements, and shows that each gives
the other what it takes for granted. `Pipeline` is what happens before an event
reaches a branch of the main loop: there a branch is one or two steps that say how
long the loop is away, and `TokenManager` says what the branch does to the maps.
`BuyGate` is the one branch in which the loop decides something, with the amounts.

### TokenManager

| state | code |
|---|---|
| `created[m]` | entry of `created`: absent, `confirmed == false`, `confirmed == true` |
| `metas[m]` | `None` or the `balance` of the entry; the two addresses are static |
| `workers[m]` | the registered Sender, named by the worker that receives from it |
| `worker[w]` | a worker task: where it is, the trades in its channel (market caps), `entry_mc`, and the amount of the order it is sending |
| `sellQ` | the sell-order channel |
| `main`, `buyer[b]`, `seller[w]` | where each task is between two shared accesses, with its locals |
| `routed`, `seen` | counters that bound the behaviours |

One action is one access to shared state, or what a task does while it holds a
guard. An `if let Some(..) = map.get_mut(..)` is one action, since the guard is
held; `ensure_worker` is two (`TakeTrade` or `BuyEnsure` looks up, `RouteInsert` or
`BuyInsert` inserts and spawns); `clear_after_sell` is two (`ForgetWorker`,
`DropMeta`). The guards held across an await become `MetaFree` and `CreatedFree`,
preconditions of every writer of a key of the same shard. `select!` of the worker
may take the timer although a trade is there, if the worker was not scheduled for
15 s. A trade carries its market cap only; `Hits` is the threshold test of f64
arithmetic, with entry 0 (infinity or NaN) and the rounding at exactly -10 %.

### Position and the refinement mapping

`Position` has the holding of each mint, the orders nobody has taken up and the phase
of each sale. `Give` reads the holding and gives the order in one step, an order name is
used once, and a sale is running, settled (nothing held), closed (forgotten) in turn.

| Position | TokenManager |
|---|---|
| `holding` | `metas` |
| `orders` | `sellQ` |
| `sale[w]` | `seller[w]`, with `trying` and `deduct` as running, `forget` and `drop` as settled, `purge` and `done` as closed |
| `Track`, `Record` | `RegisterMeta`, `UpdateBalance` of a known mint |
| `Give` | `WorkerOffer`, the end of a read that began in `LeaveToSell` |
| `TakeUp`, `Settle`, `Forget` | `TakeOrder`, `DeductBalance`, `DropMeta` |

Every other action, and `UpdateBalance` of a mint that has no meta, is a stutter.
`Position` does not say that a mint has one order at a time, or that a sold mint is
not tracked again, because the code does not: two workers of a mint order the same
holding twice, and a sale of an earlier life closes a later one.

### TxConfirm

| state | code |
|---|---|
| `bh` | the blockhash watch channel, as an index |
| `permits` | `tx_sem` |
| `task[t]` | buy task (named by its mint) or sell task: where it is, signature of the current attempt, `attempt`, unread notification, amount |
| `pending[sig]` | the entry: who inserted it (whose Sender it holds) and `token_amount` |
| `PendingShard` | the shard of `pending` in which a signature lies |
| `watcher` | the watcher: receiving, looking up the entry of the update it has received (where it waits for the shard), between notify and record with the entry locked, between unlock and remove, or dead after a panic |
| `sent`, `landed`, `wire` | transactions received and executed, updates on their way (external) |
| `lost` | history: the buys whose update was lost while their task waited for it |
| `tokens`, `bought` | the wallet's token account of each mint, `None` if there is none, and what the buy brought (external) |

A signature is what it signs: mint, kind and, for a sell, the blockhash. The
watch channel keeps the last value (`note`); a task learns that its Sender is gone
(`~Open`) only when no unread value is left. `buy_transaction` and
`sell_transaction` are the lists of instructions of `modules/wallet/wallet.rs`;
`Outcome` runs them on the token account, as a whole or not at all. A sell is
followed by `close_account` (`wallet.rs:139-150`), so it succeeds only when the
amount is what the account holds; on an account that is gone it fails with code
3012, which the watcher takes for a success (TV:110-120). `WatchPanics` is the
`unwrap` of the base64 decoding (`decoder.rs:99`): it drops the guard and ends the
watcher.

`pending` has two guards that outlive an access. The watcher keeps the write guard of the entry
from `get_mut` to the amounts or the drop (`Unlocked`); a buy task that finds its entry keeps the read
guard while it writes `created` and `metas` (`main.rs:310-325`, place `telling`, `Guards`), and drops it
before `ensure_worker` (line 326, place `starting`). Insert, remove and `get_mut` of a signature in
the same shard wait for both kinds (`Writable`, `ReadLocked`), so that one buy task that waits for a
shard of the manager stops the watcher, and with it the answers to everybody: `Receive` takes an update,
`LooksUp` waits for the guard, and until then no other update is received, whatever its shard.
`wallet_balance`, which the watcher stores before it notifies, is in `BuyGate`.
What a task knew is gone when it returns (`Return`), except for the amount, which the manager has.

### Settlement and the refinement mapping

`Settlement` is what the manager may rely on. A mint is bought at most once, and only
while its buy task runs (`Fill`); the task tells what was bought (`Report`) or ends without
a word, which leaves no tokens behind (`GiveUp`); an order empties the account only if it is
for what the account holds (`Empty`), and is settled when nothing is left (`Settle`).

| Settlement | TxConfirm |
|---|---|
| `account`, `bought` | `tokens`, `bought` |
| `stage` | `task[m].pc` of the buy task: reported after `BuyReads`, that is at `telling`, `starting` and `done`; gone when it has given up or hung up |
| `report` | `task[m].qty` |
| `sale` | `task[s].pc` of a sell task: sold from `confirmed` on, failed after the panic of `attempt` |
| `watching` | `watcher.pc # "dead"` |
| `Fill`, `Empty` | `LandBuy`, `LandSell` that runs |
| `Report` | `BuyReads` |
| `GiveUp` | `BuyGivesUp`, `BuyHangsUp` |
| `Order`, `Settle`, `Fail`, `StopWatching` | `SellStarts`, `SellHears` of a success, `SellPanics`, `WatchPanics` |

Every other action is a stutter. Three exceptions are the code's and stay visible: an update
without meta (`Bare`) removes the entry of a buy that was executed, so the task reports an
unknown amount or hangs up on tokens it owns; a watcher that panicked between notify and
record leaves an amount of 0; `Settle` is when the task hears of it, which may be long after
`Empty`, and any number of orders of a mint settle by one `Empty`. That a buy task has
no timeout (`main.rs:308`), the cause of the starved sells of section 4, is what the clause of
`Fill` rests on: with one (`BuyHangsUp_timeout`) a buy could be executed behind a task that
has ended.

### Bot

The state is that of `TokenManager` and of `Settlement`, which share the constants `Mints`, `Qtys` and
`None`. A sell order of `Settlement` is named by the worker that gave it and by its mint. The
steps that belong to both are joint; all others are steps of one and leave the other alone.

| step of both | TokenManager | Settlement |
|---|---|---|
| the buy task has read the amount, or has lost its entry (`main.rs:308-317`) | `BuyConfirmed`, `BuyConfirmedBlind` | `Report` of the amount, `Report` of `None` |
| the buy task ends without a report (`main.rs:278-292, 331`) | `BuyAbandoned` | `GiveUp` |
| the main loop starts a sell task (`main.rs:339-349`) | `TakeOrder` | `Order` |
| the sell task has been told of its success (`main.rs:401-416`) | `SellConfirmed` | `Settle` |

`Fill` happens only while a buy task of the mint waits, since no other sends a transaction. A sell
task that panics (`Fail`) stays at `trying` in the manager and never answers. `Settlement` has one
buy for each mint, so `BotAssumption` sets `CreatesPerMint` to 1: the lives that follow when a Create
is delivered again are in `tm_safety` only. It also asks for 0 among `Qtys`, because a
buy task whose watcher is dead reads the zero of its own insert.

A conjunction may also deadlock where one part refuses what the other wants to do, and would then
hide the case. `Order` is the step where this could happen, because the manager does not look
at the chain before it orders: `OrdersAreAccepted` says that its guard never stands in the way of
`TakeOrder`. `Report`, `GiveUp` and `Settle` are answers; that they do not come before the chain is
ready for them is what `TxConfirm` shows. An unlucky answer is there as well: a buy may report the
`None` of an illegible answer, or a 0 after the watcher's panic.

### Pipeline

| state | code |
|---|---|
| `conn` | the connection of the pump and of the wallet stream |
| `notified` | the Sender of the "go" has been taken and used (`client.rs`) |
| `inflight[c]` | futures of `for_each_concurrent` that wait for room in channel `c` |
| `queue[c]` | messages in each bounded channel: pump transactions, block metas, decode requests, creates, trades, sell orders |
| `thread`, `pool` | the threads of the decode pool: idle, in a job, or in one that has yielded a trade (a Create is offered with the first Trade of its transaction); does `par_bridge` still iterate |
| `offering` | a worker waits for room in the sell channel, its `metas` guard held |
| `pc` | the main loop: in the select, in the RPC of `is_wallet_new`, blocked in `register_meta`, in `route_trade`, or waiting for room at a worker |
| `ready`, `lastSlot`, `hashSlot` | `wallet_ready`, `last_slot`, the block whose hash the watch channel of the blockhash holds |
| `cancelled`, `main`, `loop` | the token, `fn main`, the main loop's task |
| `watcher` | the watcher's task: at an await, parked behind a buy task that waits for a shard of `created`, parked behind one that waits for a shard of `metas`, or ended |

A channel is the number of its messages: what a transaction contains is chosen when
a thread decodes it, the slot of a block when the loop receives it, so that every
order behind 512 concurrent senders and two servers is there. `Selects(b)` says
that branch `b` has an event and no branch before it has; one poll of the select and
the handling up to its next await is one step. `TrySend` drops what does not fit or
whose receiver is gone, `Forward` and `OrderSent` wait. `LoopEnds` is the end of the
main loop's task, by the shutdown branch, by a panic in the pump branch
(`PanicOnPump`) or by the abort: it drops the receivers, which wakes all senders.
`Requesters` are the holders of a `decode_req_tx`; the pool ends when there are none.

The watcher is not always where an abort can reach it. Its thread waits in `get_mut` or `remove`
(TV:92-140) as long as a buy task keeps its read guard of the shard (`main.rs:310-325`), and that task
waits for a shard of `created`, of which the loop keeps a guard while it routes a trade, or for a shard of
`metas`, of which the worker that offers keeps one (`WatcherParks`, `BuyMarks`, `BuyUnlocks`). `fn main`
joins the watcher before it aborts the loop (`main.rs:480-483`), so a loop that waits at a mere
await, in a full trade channel, can hold the shutdown up through the watcher.

### BuyGate

| state | code |
|---|---|
| `created` | the keys of `created` |
| `loop` | the mint with which the main loop waits for `is_wallet_new`, if any |
| `buy[b]` | a buy task (`acquire`, `sent`, `landed`, `told`), then what became of it (`gone`, or `held`, `sold`, `purged`); `ok`: its pending entry holds a success; `at`: the place of its transaction in `chain` |
| `permits` | `tx_sem`, less what the sell tasks use |
| `chain`, `failed` | the executed transactions of the wallet with their post balances, the number of failed sells (external) |
| `storedAt` | `wallet_balance`, as the transaction whose post balance it holds |
| `misled` | history: an update without meta has ended a buy, or an older balance has replaced a newer one |
| `peak` | history: the most buys, itself included, that the balance of a passed test did not show |

`ReceiveCreate` looks up `created` and tests the developer's buy
(`should_buy`), `Refuse` and `Spawn` are the return of the RPC with the
second test of the balance, `Send` is the test of the buy task that passes, `GiveUp` the end
of one whose test fails or whose transaction cannot be built (`main.rs:279-292, 331`).
Amounts are plain numbers; the code's are `MinFree` = 0.5, `Needed` = 0.001 and
`Cost` = 0.1 SOL with the slippage.

`Watch(i)` is the update of the i-th executed transaction at the watcher. It may come at any
time after the execution, before or after those of other transactions, again and again, or never,
which is a lost update. `WatchBare(i)` is an update without meta: it stores nothing, removes the entry and so
ends the buy task that waits (TV:97-105). An update without an entry is dropped (`HasEntry`).
`Purge(b)` is `created.remove(mint)` of any sell task of the mint: of the sale of `b`, or of a late
one, when the mint may have been bought again (`main.rs:420`).

### BuyQuote

The function is one action over its inputs. u128 products are exact; `WordSize` is
the range of u64 (2^64 in the code).

## 3. What the runs check

| run | what it shows |
|---|---|
| `tm_safety` | one mint, created up to twice, 3 workers, 2 buys, 4 trades, trade channels of length 2, an entry price that may be 0, a buy that may bring 0 tokens. `TypeOK`, `OfferIsCurrent`, `OrdersSellTheHolding`, `UnwatchedOnlyAfterBroke`, `NoOrderAfterLiquidation`, and the refinement `ImplementsPosition` |
| `tm_full_channel` | two mints in one shard, both channels of length 1. `StuckOnlyInCircularWait`: work that was begun stops only in the wait of main loop, sell channel and shard for each other, and needs no new event or answer of the chain to go on. `CircularWaitIsFinal`: nothing opens that wait again. It is a real stop, so the run does not look for deadlocks; it needs 256 unreceived orders in the bot |
| `tm_live` | two mints in one shard, two workers, two buys, both channels of length 1, so that the circular wait is reachable; an answer of the chain may never come. `OrderIsServed`, `MainReturns`, `PositionIsSold`, each with the exceptions that section 3 below names |
| `tm_lost_position` | finding, see below (`HeldIsWatched`) |
| `tx_safety` | one mint, its buy and two sell tasks with two tries each, two blockhashes, updates lost, repeated, reordered and without meta, a log the watcher panics on. `TypeOK`, `BuyLearnsChain`, `SellDoneMeansLiquidated`, `OrderFitsAccount`, `HaltsOnlyOutside`, and the refinement `ImplementsSettlement`. A lost buy waits for ever, so no search for deadlocks |
| `tx_live` | two buys and a sell task under one permit, any number of tries, buys and updates lost. `ConfirmedFindsEntry`; `SellEndsOrStarves` over a network that calms down |
| `tx_duel` | finding (`SellEventuallyEnds`): two sell tasks of one mint, calm network, no loss |
| `tx_starved` | finding (`SellEventuallyEnds`): one permit and two buys; the 128 permits of the bot need 128 lost buys |
| `pipeline` | streams, channels, pool, loop, watcher and shutdown together. Safety: `TypeOK`, `NothingBeforeGo`, `ExitAfterJoins`, `HashNeverGoesBack`, `StopsOnlyParked`. Liveness: `OrdersAreReceived`, `BlocksAreReceived`, `ShutdownEnds`. The process ends or is parked in a lock, so no search for deadlocks |
| `gate` | three buys of three mints under two permits, one failed sell, updates in any order, repeated, lost and without meta, purges by late sell tasks. `TypeOK`, `OverdraftIsBounded`, `UnseenHoldPermits`, `BoughtOnce`. All buys are used up at the end, so no search for deadlocks |
| `quote` | reserves 0..40, five investments, three slippages. `TypeOK`, `QuoteIsTight`, `CostIsBounded`. It ends with the answer |
| `bot` | manager and chain together: one mint, its buy, which may bring 0, three workers, three trades, channels of length 1 and 2, illegible answers, a watcher that may die. `OrdersAreAccepted`, `TokensAreKnown`, `TokensAreWatched`. A buy that is never answered waits for ever, so no search for deadlocks |

Why the bounds are enough. One mint exercises the whole life of a position, since
mints meet only in a shard lock and in the sell channel; `tm_full_channel` has two
mints in one shard and so the smallest instance in which they meet. The chain creates
a mint once, but nothing in the loop relies on it and a stream that has reconnected may
deliver a Create again: with two Creates the late tasks of a mint's first life meet its second.
Three workers are the one that main creates, the one that the buy task creates over it, and one
created after or during the sale; every later worker is like the third. `SpareWorkers`
keeps the bound on worker ids from ever looking like a blocked task. Four trades
let a worker record its entry, ignore a trade, hit a threshold, and leave a trade
for its successor. The caps are chosen so that a pair hits a threshold and so that
the entry can be 0.

In `tm_live` two workers are one in the circular wait and one whose order fills the channel; or one
of each mint. Caps 10 and 15 are an entry price and a take-profit.

In `TxConfirm` two blockhashes tell "the same
signature" from "another one"; the index is used again once nothing refers to the
old one. Two sell tasks are the smallest number that share a signature. `ByHash` puts a buy
and some of the sells into one shard of `pending` and the other sells into another, so that
the guard of a buy task holds up some of the others and not all. In `tx_live` and
`tx_starved` one permit and two buys are the smallest pool that lost buys can use up.
In `tx_safety` the two-try limit is the panic of `attempt` at a low `AttemptMax`; in
the liveness runs `attempt` wraps and the number of tries is unlimited.

In `Bot` three trades let the worker of the buy task order the sale and leave, its Sender be evicted, and
another worker order the same sale, so that two sell tasks of the mint clear the maps, the second
of them after the account is gone.

In `Pipeline` every channel holds one message and the stream has one slot, so that each of
them is full at times and the blocks and transactions of the stream compete for it; two
slots of blocks are an older and a newer one; the number of messages is not bounded. The
wallet stream does not break in the run: what it carries is not in the module, and its "go"
is given at its first subscription. One worker waits for the sell channel at a time. In
`BuyGate` two permits are the smallest number of buys that do not see each other; three
buys are one more than the permits, and let a mint be bought twice after its first purge; the amounts
are scaled so that the wallet can run below the tested amount. In this instance both bounds are
tight: with one buy less in `OverdraftIsBounded`, or without `misled` in `UnseenHoldPermits`, or without the purged
buy in `BoughtOnce`, TLC finds a violation. The theorems of section 5 have none of these bounds.

`MaxTrades`, `CreatesPerMint`, `Wids`, `Buys`, `Hashes`, `MaxSlot`, `MaxFailed`,
`Breaking` and `Stopping` are the only bounds, each in a guard.

`StuckOnlyInCircularWait` is stated over `CanMove`, which says for each place of each task
what its next access needs: a free shard, room in a channel, a receiver that is gone, an id of
the model. It leaves out new Creates and trades, and the answers to buys and sales, so that a
stuck task is not hidden by an event that could still happen. `SpareWorkers` keeps the ids, a bound of
the model, from ever stopping a task. `CircularWaitIsFinal` is its complement: the wait it
allows is not a passing one, since no timer, answer or other task ends it.

`HaltsOnlyOutside` is stated in the same way: `Halted` over `BuyCanMove`, `SellCanMove` and
`WatchCanMove`, which leave out the failures of the network and the return from the manager, so that
a halt is seen while a task is in there. It is about `pending`, its channels and `tx_sem`: they hold nobody up
by themselves. Both buy and sell tasks can be held up in the manager, with a permit each
(`telling`, `starting`, `confirmed`), and the buy task at `telling` holds up the watcher too. The two theorems
fit together because the waiting has one direction: with its guard of `pending` the buy task waits for
`created` and `metas`, while nobody waits for `pending` with a guard of the manager. A halt behind a task in
the manager therefore ends when the manager moves, and that it does, except in the circular wait, is
`StuckOnlyInCircularWait`.

`StopsOnlyParked` is the third of the kind, over `Stopped`, which leaves out what comes from outside
(connections, messages, new orders and buys, Ctrl-C). At rest are the pipeline without work and the one
whose loop has panicked, which has dropped its receivers and holds nobody up. Before Ctrl-C
everything else stops only with a parked loop (`Parked`); after it only if, besides, the loop is parked in a
shard lock or has parked the watcher (`JoinHangs`). The number of threads must not be 0, as rayon guarantees.

### Fairness

`TokenManager`: weak fairness of every task that can move. Tokio's multi-threaded runtime
polls woken tasks; a guard that blocks a thread is released by a task that runs on another
one, which assumes that fewer tasks block in shard locks than the runtime has threads.
`TakeOrder` is weakly fair although the select is biased and pump transactions and creates
come first: that is `OrdersAreReceived` of `Pipeline`. The RPC of `is_wallet_new` returns
(an error counts as "not new"); this is assumed and not shown, and `MainReturns` rests on it.
Creates, trades and the answers to a buy or to a sale are not fair: nothing forces them to
happen, and that a sell task may retry for ever is what `tx_duel` and `tx_starved` show. The liveness
properties therefore except a sell task that stays at `trying` for ever, besides the circular wait, which is
reachable in the run. `PositionIsSold` excepts a mint of which a worker has once left with nothing to
sell (`GaveUp`, as in `UnwatchedOnlyAfterBroke`). That is a fact of the past: what
happens to a position of the mint later, an evicted Sender included, is not looked at any more.

`TxConfirm`: weak fairness of the tasks and the watcher, strong fairness of
`Acquire` (tokio's semaphore is FIFO), sent sells are executed and updates arrive. That of a
task includes the return from the manager (`BuyTells`, `BuyEnsures`, `SellEnds`): `SellEndsOrStarves` is
about a bot whose manager is not in the circular wait, and that this is its only stop is
`StuckOnlyInCircularWait`.
`FairSpec` adds that the network calms down: `<>[][Calm]_vars` says that from some
moment on there is no RPC failure, no lost or rejected sell, no lost, bare or
repeated update, and no timeout that beats an answer already on its way (an answer
takes about a second, the timeout is 25 s). Before that moment anything goes.
Buys may be lost even then. `CalmSpec` has the calm from the start; the
counterexamples of `tx_duel` and `tx_starved` use it, so they do not depend on any
misbehaviour of the network.

`Pipeline`: the runtime polls every task that can move and the threads of the pool
run; the RPC of `is_wallet_new` returns. A poll of the loop ends, because tokio's
budget makes a channel answer "pending" after 128 messages; the end of the watcher and an abort of the loop,
which take effect between two polls, are therefore strongly fair (`StopStep`). So is a buy task that waits for a
shard which is free again and again (`BuyMarks`, `BuyUnlocks`): this assumes a lock that is not
taken past the same waiting thread for ever. The server answers an attempt to subscribe
again and again, and the stream of an open connection holds a block again and again
(Solana makes one every 400 ms; strong, because the slots of the stream may be taken
in between). Transactions, creates, orders, buys and Ctrl-C are not fair. That orders and
blocks are received nevertheless is the effect of one fact of the client: blocks and
transactions come through the same 512 slots. While a flood keeps the loop in the first
branches, blocks pile up in their channel and then in the slots; when they hold all of
them no transaction is read any more, the loop runs dry of transactions and creates and
comes down to the orders, the trades and the blocks. `Deliver_apart` in the module is the
client with a stream for each, and there both properties fail. `BlocksAreReceived` makes an
exception for a flood of orders, which comes before the blocks and not from the stream. A block
that is received may still be older than the last one, or its hash may not parse: that the blockhash
is fresh is not checked.

`TokenManager`'s `MainReturns` and `Pipeline`'s `Parked` are two sides of one wait: the
loop that waits for a shard or a worker while that worker waits for the loop.

## 4. Findings

* **Lost position** (`tm_lost_position`). The buy task sets `confirmed`
  (`main.rs:320`) before `update_balance` (line 324). In between the main loop may
  route two trades of the mint: the worker it creates hits a threshold, finds a
  balance of 0 and leaves, its dead Sender staying in `workers`.
  `ensure_worker` (line 326) finds that Sender and starts nothing, although its
  comment promises a Sender "avec timeout d'inactivité" (TM:91). The position is
  sold only if a further trade of the mint is routed, which evicts the Sender and,
  with yet another trade, starts a worker with a new entry price.
  `UnwatchedOnlyAfterBroke` shows that there is no other way (next to a worker that
  was not polled for 15 s, and to the clearing of a second life, see below).
* **Duel of two sell tasks** (`tx_duel`). Two sell tasks of one mint that read the
  same blockhash build the same signature. The insert of the second drops the
  Sender of the first, which removes the entry of the second, whose Sender is
  dropped in turn; both sleep 800 ms and repeat. The updates of their executed
  sales find no entry. That a mint has several sell tasks is normal: after a
  worker has sent its order and left, the next routed trades start another worker
  which may order the sale again before the first has been confirmed.
* **Starved sells** (`tx_starved`). A buy waits without timeout and keeps its permit.
  `SellEndsOrStarves` shows that a mint with one sell task has no other way to lose its
  sale: either the task ends or the permits are, for ever, all with buys that wait.
  `HaltsOnlyOutside` is the same for all tasks at once, duels apart: when nothing moves, whoever
  waits for a permit waits for buys without an answer and for tasks that the manager holds up.

Observations without a run of their own:

* `>> 14` in `modules/wallet/utils.rs:36` divides by 16384, where the comment says "Divide by 10000
  using bit shift": the slippage of 20 % that `main.rs:289` asks for becomes 12.2 %.
  `CostIsBounded` is what holds of the highest cost all the same.
* A second life of a mint can be cleared by a late sell task of its first
  (`main.rs:418-420`): `deduct_balance`, `clear_after_sell` and `created.remove` name the
  mint and not the position. `Clearing` in `UnwatchedOnlyAfterBroke` is that case. After the
  `created.remove` the mint is bought a third time while it is held, if its Create is delivered
  again: `BoughtOnce` says that this takes a purged buy, and TLC finds the case.
* A trade routed between `clear_after_sell` and `created.remove` starts a worker for a mint
  that has been sold. It finds no meta and leaves; its Sender stays.
  `NoOrderAfterLiquidation` shows that it does no further harm.
* The update of a transaction whose entry has been removed is dropped together with its post
  balance (TV:94, 108), one without meta stores none (TV:97-105), and an older update that comes
  late replaces the balance of a newer one, although TV:54 says that the watcher keeps `wallet_balance` up to
  date. After one of the last two (`misled`) nothing bounds the number of buys that a passed
  test has not seen; before, it is the number of permits (`UnseenHoldPermits`).
* The cost that the balance test assumes (0.001 SOL, `main.rs:278`) is not the cost of the
  buy (0.1 SOL, line 288), and no buy reserves anything. `OverdraftIsBounded` is what holds:
  each buy that the balance of a passed test did not show costs once more. With the bot's numbers,
  0.501 SOL tested and about 0.11 SOL a buy, four buys at a time use up nearly all of it,
  from five on the bound says nothing, and the 128 permits do not prevent them.
* `main.rs:222` logs that all streams are ready; the "go" is that of the wallet stream.
  `NothingBeforeGo` is what holds of it.
* A log that is not base64 makes `decoder.rs:99` panic. In the main loop this ends the loop,
  and with it the bot's reactions, without ending the process; in the watcher it ends all
  confirmations (`PanicOnPump`, `WatchPanics`).
* After Ctrl-C the process does not end if the loop is parked in a shard lock
  (`ShutdownEnds` excludes it): the abort of `main.rs:482` takes effect at an await only. Nor
  does it end if the loop waits for room at a worker that waits for the loop, which is an await,
  while a buy task waits for the guard of either and has parked the watcher: `fn main` waits for the watcher
  first and never comes to the abort of the loop (`JoinHangs`).
* With overflow checks the sell task panics at the 256th try (`SellPanics`).

## 5. Proofs

TLAPS proves, for all constants that satisfy the module's assumptions (types of the
constants, channels of length at least one; nothing is assumed about shards, or about the
number of mints, tasks, workers, senders, threads beyond the first, permits, blockhashes or blocks, except that
`NobodyIsStuck` needs the task ids of a behaviour to be finitely many, `BoundsAssumption`, so that
they can be counted, and that `Bot` has one buy of each mint, `BotAssumption`):

| module | theorem | statement |
|---|---|---|
| `TokenManagerProofs` | `TypeCorrect` | `Spec => []TypeOK` |
| | `OfferCurrent` | `Spec => []OfferIsCurrent` |
| | `LiquidationIsFinal` | `Spec => NoOrderAfterLiquidation` |
| | `SoldWasBought` | `Spec => []OrdersSellTheHolding` |
| | `NobodyIsStuck` | `Spec => []StuckOnlyInCircularWait` |
| | `NothingEndsTheWait` | `Spec => CircularWaitIsFinal` |
| `TokenManagerPositionProofs` | `Implementation` | `Spec => ImplementsPosition` |
| | `PositionIsWatched` | `Spec => []UnwatchedOnlyAfterBroke` |
| `TxConfirmProofs` | `TypeCorrect` | `Spec => []TypeOK` |
| | `BuyReadsTheAmount` | `Spec => []BuyLearnsChain` |
| | `EntryIsThere` | `Spec => []ConfirmedFindsEntry` |
| | `LiquidatedOnChain` | `Spec => []SellDoneMeansLiquidated` |
| | `OrdersFit` | `Spec => []OrderFitsAccount` |
| | `NoHaltOfItsOwn` | `Spec => []HaltsOnlyOutside` |
| `TxConfirmSettlementProofs` | `Implementation` | `Spec => ImplementsSettlement` |
| `BotProofs` | `NoneIsRefused` | `BotSpec => []OrdersAreAccepted` |
| | `TheManagerKnows` | `BotSpec => []TokensAreKnown` |
| | `SomebodySells` | `BotSpec => []TokensAreWatched` |
| `PipelineProofs` | `TypeCorrect` | `Spec => []TypeOK` |
| | `GoComesFirst` | `Spec => []NothingBeforeGo` |
| | `HashNeverGivesWay` | `Spec => HashNeverGoesBack` |
| | `ExitIsLast` | `Spec => []ExitAfterJoins` |
| | `OnlyTheLoopParks` | `Spec => []StopsOnlyParked` |
| `BuyGateProofs` | `TypeCorrect` | `Spec => []TypeOK` |
| | `Overdraft` | `Spec => []OverdraftIsBounded` |
| | `PermitsBoundTheUnseen` | `Spec => []UnseenHoldPermits` |
| | `MintBoughtOnce` | `Spec => []BoughtOnce` |
| `BuyQuoteProofs` | `TypeCorrect` | `Spec => []TypeOK` |
| | `QuoteTight` | `Spec => []QuoteIsTight` |
| | `CostBounded` | `Spec => []CostIsBounded` |

*Types of the manager.* `TypeOK` is not inductive as it stands: that `SpawnBuy` writes a mint's
entry needs the main loop to have a mint at that point, that an order's mint is a
mint needs an offering worker to have one. `Typed` adds which tasks have a mint, a
market cap or a Sender at which point, in one part per variable.

*Offers.* `Typed /\ OfferIsCurrent` is inductive. The only writers of `metas` are
`RegisterMeta`, `UpdateBalance`, `DeductBalance` and `DropMeta`; each needs the shard
free, and a shard is not free while a worker of one of its mints is offering,
the mint itself included.

*Liquidation.* An order enters the channel from an offering worker only; its
mint's meta is then the offered amount by `OfferIsCurrent`, which is a number and
not `None`.

*Holdings.* `OrdersSellTheHolding` is about orders, the balance they were read from
is in `metas`: `HoldingInv` adds that every balance is 0 or the amount of a buy task
of that mint (`MetasBacked`), follows the amount from the map to the worker
(`OffersBacked`), the channel (`QueueBacked`) and the sell task (`SellersBacked`), and
needs that a buy task before its confirmation has reported nothing
(`NothingReported`), so that no step takes a report back.

*Nobody is stuck.* That every task at every place is either able to move or behind a lock or channel
whose holder is, is a case distinction over the places (`StuckMeansCircularWait`): a shard of
`metas` that is not free is held by an offering worker, which moves unless the order channel is full;
an order in the channel moves the main loop if it is in its select; so a stop with an order in
the channel finds the loop at `register` or `send`, in the circular wait. Three facts are needed
of the reachable states (`Staffed`): the order channel holds at most `SellCap` orders, so that "no room"
means "full"; there is a buy id for a main loop on its way to `SpawnBuy`; and there are as many unborn
worker ids as tasks that may still spawn a worker (`WorkersLeft`, a count, kept because each step that
adds such a task finds the ids spare and each spawn takes one id and one task). That a set
of ids that is not empty has the least element which `FreshWid` asks for is `Least`.

*Nothing ends the wait.* `WaitStays`: the sell channel is full and its receiver is elsewhere, so an offering
worker stays where it is, and with it the shard it holds; the main loop waits for that shard, or for room at
a worker that is itself offering and takes no trade. Steps of the other tasks touch none of this: a worker that is
offering is still the one whose Sender the main loop has in hand.

*Refinement of Position.* `InitMaps` and `StepMaps` show that the initial states and each step map
to `Position`. `Give` needs that the offered amount is the holding (`OfferIsCurrent`)
and positive (`OffersBacked`), and that the worker has not ordered before; `TakeUp`
needs that its order has no sell task yet. Both follow from `GivenOnce`: a worker has an
order in the channel or a sell task only when it has left with "sold", and no worker
has two orders in the channel. `WritesReport` adds that what `UpdateBalance` writes was
reported.

*Watched positions.* `WatchInv` adds three facts to the property. `SendersOK`: the Sender in
`workers`, and the one that the main loop has in hand, belong to a worker of that mint which
has run and whose channel still has a sender. `OrdersOK`: an order and its sell task are for
the mint of the worker that gave it. `SoldOK`: while the Sender of a worker that left with
"sold" is registered, its order or its sell task is still there. The dangerous steps are
`BuyEnsure`, which takes a Sender for a worker, and the ends of a sell task; a worker that
has left with nothing to sell, or a sell task past its deduction, is what the property
excepts.

*Confirmation.* `Inv` is `TypeOK /\ PermitsOK /\ Linked`. `PermitsOK` counts the permits
that are out by the tasks that hold one, so that none is returned twice. `Linked` follows a
buy through its signature, which exists once: it lands at most once and after its entry was
inserted, the entry holds 0 or what was bought, and it holds what was bought when the task
has been told and the watcher has unlocked (`BuyLandsOnce`, `BuyEntry`, `BuyReport`). An
update says what its execution did (`UpdateOK`), two updates of a signature agree
(`SameStatus`), and an account that has been filled holds the bought amount until a sale
empties and closes it (`Account`). A sell task is told of a success only by an update whose
execution emptied the account or found none.

*Halts.* `HaltedWaits` goes through the places of the tasks. The watcher in a halt has nothing to do,
is dead, or is parked behind a guard (`WatchParked`), never at `notified`; `send` and `wait` of a sell task
always move; so a task that cannot insert or remove is behind a guard, which is a buy task's. What remains
is a buy at `wait` without a word although it was executed. `Inv`
does not exclude that its answer has got lost inside the bot, so `Answers` adds it: as long as
the entry is there and the task has heard of no success, an update of it is on the wire or in the
watcher's hands, unless the stream has lost it (`lost`) or the watcher is dead; and the watcher goes on to record
only after the task has been told (`SuccessNoted`). The dangerous steps are those that use up an update:
`WatchIgnores` finds no entry, `WatchRecords` has told the task, `WatchRemoves` takes the entry
away. In a halt that update is on the wire or in the hands of a watcher that is parked. `PermitsOK` counts
the permits that are out by their holders; when a task waits at
`acquire` there is none left, so the holders, all of whom wait, are as many as the permits.

*Refinement of Settlement.* `StepMaps` combines the steps of the buy tasks, the sell tasks,
the watcher and the cluster (`BuyMaps`, `SellMaps`, `WatchMaps`, `ClusterMaps`). `Fill` needs that a buy that is executed
finds its task waiting, `GiveUp` that a task that hangs up has bought nothing, `Empty` that
a sell that empties the account was ordered, and for the reported amount. `Inv` says none of
this: it follows a buy that lands, not the task of one that has not. `Ended` adds it. A buy
that may still land has its entry and a task that waits (`BuyEnds`): the entry, whose signature no
other task uses, goes only with an update, which exists only after the execution. Without a bare
update it goes only when the execution failed, so a waiting task whose entry is gone has bought
nothing. `SellsOrdered` says that a sell on its way has a task that has started. The account
holds what was bought (`Account`) and an order follows a report of that amount (`Sold`,
`BuyReport`), so that `Empty` is of the reported amount; that the account is empty when a sell
task hears of a success (`Settle`) is part of `Linked`.

*Manager and chain.* Each step of `Bot` is one of `TokenManager` (`StepsOfManager`), so the
invariants proved of the manager hold (`Manager`) and only the relation of the two states is left,
`Agreed`. A mint has one buy task (`OneBuy`: it has one Create), whose place and amount say the same as `stage` and `report` (`BuysLinked`). The account
holds what was bought or nothing, and a report is the truth or misleads (`AccountOK`). A sale has its
sell task, and a settled one left no account (`SalesOK`); no `Fill` can follow, because the
buy has reported by then. A mint whose meta has gone, or whose balance is no longer what was told,
has been sold (`Recorded`): this is where the clean-up of several sell tasks comes in, each step of
which needs `Sold` of its mint. `AcceptedHolds`, `KnownHolds` and `WatchedHolds` conclude: an order is
for a reported amount (`SellersBacked`, `QueueBacked` of the manager, through `ReportedAmount`),
its name is unused because its worker has no sell task (`GivenOnce`), and tokens whose buy has
been told are a holding, which `UnwatchedOnlyAfterBroke` is about; no sell task is past its deduction
(`Clearing`), since there are tokens.

*Pipeline.* Types need that the sender of every channel respects its capacity, `Forward` and
`OrderSent` included. The "go": until it is given `wallet_ready` is false and no request,
job, create, trade or pause of the loop exists (`Quiet`, `ReadyAfterGo`). The blockhash: its
slot is at most `last_slot` (`HashIsKnown`), and a block is used when it is newer than that;
that the hash itself may not parse is why the two differ. The end: `StopsInOrder` says what
is true at each place of `fn main`. The stop: a worker that waits needs a full order channel and a
loop that is running (`OfferingStops`); the select then has an order at least, so the loop is not there,
and where it is it moves unless it is behind the worker. A parked watcher is behind a guard of the loop, which
then waits for the worker, or behind one of the worker (`ParkedBehindWorker`); `StopsInOrder` and the place of the
loop then give `JoinHangs`. When no worker waits, everything drains from the back (`OtherwiseAtRest`): the loop's channels, then the slots of the stream, which have room.
If the loop has ended this needs `ClosedStaysEmpty`, that nothing gets into a closed channel.

*Balances.* `ChainOK` places each buy once in the chain, after it has been sent. `NotFarAbove` relates any
balance the wallet ever had to the present one: it is above it by no more than the cost of the buys executed
since (`After`) and the fees. It holds of every index of the chain, whichever of them the watcher
stores, which is why the order, the loss and the repetition of updates do not matter. `OverdraftStaysBounded` adds
to the overdraft what the buys that have been sent will still cost; it is carried over `Send` by the test, whose
balance `NotFarAbove` relates to the wallet's, and by `peak`, which is at least the number of buys that this
balance does not show (`Unseen`). `ToldOK`: as long as nothing has misled the watcher, an executed buy that the stored
balance does not show has not been told, so it still holds its permit; `PermitsOK` counts the permits that are out,
and `UnseenHoldPermits` follows for the buy that passes the test. `CreatedOK`: the
mint of a buy that has not been purged is in `created`, unless another buy of it has been purged, and the loop, which
has one create in hand at a time, has found its own absent.

*Quotes.* `Quotient` states integer division by its two bounds, `TokensLeft` that the
subtraction saturates only on a curve without tokens, `Tight` the two inequalities
of one call. The cost is bounded because 16384 is more than 10000 and both the wrapping product
and the saturating sum only make it smaller.

Only model-checked: the liveness properties `OrderIsServed`, `MainReturns`, `PositionIsSold`, `SellEndsOrStarves`,
`OrdersAreReceived`, `BlocksAreReceived` and `ShutdownEnds`, since liveness under fairness, and ENABLED with it, is out of
the prover's reach.

## 6. Not modelled

* The length of the backoff, the filters of the subscriptions, the listener, which only
  logs, and the launcher of the streams.
* Account lists, keys, signing, borsh layouts, logging, `event_tx`: data or output.
* `handle_decode_result` (`main.rs:496-582`) and `modules/utils/blockmeta_handler.rs`:
  called from nowhere.
* Crash and restart: nothing is persisted; after a restart the bot does not know
  its positions.
* Rollback of a processed block: updates are taken as final, as the code takes them.

Some hazards have no property:

* the overflow of `attempt` (`main.rs:353`): its property would be the arithmetic of one line;
* `pending`, which never shrinks (`main.rs:377`), without effect on the protocol;
* trades out of order (`main.rs:139`) and dropped trades (`main.rs:148`): every order of them, and their absence,
  is explored, but no property speaks of the price or the moment of a sale;
* the RPC in the main loop (`main.rs:247`): that it returns is assumed;
* a blockhash that gets stale because hashes do not parse or blocks do not come (`main.rs:458`): there is no time
  in the model;
* the slippage of `modules/wallet/utils.rs:36`, lower than its comment says (section 4).

## 7. Plan

Done: all components with their runs, the refinements to `Position` and `Settlement`, the
composition of manager and chain, the guards of `pending`, and the proofs above. Every safety
property that a passing run checks is a theorem.

What is left:

1. `Bot` with the guard of `pending`, so that the argument of section 3 by which
   `StuckOnlyInCircularWait` and `HaltsOnlyOutside` fit together is itself a theorem.
2. Larger instances of `Pipeline`: two slots of the stream, two workers that wait.
