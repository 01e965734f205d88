---------------------------- MODULE TokenManager ----------------------------
(***************************************************************************)
(* The TokenWorkerManager (src/src/modules/token_manager/token_manager.rs) *)
(* and the tasks of src/src/main.rs that call it: the main select loop,    *)
(* the tail of every buy task and the tail of every sell task.             *)
(*                                                                         *)
(* What the chain and the confirmation watcher do between the spawn of a   *)
(* buy (or sell) task and the moment that task learns its outcome is       *)
(* abstracted here to a nondeterministic outcome; module TxConfirm models  *)
(* it.  What is kept in full is the control that the manager's maps, their *)
(* shard locks, the per-token workers and the two bounded channels see.    *)
(*                                                                         *)
(* Locks.  created and metas are DashMaps: every key lives in a shard that *)
(* is guarded by a reader-writer lock.  Two read guards are held across an *)
(* await and therefore have to be modelled: the worker's metas.get(..)     *)
(* around sell_tx.send(..).await, and the main loop's created.get(..)      *)
(* around manager.route_trade(..).await.  Every other guard is released    *)
(* inside the action that takes it.                                        *)
(***************************************************************************)
EXTENDS Naturals, Sequences, FiniteSets

CONSTANTS
  Mints,           \* token mints, the keys of every map
  Wids,            \* bound: ids for the worker tasks spawned in one behaviour
  Buys,            \* bound: ids for the buy tasks spawned in one behaviour
  Caps,            \* market caps a trade can carry
  Qtys,            \* token amounts a confirmed buy can report
  Capacity,        \* length of a worker's trade channel (1000 in main.rs)
  SellCap,         \* length of the sell-order channel (256 in main.rs)
  MaxTrades,       \* bound: trades the main loop routes in one behaviour
  CreatesPerMint,  \* bound: Create events of one mint that pass should_buy
  MetaShard,       \* Mints -> shard of the metas map
  CreatedShard,    \* Mints -> shard of the created map
  None

ASSUME ManagerAssumption ==
  /\ Wids \subseteq Nat
  /\ Buys \subseteq Nat
  /\ Caps \subseteq Nat
  /\ Qtys \subseteq Nat
  /\ Capacity \in Nat \ {0}
  /\ SellCap \in Nat \ {0}
  /\ MaxTrades \in Nat
  /\ CreatesPerMint \in Nat
  /\ MetaShard \in [Mints -> Nat]
  /\ CreatedShard \in [Mints -> Nat]
  /\ None \notin Nat \cup Mints

\* The ids are a bound of the model: a behaviour spawns finitely many tasks.
ASSUME BoundsAssumption == IsFiniteSet(Wids) /\ IsFiniteSet(Buys)

VARIABLES
  created,   \* main.rs `created`: is the mint known, is its buy confirmed
  metas,     \* manager.metas: the balance of each registered mint
  workers,   \* manager.workers: the Sender registered for each mint
  worker,    \* the worker tasks (one channel each; its id names both)
  sellQ,     \* the sell-order channel, worker -> main loop
  main,      \* the main loop: where it is, and the call it is inside of
  buyer,     \* the buy tasks
  seller,    \* the sell tasks; the task serving the order of worker w is seller[w]
  routed,    \* number of trades routed so far (bounded by MaxTrades)
  seen       \* Create events handled for each mint (bounded by CreatesPerMint)

vars == <<created, metas, workers, worker, sellQ, main, buyer, seller, routed, seen>>

-----------------------------------------------------------------------------
(***************************************************************************)
(* Types                                                                   *)
(***************************************************************************)
MapState   == {"absent", "pending", "confirmed"}
Order      == [mint : Mints, amount : Nat, from : Wids]
\* Why a worker left its loop: "sold" (sent an order), "broke" (a threshold) or
\* "idle" (the timer) with nothing to sell, "closed" (every Sender was dropped).
WorkerPc   == {"unborn", "select", "offer", "sold", "broke", "idle", "closed"}
WorkerTask == [pc : WorkerPc, mint : Mints \cup {None}, queue : Seq(Caps),
               entry : Caps \cup {None}, amount : Nat]
MainPc     == {"select", "vet", "register", "spawn", "insert", "send", "evict"}
MainTask   == [pc : MainPc, mint : Mints \cup {None}, cap : Caps \cup {None},
               tx : Wids \cup {None}]
BuyerPc    == {"unborn", "wait", "mark", "balance", "ensure", "insert",
               "done", "gone"}
BuyerTask  == [pc : BuyerPc, mint : Mints \cup {None}, qty : Nat]
SellerPc   == {"none", "trying", "deduct", "forget", "drop", "purge", "done"}
SellerTask == [pc : SellerPc, mint : Mints \cup {None}, amount : Nat]

Idle == [pc |-> "select", mint |-> None, cap |-> None, tx |-> None]

TypeOK ==
  /\ created \in [Mints -> MapState]
  /\ metas \in [Mints -> Nat \cup {None}]
  /\ workers \in [Mints -> Wids \cup {None}]
  /\ worker \in [Wids -> WorkerTask]
  /\ sellQ \in Seq(Order)
  /\ main \in MainTask
  /\ buyer \in [Buys -> BuyerTask]
  /\ seller \in [Wids -> SellerTask]
  /\ routed \in Nat
  /\ seen \in [Mints -> Nat]

Init ==
  /\ created = [m \in Mints |-> "absent"]
  /\ metas = [m \in Mints |-> None]
  /\ workers = [m \in Mints |-> None]
  /\ worker = [w \in Wids |-> [pc |-> "unborn", mint |-> None, queue |-> <<>>,
                               entry |-> None, amount |-> 0]]
  /\ sellQ = <<>>
  /\ main = Idle
  /\ buyer = [b \in Buys |-> [pc |-> "unborn", mint |-> None, qty |-> 0]]
  /\ seller = [w \in Wids |-> [pc |-> "none", mint |-> None, amount |-> 0]]
  /\ routed = 0
  /\ seen = [m \in Mints |-> 0]

-----------------------------------------------------------------------------
(***************************************************************************)
(* Shard locks and channel ends                                            *)
(***************************************************************************)
MetaFree_copied(m) == TRUE    \* mutant: the worker copies the meta and drops its guard

MetaFree_kept(m) ==    \* mutant: the worker keeps its guard when the order is sent
  \A w \in Wids : worker[w].pc \in {"offer", "sold"} =>
                    MetaShard[worker[w].mint] # MetaShard[m]

\* A writer of metas[m] has to wait while some worker sits in
\* sell_tx.send(..).await with the read guard of m's shard.
MetaFree(m) ==
  \A w \in Wids : worker[w].pc = "offer" =>
                    MetaShard[worker[w].mint] # MetaShard[m]

\* A writer of created[m] has to wait while the main loop routes a trade with
\* the read guard of m's shard.
CreatedFree(m) ==
  main.pc \in {"insert", "send", "evict"} =>
    CreatedShard[main.mint] # CreatedShard[m]

\* The receiver of channel w is alive: the worker task has not returned.
Alive(w) == worker[w].pc \in {"select", "offer"}

\* No Sender of channel w is left, neither in the map nor in main's hands.
SendersGone(w) == main.tx # w /\ \A m \in Mints : workers[m] # w

\* Task ids are handed out in increasing order.
FreshWid(w) ==
  /\ worker[w].pc = "unborn"
  /\ \A v \in Wids : worker[v].pc = "unborn" => w <= v
FreshBuy(b) ==
  /\ buyer[b].pc = "unborn"
  /\ \A c \in Buys : buyer[c].pc = "unborn" => b <= c

\* Bound: keep enough unborn workers for every buy task that may still need
\* one, so that running out of ids never looks like a blocked task.
SpareWorkers(n) ==
  Cardinality({w \in Wids : worker[w].pc = "unborn"}) >=
    n + Cardinality({b \in Buys : buyer[b].pc \in
                       {"wait", "mark", "balance", "ensure", "insert"}})

-----------------------------------------------------------------------------
(***************************************************************************)
(* Main loop, branch (b): a Create+Trade pair becomes a buy                *)
(***************************************************************************)
\* contains_key and should_buy have passed; the loop now awaits the RPC of
\* is_wallet_new, and nothing else of the loop runs meanwhile.
TakeCreate(m) ==
  /\ main.pc = "select"
  /\ created[m] = "absent"
  /\ seen[m] < CreatesPerMint
  /\ \E b \in Buys : buyer[b].pc = "unborn"
  /\ SpareWorkers(1)
  /\ main' = [main EXCEPT !.pc = "vet", !.mint = m]
  /\ seen' = [seen EXCEPT ![m] = @ + 1]
  /\ UNCHANGED <<created, metas, workers, worker, sellQ, buyer, seller, routed>>

\* The RPC answers: the developer's wallet is rejected, or the free balance is
\* below the threshold, or the buy goes ahead.
VetCreate ==
  /\ main.pc = "vet"
  /\ \/ main' = Idle
     \/ main' = [main EXCEPT !.pc = "register"]
  /\ UNCHANGED <<created, metas, workers, worker, sellQ, buyer, seller, routed, seen>>

RegisterMeta ==
  /\ main.pc = "register"
  /\ MetaFree(main.mint)
  /\ metas' = [metas EXCEPT ![main.mint] = 0]
  /\ main' = [main EXCEPT !.pc = "spawn"]
  /\ UNCHANGED <<created, workers, worker, sellQ, buyer, seller, routed, seen>>

SpawnBuy ==
  /\ main.pc = "spawn"
  /\ created' = [created EXCEPT ![main.mint] = "pending"]
  /\ \E b \in Buys :
       /\ FreshBuy(b)
       /\ buyer' = [buyer EXCEPT ![b].pc = "wait", ![b].mint = main.mint]
  /\ main' = Idle
  /\ UNCHANGED <<metas, workers, worker, sellQ, seller, routed, seen>>

(***************************************************************************)
(* Main loop, branch (d): a trade of a confirmed mint is routed.           *)
(* route_trade = ensure_worker (look up, else create) ; send ; on error    *)
(* remove whatever Sender is registered by then.                           *)
(***************************************************************************)
TakeTrade(m, cap) ==
  /\ main.pc = "select"
  /\ routed < MaxTrades
  /\ created[m] = "confirmed"
  /\ \/ /\ workers[m] # None
        /\ main' = [pc |-> "send", mint |-> m, cap |-> cap, tx |-> workers[m]]
     \/ /\ workers[m] = None
        /\ SpareWorkers(1)
        /\ main' = [pc |-> "insert", mint |-> m, cap |-> cap, tx |-> None]
  /\ routed' = routed + 1
  /\ seen' = seen
  /\ UNCHANGED <<created, metas, workers, worker, sellQ, buyer, seller>>

\* The second half of ensure_worker: a new channel is registered (over whatever
\* another caller registered since the look-up) and its worker is spawned.
SpawnWorker(m, w) ==
  /\ FreshWid(w)
  /\ workers' = [workers EXCEPT ![m] = w]
  /\ worker' = [worker EXCEPT ![w] = [pc |-> "select", mint |-> m, queue |-> <<>>,
                                      entry |-> None, amount |-> 0]]

RouteInsert ==
  /\ main.pc = "insert"
  /\ \E w \in Wids :
       /\ SpawnWorker(main.mint, w)
       /\ main' = [main EXCEPT !.pc = "send", !.tx = w]
  /\ UNCHANGED <<created, metas, sellQ, buyer, seller, routed, seen>>

\* tx.send(trade).await: waits for room, or fails once the worker has returned.
RouteSend ==
  /\ main.pc = "send"
  /\ Alive(main.tx)
  /\ Len(worker[main.tx].queue) < Capacity
  /\ worker' = [worker EXCEPT ![main.tx].queue = Append(@, main.cap)]
  /\ main' = Idle
  /\ UNCHANGED <<created, metas, workers, sellQ, buyer, seller, routed, seen>>

RouteSendError_retry ==    \* mutant: keeps sending to the dead worker
  /\ main.pc = "send"
  /\ ~Alive(main.tx)
  /\ UNCHANGED vars

RouteSendError_never ==    \* mutant: a dead worker's channel only looks full
  /\ FALSE
  /\ UNCHANGED vars

RouteSendError ==
  /\ main.pc = "send"
  /\ ~Alive(main.tx)
  /\ main' = [main EXCEPT !.pc = "evict"]
  /\ UNCHANGED <<created, metas, workers, worker, sellQ, buyer, seller, routed, seen>>

RouteEvict ==
  /\ main.pc = "evict"
  /\ workers' = [workers EXCEPT ![main.mint] = None]
  /\ main' = Idle
  /\ UNCHANGED <<created, metas, worker, sellQ, buyer, seller, routed, seen>>

(***************************************************************************)
(* Main loop, branch (c): a sell order is received and its task spawned    *)
(***************************************************************************)
TakeOrder ==
  /\ main.pc = "select"
  /\ sellQ # <<>>
  /\ sellQ' = Tail(sellQ)
  /\ LET o == Head(sellQ) IN
       seller' = [seller EXCEPT ![o.from] =
                    [pc |-> "trying", mint |-> o.mint, amount |-> o.amount]]
  /\ UNCHANGED <<created, metas, workers, worker, main, buyer, routed, seen>>

-----------------------------------------------------------------------------
(***************************************************************************)
(* The worker task                                                         *)
(***************************************************************************)
\* pct >= +50 or pct <= -10, for pct = (mc / entry - 1) * 100 in f64: an entry
\* of 0.0 makes pct +infinity, and 0.0 / 0.0 a NaN that passes neither test.  A
\* quotient of exactly 0.9 gives pct = -9.999999999999998, which is no stop loss.
Hits(entry, mc) ==
  IF entry = 0 THEN mc > 0
  ELSE \/ 2 * mc >= 3 * entry
       \/ 10 * mc < 9 * entry

LeaveToSell_any(w, queue, why) ==    \* mutant: sells without looking at balance > 0
  LET m == worker[w].mint IN
  worker' = [worker EXCEPT ![w].pc = IF metas[m] # None THEN "offer" ELSE why,
                           ![w].queue = queue,
                           ![w].amount = IF metas[m] # None THEN metas[m] ELSE @]

LeaveToSell_unwrap(w, queue, why) ==    \* mutant: takes the meta for granted
  LET m == worker[w].mint IN
  worker' = [worker EXCEPT ![w].pc = IF metas[m] # 0 THEN "offer" ELSE why,
                           ![w].queue = queue,
                           ![w].amount = IF metas[m] # 0 THEN metas[m] ELSE @]

\* The exit taken on a threshold or on the timer: with something to sell the
\* worker awaits room in the sell channel, keeping metas' guard; else it returns.
LeaveToSell(w, queue, why) ==
  LET m == worker[w].mint
      holds == metas[m] # None /\ metas[m] # 0
  IN worker' = [worker EXCEPT ![w].pc = IF holds THEN "offer" ELSE why,
                              ![w].queue = queue,
                              ![w].amount = IF holds THEN metas[m] ELSE @]

WorkerTrade(w) ==
  /\ worker[w].pc = "select"
  /\ worker[w].queue # <<>>
  /\ LET mc   == Head(worker[w].queue)
         rest == Tail(worker[w].queue)
     IN \/ /\ worker[w].entry = None
           /\ worker' = [worker EXCEPT ![w].entry = mc, ![w].queue = rest]
        \/ /\ worker[w].entry # None
           /\ ~Hits(worker[w].entry, mc)
           /\ worker' = [worker EXCEPT ![w].queue = rest]
        \/ /\ worker[w].entry # None
           /\ Hits(worker[w].entry, mc)
           /\ LeaveToSell(w, rest, "broke")
  /\ UNCHANGED <<created, metas, workers, sellQ, main, buyer, seller, routed, seen>>

\* 15 seconds without a trade.  A worker that was not scheduled for that long
\* may find both the timer and a trade ready; select! then picks either.
WorkerInactive(w) ==
  /\ worker[w].pc = "select"
  /\ LeaveToSell(w, worker[w].queue, "idle")
  /\ UNCHANGED <<created, metas, workers, sellQ, main, buyer, seller, routed, seen>>

WorkerClosed(w) ==
  /\ worker[w].pc = "select"
  /\ worker[w].queue = <<>>
  /\ SendersGone(w)
  /\ worker' = [worker EXCEPT ![w].pc = "closed"]
  /\ UNCHANGED <<created, metas, workers, sellQ, main, buyer, seller, routed, seen>>

WorkerOffer_try(w) ==    \* mutant: try_send, an order that finds no room is dropped
  /\ worker[w].pc = "offer"
  /\ sellQ' = IF Len(sellQ) < SellCap
               THEN Append(sellQ, [mint |-> worker[w].mint,
                                   amount |-> worker[w].amount, from |-> w])
               ELSE sellQ
  /\ worker' = [worker EXCEPT ![w].pc = "sold"]
  /\ UNCHANGED <<created, metas, workers, main, buyer, seller, routed, seen>>

WorkerOffer(w) ==
  /\ worker[w].pc = "offer"
  /\ Len(sellQ) < SellCap
  /\ sellQ' = Append(sellQ, [mint |-> worker[w].mint,
                             amount |-> worker[w].amount, from |-> w])
  /\ worker' = [worker EXCEPT ![w].pc = "sold"]
  /\ UNCHANGED <<created, metas, workers, main, buyer, seller, routed, seen>>

-----------------------------------------------------------------------------
(***************************************************************************)
(* The buy task, from the watch channel's answer on                        *)
(***************************************************************************)
\* Successed, and the pending entry still there: qty is the amount received.
BuyConfirmed(b, q) ==
  /\ buyer[b].pc = "wait"
  /\ buyer' = [buyer EXCEPT ![b].pc = "mark", ![b].qty = q]
  /\ UNCHANGED <<created, metas, workers, worker, sellQ, main, seller, routed, seen>>

\* Successed, but the pending entry has been removed by a later update.
BuyConfirmedBlind(b) ==
  /\ buyer[b].pc = "wait"
  /\ buyer' = [buyer EXCEPT ![b].pc = "ensure"]
  /\ UNCHANGED <<created, metas, workers, worker, sellQ, main, seller, routed, seen>>

\* Balance too low, build error, or failed: the notifier is gone.
BuyAbandoned(b) ==
  /\ buyer[b].pc = "wait"
  /\ buyer' = [buyer EXCEPT ![b].pc = "gone"]
  /\ UNCHANGED <<created, metas, workers, worker, sellQ, main, seller, routed, seen>>

BuyMark(b) ==
  LET m == buyer[b].mint IN
  /\ buyer[b].pc = "mark"
  /\ CreatedFree(m)
  /\ created' = [created EXCEPT ![m] = IF @ = "absent" THEN @ ELSE "confirmed"]
  /\ buyer' = [buyer EXCEPT ![b].pc = "balance"]
  /\ UNCHANGED <<metas, workers, worker, sellQ, main, seller, routed, seen>>

UpdateBalance(b) ==
  LET m == buyer[b].mint IN
  /\ buyer[b].pc = "balance"
  /\ MetaFree(m)
  /\ metas' = [metas EXCEPT ![m] = IF @ = None THEN @ ELSE buyer[b].qty]
  /\ buyer' = [buyer EXCEPT ![b].pc = "ensure"]
  /\ UNCHANGED <<created, workers, worker, sellQ, main, seller, routed, seen>>

BuyEnsure_skip(b) ==    \* mutant: relies on the first routed trade instead
  /\ buyer[b].pc = "ensure"
  /\ buyer' = [buyer EXCEPT ![b].pc = "done"]
  /\ UNCHANGED <<created, metas, workers, worker, sellQ, main, seller, routed, seen>>

\* ensure_worker, first half: any registered Sender is taken for a worker.
BuyEnsure(b) ==
  /\ buyer[b].pc = "ensure"
  /\ buyer' = [buyer EXCEPT ![b].pc =
                 IF workers[buyer[b].mint] # None THEN "done" ELSE "insert"]
  /\ UNCHANGED <<created, metas, workers, worker, sellQ, main, seller, routed, seen>>

BuyInsert(b) ==
  /\ buyer[b].pc = "insert"
  /\ \E w \in Wids : SpawnWorker(buyer[b].mint, w)
  /\ buyer' = [buyer EXCEPT ![b].pc = "done"]
  /\ UNCHANGED <<created, metas, sellQ, main, seller, routed, seen>>

-----------------------------------------------------------------------------
(***************************************************************************)
(* The sell task, from the confirmation on: deduct_balance, the two        *)
(* removals of clear_after_sell, then created.remove                       *)
(***************************************************************************)
\* An answer from outside, like those to a buy: a sell task that starves or
\* loses a duel (module TxConfirm) retries for ever and never gets here.
SellConfirmed(w) ==
  /\ seller[w].pc = "trying"
  /\ seller' = [seller EXCEPT ![w].pc = "deduct"]
  /\ UNCHANGED <<created, metas, workers, worker, sellQ, main, buyer, routed, seen>>

DeductBalance(w) ==
  LET m == seller[w].mint IN
  /\ seller[w].pc = "deduct"
  /\ MetaFree(m)
  /\ metas' = [metas EXCEPT ![m] = IF @ = None THEN @ ELSE 0]
  /\ seller' = [seller EXCEPT ![w].pc = "forget"]
  /\ UNCHANGED <<created, workers, worker, sellQ, main, buyer, routed, seen>>

ForgetWorker(w) ==
  /\ seller[w].pc = "forget"
  /\ workers' = [workers EXCEPT ![seller[w].mint] = None]
  /\ seller' = [seller EXCEPT ![w].pc = "drop"]
  /\ UNCHANGED <<created, metas, worker, sellQ, main, buyer, routed, seen>>

DropMeta(w) ==
  /\ seller[w].pc = "drop"
  /\ MetaFree(seller[w].mint)
  /\ metas' = [metas EXCEPT ![seller[w].mint] = None]
  /\ seller' = [seller EXCEPT ![w].pc = "purge"]
  /\ UNCHANGED <<created, workers, worker, sellQ, main, buyer, routed, seen>>

PurgeCreated(w) ==
  /\ seller[w].pc = "purge"
  /\ CreatedFree(seller[w].mint)
  /\ created' = [created EXCEPT ![seller[w].mint] = "absent"]
  /\ seller' = [seller EXCEPT ![w].pc = "done"]
  /\ UNCHANGED <<metas, workers, worker, sellQ, main, buyer, routed, seen>>

-----------------------------------------------------------------------------
\* Every task is at rest and the main loop has nothing to receive.
Quiescent ==
  /\ main.pc = "select" /\ sellQ = <<>>
  /\ \A w \in Wids : ~Alive(w) /\ seller[w].pc \in {"none", "done"}
  /\ \A b \in Buys : buyer[b].pc \in {"unborn", "done", "gone"}
  /\ UNCHANGED vars

MainStep ==
  \/ \E m \in Mints : TakeCreate(m)
  \/ VetCreate \/ RegisterMeta \/ SpawnBuy
  \/ \E m \in Mints, cap \in Caps : TakeTrade(m, cap)
  \/ RouteInsert \/ RouteSend \/ RouteSendError \/ RouteEvict
  \/ TakeOrder

WorkerStep(w) ==
  WorkerTrade(w) \/ WorkerInactive(w) \/ WorkerClosed(w) \/ WorkerOffer(w)

BuyAnswer(b) ==
  (\E q \in Qtys : BuyConfirmed(b, q)) \/ BuyConfirmedBlind(b) \/ BuyAbandoned(b)

BuyTail(b) == BuyMark(b) \/ UpdateBalance(b) \/ BuyEnsure(b) \/ BuyInsert(b)

SellTail(w) == DeductBalance(w) \/ ForgetWorker(w) \/ DropMeta(w) \/ PurgeCreated(w)

SellStep(w) == SellConfirmed(w) \/ SellTail(w)

Next ==
  \/ MainStep
  \/ \E w \in Wids : WorkerStep(w) \/ SellStep(w)
  \/ \E b \in Buys : BuyAnswer(b) \/ BuyTail(b)
  \/ Quiescent

Spec == Init /\ [][Next]_vars

\* Every tokio task that can move eventually does: the multi-threaded runtime
\* polls woken tasks.  The RPC behind VetCreate is assumed to return.  No fairness
\* on creates and trades, nor on the answers to a buy or to a sale: a sell task may
\* retry for ever (main.rs:349-427, see module TxConfirm).
Fairness ==
  /\ WF_vars(VetCreate \/ RegisterMeta \/ SpawnBuy)
  /\ WF_vars(RouteInsert \/ RouteSend \/ RouteSendError \/ RouteEvict)
  /\ WF_vars(TakeOrder)
  /\ \A w \in Wids : WF_vars(WorkerStep(w)) /\ WF_vars(SellTail(w))
  /\ \A b \in Buys : WF_vars(BuyTail(b))

FairSpec == Spec /\ Fairness

-----------------------------------------------------------------------------
(***************************************************************************)
(* Properties                                                              *)
(***************************************************************************)
\* While a worker waits for room in the sell channel the position it read
\* cannot change underneath it: neither update_balance, nor the deduct_balance
\* and clear_after_sell of another sell task of the same mint, nor a new
\* register_meta gets in between (token_manager.rs:145-152 and 172-182).
OfferIsCurrent ==
  \A w \in Wids : worker[w].pc = "offer" => metas[worker[w].mint] = worker[w].amount

\* A confirmed buy of mint m reported the amount q.
Bought(m, q) == \E b \in Buys : buyer[b].mint = m /\ buyer[b].qty = q

\* Every sell order, from the worker that offers it to the task that retries
\* it, is for a positive amount that a confirmed buy of that mint reported: the
\* zero balance of register_meta (token_manager.rs:64), of a buy that is not yet
\* confirmed or of a sale that is (line 79) never becomes an order.
OrdersSellTheHolding ==
  /\ \A w \in Wids : worker[w].pc = "offer" =>
       worker[w].amount > 0 /\ Bought(worker[w].mint, worker[w].amount)
  /\ \A i \in 1..Len(sellQ) :
       sellQ[i].amount > 0 /\ Bought(sellQ[i].mint, sellQ[i].amount)
  /\ \A w \in Wids : seller[w].pc # "none" =>
       seller[w].amount > 0 /\ Bought(seller[w].mint, seller[w].amount)

\* The manager knows of tokens to sell.
Held(m) == metas[m] # None /\ metas[m] # 0

\* Somebody is going to sell them: a registered worker with its inactivity
\* timer, an order on its way, a sell task before its deduction, or the buy task
\* that is about to ensure a worker.
Watched(m) ==
  \/ \E w \in Wids : /\ worker[w].mint = m
                     /\ \/ worker[w].pc = "select" /\ workers[m] = w
                        \/ worker[w].pc = "offer"
  \/ \E i \in 1..Len(sellQ) : sellQ[i].mint = m
  \/ \E w \in Wids : seller[w].mint = m /\ seller[w].pc \in {"trying", "deduct"}
  \/ \E b \in Buys : buyer[b].mint = m /\ buyer[b].pc \in {"ensure", "insert"}

\* A worker of mint m left its loop believing that there was nothing to sell.
GaveUp(m, why) == \E w \in Wids : worker[w].mint = m /\ worker[w].pc \in why

\* What ensure_worker's doc comment promises (token_manager.rs:91: "Retourne (ou
\* crée) le Sender associé au token, avec timeout d'inactivité"), read for the
\* buy task that calls it: a position always has somebody to sell it.  Workers
\* that left by their 15 s timer are excluded, so that a counterexample needs
\* no task to be suspended for that long.
HeldIsWatched == \A m \in Mints : Held(m) => Watched(m) \/ GaveUp(m, {"idle"})

\* A sale of mint m is confirmed and about to forget its worker and its meta.
Clearing(m) == \E w \in Wids : seller[w].mint = m /\ seller[w].pc \in {"forget", "drop"}

\* The two ways to lose a position.  A worker that main created, between the buy
\* task's `confirmed = true` (main.rs:320) and update_balance (line 324), has left
\* with "nothing to sell", and its dead Sender satisfied ensure_worker.  Or the
\* mint has been created a second time, and a late sell task of its first life
\* clears the maps of the second (main.rs:418-420).
UnwatchedOnlyAfterBroke ==
  \A m \in Mints : Held(m) => Watched(m) \/ Clearing(m) \/ GaveUp(m, {"broke", "idle"})

\* Once a sell task has dropped the meta of a mint, no further order for it
\* enters the channel (until a new Create registers the mint again), although
\* other workers of that mint may be running and other sell tasks retrying.
NoOrderAfterLiquidation ==
  [][\A m \in Mints : metas[m] = None /\ sellQ' # sellQ /\ Len(sellQ') > Len(sellQ)
                        => sellQ'[Len(sellQ')].mint # m]_vars

\* Which task its locks, channel ends and ids let go on, without a new Create, a
\* new trade or an answer from outside.
MainCanMove ==
  \/ main.pc \in {"vet", "evict"}
  \/ main.pc = "register" /\ MetaFree(main.mint)
  \/ main.pc = "spawn" /\ \E b \in Buys : FreshBuy(b)
  \/ main.pc = "insert" /\ \E w \in Wids : FreshWid(w)
  \/ main.pc = "send" /\ (Alive(main.tx) => Len(worker[main.tx].queue) < Capacity)
  \/ main.pc = "select" /\ sellQ # <<>>
WorkerCanMove(w) ==
  \/ worker[w].pc = "select"
  \/ worker[w].pc = "offer" /\ Len(sellQ) < SellCap
SellerCanMove(w) ==
  \/ seller[w].pc = "forget"
  \/ seller[w].pc \in {"deduct", "drop"} /\ MetaFree(seller[w].mint)
  \/ seller[w].pc = "purge" /\ CreatedFree(seller[w].mint)
BuyerCanMove(b) ==
  \/ buyer[b].pc = "ensure"
  \/ buyer[b].pc = "mark" /\ CreatedFree(buyer[b].mint)
  \/ buyer[b].pc = "balance" /\ MetaFree(buyer[b].mint)
  \/ buyer[b].pc = "insert" /\ \E w \in Wids : FreshWid(w)
CanMove ==
  \/ MainCanMove
  \/ \E w \in Wids : WorkerCanMove(w) \/ SellerCanMove(w)
  \/ \E b \in Buys : BuyerCanMove(b)

\* Everything that was begun is finished, except what waits for an answer of the
\* chain: buy tasks in rx.changed(), sell tasks in their retry loop.
Settled ==
  /\ main.pc = "select" /\ sellQ = <<>>
  /\ \A w \in Wids : ~Alive(w) /\ seller[w].pc \in {"none", "trying", "done"}
  /\ \A b \in Buys : buyer[b].pc \in {"unborn", "wait", "done", "gone"}

\* A worker sits on a full sell channel with a shard of metas read-locked, and
\* the only receiver of that channel, the main loop, waits for that shard or for
\* room in the full trade channel of a worker that itself sits on the sell channel.
CircularWait ==
  /\ Len(sellQ) = SellCap
  /\ \/ main.pc = "register" /\ ~MetaFree(main.mint)
     \/ /\ main.pc = "send"
        /\ worker[main.tx].pc = "offer"
        /\ Len(worker[main.tx].queue) >= Capacity

\* No behaviour stops with work left anywhere but in the circular wait: without a
\* new event or an answer from outside, the tasks finish what they have begun
\* behind every map shard, channel end and dead worker.
StuckOnlyInCircularWait == CanMove \/ Settled \/ CircularWait

\* And nothing ends the circular wait: no answer to a buy or to a sale, no other
\* worker, no timer (sell_tx.send(..).await at token_manager.rs:148 and 176 has
\* none).  Orders, blocks, creates and trades are not received again.
CircularWaitIsFinal == [][CircularWait => CircularWait']_vars

\* Sell task w is in the retry loop of main.rs:349-427, with no answer so far.
Trying(w) == seller[w].pc = "trying"

\* An order that entered the channel is received by the main loop and given a
\* sell task, and once that task learns that its sale landed it works its way
\* through the shards of both maps to its end (main.rs:337-428).  Unless the
\* circular wait closes, or the task is left without an answer for ever.
Queued(w) == \E i \in 1..Len(sellQ) : sellQ[i].from = w
OrderIsServed ==
  \A w \in Wids : Queued(w) ~> (seller[w].pc = "done" \/ CircularWait \/ []Trying(w))

\* The tokens that a confirmed buy left in the manager do not stay there without
\* anybody trying to sell them: the inactivity timer of the worker, the order, the
\* sell task and deduct_balance follow one another whatever the trades do
\* (token_manager.rs:171-191, main.rs:339-428).  The exceptions: the lost position
\* of UnwatchedOnlyAfterBroke, the circular wait, a sell task that is never answered.
PositionIsSold ==
  \A m \in Mints : Held(m) ~>
    (\/ ~Held(m)
     \/ GaveUp(m, {"broke", "idle"})
     \/ CircularWait
     \/ \E w \in Wids : [](seller[w].mint = m /\ Trying(w)))

\* The main loop comes back to its select! from every branch, however long it
\* waits there for a shard of metas, for room in a trade channel or behind a
\* worker that has died, unless the circular wait closes.  (That the RPC awaited
\* inside a branch returns is assumed, see Fairness.)
MainReturns == main.pc # "select" ~> (main.pc = "select" \/ CircularWait)

=============================================================================
