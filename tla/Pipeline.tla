------------------------------ MODULE Pipeline ------------------------------
(***************************************************************************)
(* What carries events to the main loop and how it all stops: the two      *)
(* streams of the gRPC client, the bounded channels, the biased select of  *)
(* main.rs, the decode pool, the blockhash, and the shutdown.              *)
(*                                                                         *)
(* A channel is the number of messages in it: what a transaction holds is  *)
(* chosen when it is decoded, the slot of a block when it is received.     *)
(* Any order of slots is possible, as it is behind 512 concurrent senders  *)
(* and a server that is changed by a reconnect.                            *)
(***************************************************************************)
EXTENDS Naturals, Sequences

CONSTANTS
  Cap,          \* channel -> its capacity
  Concurrency,  \* messages a stream forwards at a time (512 in main.rs)
  Threads,      \* threads of the rayon pool
  MaxSlot,      \* bound: slots of the blocks
  Breaking,     \* bound: streams whose connection can break
  Stopping,     \* bound: is Ctrl-C pressed
  Malformed,    \* can a transaction be one that the main loop panics on
  Collide       \* can the loop and a buy task meet the locks of one that waits

Streams  == {"pump", "wallet"}
Carried  == {"pump", "blockmeta"}    \* channels that the pump stream feeds
Events   == {"create", "order", "trade"}
Channels == Carried \cup Events \cup {"job"}

ASSUME PipelineAssumption ==
  /\ Cap \in [Channels -> Nat \ {0}]
  /\ Concurrency \in Nat \ {0}
  /\ Threads # {}
  /\ MaxSlot \in Nat
  /\ Breaking \subseteq Streams
  /\ {Stopping, Malformed, Collide} \subseteq BOOLEAN

VARIABLES
  conn,       \* the connection of each stream
  notified,   \* has the Sender of the "go" been taken and used
  inflight,   \* messages of the pump stream that wait for room in their channel
  queue,      \* messages in each channel
  thread,     \* threads of the decode pool
  pool,       \* does the pool still iterate over the decode requests
  offering,   \* a worker waits for room in the sell channel, its metas guard held
  pc,         \* where the main loop is
  ready,      \* wallet_ready
  lastSlot,   \* last_slot
  hashSlot,   \* slot of the block whose hash the blockhash watch holds
  cancelled,  \* the cancellation token
  main,       \* where fn main is
  watcher,    \* where the confirmation watcher is
  loop        \* the main loop's task

net    == <<conn, notified, inflight>>
decode == <<thread, pool>>
blocks == <<lastSlot, hashSlot>>
stop   == <<cancelled, main, watcher, loop>>
vars  == <<net, queue, decode, offering, pc, ready, blocks, stop>>

-----------------------------------------------------------------------------
TypeOK ==
  /\ conn \in [Streams -> {"down", "open"}]
  /\ inflight \in [Carried -> 0 .. Concurrency]
  /\ queue \in [Channels -> Nat] /\ \A c \in Channels : queue[c] <= Cap[c]
  /\ thread \in [Threads -> {"idle", "busy", "traded"}]
  /\ pc \in {"select", "vet", "locked", "route", "full"}
  /\ lastSlot \in 0 .. MaxSlot /\ hashSlot \in 0 .. MaxSlot
  /\ {notified, pool, offering, ready, cancelled} \subseteq BOOLEAN
  /\ watcher \in {"await", "behind created", "behind metas", "ended"}
  /\ main \in {"run", "join watcher", "join loop", "exited"}
  /\ loop \in {"running", "aborting", "ended"}

Init ==
  /\ conn = [s \in Streams |-> "down"]
  /\ notified = FALSE
  /\ inflight = [c \in Carried |-> 0]
  /\ queue = [c \in Channels |-> 0]
  /\ thread = [t \in Threads |-> "idle"] /\ pool = TRUE
  /\ offering = FALSE
  /\ pc = "select" /\ ready = FALSE
  /\ lastSlot = 0 /\ hashSlot = 0
  /\ cancelled = FALSE /\ main = "run"
  /\ watcher = "await" /\ loop = "running"

-----------------------------------------------------------------------------
(***************************************************************************)
(* The channels.  They close with the main loop, their only receiver; the  *)
(* decode requests are received by the pool.                               *)
(***************************************************************************)
Running == loop # "ended"
Room(c) == Running /\ queue[c] < Cap[c]

TrySend_send(c) ==    \* mutant: an unbounded channel
  IF Running THEN [queue EXCEPT ![c] = @ + 1] ELSE queue

\* try_send drops what does not fit.
TrySend(c) == IF Room(c) THEN [queue EXCEPT ![c] = @ + 1] ELSE queue

Taken(c) == [queue EXCEPT ![c] = @ - 1]

Closed_kept == queue    \* mutant: the receivers are borrowed, and outlive the loop

\* The main loop ends, and drops its receivers.
Closed == [c \in Channels |-> IF c = "job" THEN queue[c] ELSE 0]

LoopEnds ==
  /\ loop' = "ended"
  /\ queue' = Closed

-----------------------------------------------------------------------------
(***************************************************************************)
(* The two streams of the client                                           *)
(***************************************************************************)
Moves(s, to) ==
  /\ conn' = [conn EXCEPT ![s] = to]
  /\ UNCHANGED <<inflight, queue, decode, offering, pc, ready, blocks, stop>>

\* for_each_concurrent returns when what it has read has been forwarded.
Drained(s) == s = "pump" => \A c \in Carried : inflight[c] = 0

\* connect fails, and is repeated after a pause of 2 to 32 s, or the subscription
\* fails, and both are repeated at once.
AttemptFails(s) ==
  /\ conn[s] = "down" /\ Drained(s)
  /\ UNCHANGED vars

\* The wallet stream takes the Sender, if it is still there, and sends the "go".
Subscribed(s) ==
  /\ conn[s] = "down" /\ Drained(s)
  /\ notified' = (notified \/ s = "wallet")
  /\ Moves(s, "open")

StreamEnds(s) ==
  /\ s \in Breaking
  /\ conn[s] = "open"
  /\ Moves(s, "down")
  /\ UNCHANGED notified

Deliver_apart(c) ==    \* mutant: blocks and transactions on streams of their own
  /\ conn["pump"] = "open"
  /\ inflight[c] < Concurrency
  /\ inflight' = [inflight EXCEPT ![c] = @ + 1]
  /\ UNCHANGED <<conn, notified, queue, decode, offering, pc, ready, blocks, stop>>

\* The next message of the pump stream is read when one of the slots is free.
Deliver(c) ==
  /\ conn["pump"] = "open"
  /\ inflight["pump"] + inflight["blockmeta"] < Concurrency
  /\ inflight' = [inflight EXCEPT ![c] = @ + 1]
  /\ UNCHANGED <<conn, notified, queue, decode, offering, pc, ready, blocks, stop>>

Forward_try(c) ==    \* mutant: try_send instead of send
  /\ inflight[c] > 0
  /\ inflight' = [inflight EXCEPT ![c] = @ - 1]
  /\ queue' = TrySend(c)
  /\ UNCHANGED <<conn, notified, decode, offering, pc, ready, blocks, stop>>

\* send(..).await: the message has room, or the channel is closed.
Forward(c) ==
  /\ inflight[c] > 0
  /\ Room(c) \/ ~Running
  /\ inflight' = [inflight EXCEPT ![c] = @ - 1]
  /\ queue' = TrySend(c)
  /\ UNCHANGED <<conn, notified, decode, offering, pc, ready, blocks, stop>>

StreamStep(s) == AttemptFails(s) \/ Subscribed(s) \/ StreamEnds(s)

-----------------------------------------------------------------------------
(***************************************************************************)
(* The decode pool                                                         *)
(***************************************************************************)
\* decode_req_tx is held by main until it cancels, its clone by the main loop.
Requesters == (IF cancelled THEN {} ELSE {"main"})
                \cup (IF Running THEN {"loop"} ELSE {})

Work(t, next) ==
  /\ thread' = [thread EXCEPT ![t] = next]
  /\ UNCHANGED <<net, pool, offering, pc, ready, blocks, stop>>

TakeJob(t) ==
  /\ thread[t] = "idle"
  /\ queue["job"] > 0
  /\ queue' = Taken("job")
  /\ Work(t, "busy")

\* The next Trade in the logs; what decodes to nothing is skipped.
DecodeTrade(t) ==
  /\ thread[t] # "idle"
  /\ queue' = TrySend("trade")
  /\ Work(t, "traded")

\* The end of the logs: a Create, if there was one, is offered with the first Trade.
EndJob(t) ==
  /\ thread[t] # "idle"
  /\ \/ UNCHANGED queue
     \/ thread[t] = "traded" /\ queue' = TrySend("create")
  /\ Work(t, "idle")

\* The iterator ends once every sender is gone and every request is decoded.
PoolEnds ==
  /\ pool
  /\ Requesters = {} /\ queue["job"] = 0
  /\ \A t \in Threads : thread[t] = "idle"
  /\ pool' = FALSE
  /\ UNCHANGED <<net, queue, thread, offering, pc, ready, blocks, stop>>

PoolStep(t) == TakeJob(t) \/ DecodeTrade(t) \/ EndJob(t)

-----------------------------------------------------------------------------
(***************************************************************************)
(* A worker and its sell order (see TokenManager).  Bound: one worker      *)
(* waits at a time.                                                        *)
(***************************************************************************)
Offer ==
  /\ ready
  /\ ~offering
  /\ offering' = TRUE
  /\ UNCHANGED <<net, queue, decode, pc, ready, blocks, stop>>

OrderSent ==
  /\ offering
  /\ Room("order") \/ ~Running
  /\ offering' = FALSE
  /\ queue' = TrySend("order")
  /\ UNCHANGED <<net, decode, pc, ready, blocks, stop>>

-----------------------------------------------------------------------------
(***************************************************************************)
(* The confirmation watcher.  It is at an await, or its thread is parked   *)
(* in get_mut or remove (transaction_verifier.rs:92-140) behind the guard  *)
(* that a buy task keeps from pending.get to the end of update_balance     *)
(* (main.rs:310-325, see TxConfirm).  The buy task waits for a shard of    *)
(* created, of which the main loop keeps a guard while it routes a trade,  *)
(* or then for a shard of metas, of which the worker that offers keeps     *)
(* one.  A buy task that the watcher does not run into is not shown.       *)
(***************************************************************************)
WatcherGoes(to) ==
  /\ watcher' = to
  /\ UNCHANGED <<net, queue, decode, offering, pc, ready, blocks, cancelled, main, loop>>

CreatedLocked == Running /\ pc \in {"route", "full"}

WatcherParks ==
  /\ Collide /\ ready
  /\ watcher = "await"
  /\ \/ CreatedLocked /\ WatcherGoes("behind created")
     \/ offering /\ WatcherGoes("behind metas")

\* created.get_mut has returned; update_balance follows.
BuyMarks ==
  /\ watcher = "behind created"
  /\ ~CreatedLocked
  /\ WatcherGoes("await") \/ (offering /\ WatcherGoes("behind metas"))

\* update_balance has returned, the guard of the pending map is dropped.
BuyUnlocks ==
  /\ watcher = "behind metas"
  /\ ~offering
  /\ WatcherGoes("await")

WatcherStep == WatcherParks \/ BuyMarks \/ BuyUnlocks

-----------------------------------------------------------------------------
(***************************************************************************)
(* The main loop: a select that polls its branches from the first to the   *)
(* last and takes the first that is ready                                  *)
(***************************************************************************)
Branches == <<"ready", "pump", "create", "order", "trade", "blockmeta", "shutdown">>

HasEvent(b) ==
  CASE b = "ready"    -> notified /\ ~ready
    [] b = "shutdown" -> cancelled
    [] OTHER          -> queue[b] > 0

Selects(b) ==
  /\ Running /\ pc = "select"
  /\ \E i \in DOMAIN Branches :
       /\ Branches[i] = b /\ HasEvent(b)
       /\ \A j \in 1 .. i - 1 : ~HasEvent(Branches[j])

ReceiveReady ==
  /\ Selects("ready")
  /\ ready' = TRUE
  /\ UNCHANGED <<net, queue, decode, offering, pc, blocks, stop>>

\* Before the "go", and when an update has no transaction, nothing is decoded.
DropPump ==
  /\ Selects("pump")
  /\ queue' = Taken("pump")
  /\ UNCHANGED <<net, decode, offering, pc, ready, blocks, stop>>

RequestDecode_early ==    \* mutant: the loop does not wait for the "go"
  /\ Selects("pump")
  /\ queue' = [TrySend("job") EXCEPT !["pump"] = @ - 1]
  /\ UNCHANGED <<net, decode, offering, pc, ready, blocks, stop>>

RequestDecode ==
  /\ Selects("pump")
  /\ ready
  /\ queue' = [TrySend("job") EXCEPT !["pump"] = @ - 1]
  /\ UNCHANGED <<net, decode, offering, pc, ready, blocks, stop>>

\* "Program data: " that is not base64, or a signature of a wrong length.
PanicOnPump ==
  /\ Malformed
  /\ Selects("pump")
  /\ ready
  /\ LoopEnds
  /\ UNCHANGED <<net, decode, offering, pc, ready, blocks, cancelled, main, watcher>>

LoopGoes(to) ==
  /\ pc' = to
  /\ UNCHANGED <<net, decode, offering, ready, blocks, stop>>

\* A mint that is known or a developer who bought too much is skipped at once;
\* otherwise is_wallet_new is awaited.
ReceiveCreate ==
  /\ Selects("create")
  /\ queue' = Taken("create")
  /\ \E to \in {"select", "vet"} : LoopGoes(to)

\* The create is refused, or the buy task is spawned; register_meta blocks the
\* thread when the worker that waits holds the shard of the mint.
Vetted ==
  /\ Running /\ pc = "vet"
  /\ \/ LoopGoes("select")
     \/ Collide /\ offering /\ LoopGoes("locked")
  /\ UNCHANGED queue

\* A sell task is spawned.
ReceiveOrder ==
  /\ Selects("order")
  /\ queue' = Taken("order")
  /\ LoopGoes("select")

\* The trade of an unwatched mint is dropped; route_trade may find room or wait
\* for it, for ever if the worker is the one that waits itself.
ReceiveTrade ==
  /\ Selects("trade")
  /\ queue' = Taken("trade")
  /\ \/ \E to \in {"select", "route"} : LoopGoes(to)
     \/ Collide /\ offering /\ LoopGoes("full")

Released ==
  /\ Running
  /\ pc = "route" \/ (pc \in {"locked", "full"} /\ ~offering)
  /\ LoopGoes("select")
  /\ UNCHANGED queue

Newer_any(slot) == slot # lastSlot    \* mutant: a block is new if it is another one

\* An older block is skipped; a hash that does not parse is not published.
Newer(slot) == slot > lastSlot

ReceiveBlockMeta ==
  /\ Selects("blockmeta")
  /\ queue' = Taken("blockmeta")
  /\ \E slot \in 0 .. MaxSlot :
       IF Newer(slot)
       THEN lastSlot' = slot /\ hashSlot' \in {hashSlot, slot}
       ELSE UNCHANGED blocks
  /\ UNCHANGED <<net, decode, offering, pc, ready, stop>>

ReceiveShutdown ==
  /\ Selects("shutdown")
  /\ LoopEnds
  /\ UNCHANGED <<net, decode, offering, pc, ready, blocks, cancelled, main, watcher>>

LoopStep ==
  \/ ReceiveReady \/ DropPump \/ RequestDecode \/ PanicOnPump
  \/ ReceiveCreate \/ Vetted \/ ReceiveOrder \/ ReceiveTrade \/ Released
  \/ ReceiveBlockMeta \/ ReceiveShutdown

-----------------------------------------------------------------------------
(***************************************************************************)
(* The shutdown                                                            *)
(***************************************************************************)
StopGoes == UNCHANGED <<net, decode, offering, pc, ready, blocks>>

\* Ctrl-C: cancel the token, drop decode_req_tx, sleep for 2 s.  What is joined
\* before the watcher is left out: the launcher of the streams, which has ended
\* by then, and the listener, which only logs.
Cancel ==
  /\ Stopping
  /\ main = "run"
  /\ main' = "join watcher" /\ cancelled' = TRUE
  /\ UNCHANGED <<queue, watcher, loop>> /\ StopGoes

\* The watcher sees the token, or is aborted, when it is at an await, and is joined.  As
\* long as it is parked fn main does not come to the task after it.
JoinWatcher ==
  /\ main = "join watcher"
  /\ watcher = "await"
  /\ main' = "join loop" /\ watcher' = "ended"
  /\ UNCHANGED <<queue, cancelled, loop>> /\ StopGoes

Abort_never ==    \* mutant: the loop is awaited only
  FALSE /\ UNCHANGED vars

Abort ==
  /\ main = "join loop"
  /\ loop = "running"
  /\ loop' = "aborting"
  /\ UNCHANGED <<queue, cancelled, main, watcher>> /\ StopGoes

\* An aborted task is dropped at an await; the wait for a shard lock is none.
Aborted ==
  /\ loop = "aborting" /\ pc # "locked"
  /\ LoopEnds
  /\ UNCHANGED <<cancelled, main, watcher>> /\ StopGoes

Exit_abort ==    \* mutant: the aborted loop is not awaited
  /\ main = "join loop"
  /\ loop # "running"
  /\ main' = "exited"
  /\ UNCHANGED <<queue, cancelled, watcher, loop>> /\ StopGoes

\* Joined: the runtime is dropped and the process ends with all its threads.
Exit ==
  /\ main = "join loop"
  /\ ~Running
  /\ main' = "exited"
  /\ UNCHANGED <<queue, cancelled, watcher, loop>> /\ StopGoes

StopStep == JoinWatcher \/ Abort \/ Aborted \/ Exit

Terminated == main = "exited" /\ UNCHANGED vars

-----------------------------------------------------------------------------
Step ==
  \/ \E s \in Streams : StreamStep(s)
  \/ \E c \in Carried : Deliver(c) \/ Forward(c)
  \/ \E t \in Threads : PoolStep(t)
  \/ PoolEnds
  \/ Offer \/ OrderSent
  \/ WatcherStep
  \/ LoopStep
  \/ Cancel \/ StopStep

Next == (main # "exited" /\ Step) \/ Terminated

Spec == Init /\ [][Next]_vars

\* The runtime polls every task that can move and the pool's threads run; the
\* RPC of is_wallet_new returns.  A poll of the loop or of the watcher ends (its
\* budget), so that an abort takes effect unless a lock holds it; a shard that is free
\* again and again is got by a task that waits for it.  The server answers an attempt
\* to connect or to subscribe again and again, and the stream of an open connection
\* holds a block again and again.  Transactions, orders, buys and Ctrl-C are not fair.
Fairness ==
  /\ WF_vars(LoopStep) /\ WF_vars(OrderSent)
  /\ SF_vars(BuyMarks \/ BuyUnlocks) /\ SF_vars(StopStep)
  /\ \A t \in Threads : WF_vars(TakeJob(t) \/ EndJob(t))
  /\ \A s \in Streams : WF_vars(Subscribed(s))
  /\ \A c \in Carried : WF_vars(Forward(c))
  /\ SF_vars(Deliver("blockmeta"))

FairSpec == Spec /\ Fairness

-----------------------------------------------------------------------------
(***************************************************************************)
(* Properties                                                              *)
(***************************************************************************)
\* client.rs:2-3 "publie un signal quand le flux wallet est abonné (pour que
\* main puisse attendre ce « go » avant d'analyser Pump.fun)": nothing is being
\* decoded, bought or routed before the wallet stream has been subscribed.
NothingBeforeGo ==
  \/ \E c \in {"job", "create", "trade"} : queue[c] > 0
  \/ \E t \in Threads : thread[t] # "idle"
  \/ pc # "select"
  => notified

\* The hash that a transaction is built with never gives way to that of an
\* older block, in whatever order the concurrent senders and the servers of
\* successive connections deliver the blocks, and whatever does not parse.
HashNeverGoesBack == [][hashSlot' >= hashSlot]_vars

\* When fn main returns, it has joined the watcher and the main loop, and the decode
\* pool has no sender left to wait for (main.rs:1 "Rayon stoppé").  The buy and the sell
\* tasks and the workers (main.rs:274, 348, token_manager.rs:107) are in no list of
\* tasks, so nobody joins them: they go on until the runtime is dropped.
ExitAfterJoins ==
  main = "exited" => watcher = "ended" /\ ~Running /\ Requesters = {}

\* Both the main loop, the only receiver of the sell channel, and a worker that
\* has filled it wait for each other (StuckOnlyInCircularWait of TokenManager).
Parked == offering /\ queue["order"] = Cap["order"] /\ pc \in {"locked", "full"}

\* What a step needs that comes after an event: any step but a new connection, message,
\* order or buy, Ctrl-C and what a thread finds in its job.
ForwardCanMove(c) == inflight[c] > 0 /\ (Room(c) \/ ~Running)
OrderCanMove == offering /\ (Room("order") \/ ~Running)

PoolCanMove ==
  \/ queue["job"] > 0 \/ \E t \in Threads : thread[t] # "idle"
  \/ pool /\ Requesters = {}

LoopCanMove ==
  /\ Running
  /\ \/ pc = "select" /\ \E i \in DOMAIN Branches : HasEvent(Branches[i])
     \/ pc \in {"vet", "route"}
     \/ pc \in {"locked", "full"} /\ ~offering

WatcherParked == watcher \in {"behind created", "behind metas"}

WatcherCanMove ==
  \/ watcher = "behind created" /\ ~CreatedLocked
  \/ watcher = "behind metas" /\ ~offering

StopCanMove ==
  \/ watcher = "await" /\ main = "join watcher"
  \/ loop # "aborting" /\ main = "join loop"
  \/ loop = "aborting" /\ pc # "locked"

Stopped ==
  /\ \A c \in Carried : ~ForwardCanMove(c)
  /\ ~OrderCanMove /\ ~PoolCanMove /\ ~LoopCanMove
  /\ ~WatcherCanMove /\ ~StopCanMove

\* Whatever has been read, requested, decoded or ordered has been dealt with.
AtRest ==
  /\ \A c \in Carried : inflight[c] = 0
  /\ \A c \in Channels : queue[c] = 0
  /\ \A t \in Threads : thread[t] = "idle"
  /\ ~offering /\ ~WatcherParked
  /\ Running => pc = "select"

\* Where fn main can be left waiting for a join: the thread of the loop waits in a
\* shard lock, where an abort does not reach it, or that of the watcher, which is
\* joined before the loop is aborted (main.rs:480-483).
JoinHangs == Parked /\ (pc = "locked" \/ WatcherParked)

\* The channels, the slots of the stream, the select, the guards of the maps, the pool and
\* the joins of fn main wait for each other in one way only: when the process is not
\* at an end, nothing stops with work under way unless the loop is parked; and a
\* shutdown stops only if the loop is parked in a shard lock, or is parked and a buy task
\* behind it has parked the watcher.
StopsOnlyParked ==
  Stopped /\ main # "exited" =>
    IF main = "run" THEN AtRest \/ Parked ELSE JoinHangs

\* Orders are received although pump transactions and creates come first, and
\* however many of them there are: the blocks of the same stream, which come
\* last, pile up until they hold every slot of the stream, and the flood stops
\* until the loop has come down to them.
OrdersAreReceived == queue["order"] > 0 ~> queue["order"] = 0 \/ Parked

\* Blocks keep being received, for the same reason, unless it is orders that come
\* without end.  That one of them brings a newer hash is the server's matter.
BlocksAreReceived ==
  []<>(~Running \/ Parked) \/ []<><<Offer>>_vars \/ []<><<ReceiveBlockMeta>>_vars

\* main.rs:1 "shutdown propre": after Ctrl-C the process ends, in the middle of
\* a flood and after a panic, unless the loop is parked and the abort does not reach it.
ShutdownEnds == cancelled ~> main = "exited" \/ JoinHangs
=============================================================================
