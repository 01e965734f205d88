--------------------------- MODULE PipelineProofs ---------------------------
(***************************************************************************)
(* Proofs about Pipeline for every capacity, concurrency, number of        *)
(* threads and slots, and every choice of what may go wrong.               *)
(***************************************************************************)
EXTENDS Pipeline, TLAPS

(***************************************************************************)
(* The channels                                                            *)
(***************************************************************************)
\* What TypeOK says of the channels, as a predicate on their value.
Queues(q) == q \in [Channels -> Nat] /\ \A c \in Channels : q[c] <= Cap[c]

LEMMA ChannelNames ==
  /\ {"pump", "blockmeta", "create", "order", "trade", "job"} = Channels
  /\ Carried = {"pump", "blockmeta"}
  BY DEF Channels, Carried, Events

LEMMA TrySendTyped ==
  ASSUME TypeOK, NEW c \in Channels
  PROVE  Queues(TrySend(c))
<1>1. Queues(queue)
  BY DEF TypeOK, Queues
<1>2. CASE Room(c)
  <2>1. queue[c] + 1 <= Cap[c]
    BY <1>1, <1>2, PipelineAssumption DEF Room, Queues
  <2> QED
    BY <1>1, <1>2, <2>1 DEF TrySend, Queues
<1> QED
  BY <1>1, <1>2 DEF TrySend

LEMMA TakenTyped ==
  ASSUME TypeOK, NEW c \in Channels, queue[c] > 0
  PROVE  Queues(Taken(c))
<1>1. Queues(queue)
  BY DEF TypeOK, Queues
<1>2. queue[c] - 1 \in Nat /\ queue[c] - 1 <= Cap[c]
  BY <1>1, PipelineAssumption DEF Queues
<1> QED
  BY <1>1, <1>2 DEF Taken, Queues

LEMMA ClosedTyped ==
  ASSUME TypeOK
  PROVE  Queues(Closed)
<1>1. Queues(queue)
  BY DEF TypeOK, Queues
<1>2. \A c \in Channels : Closed[c] \in Nat /\ Closed[c] <= Cap[c]
  BY <1>1, PipelineAssumption DEF Closed, Queues
<1> QED
  BY <1>2 DEF Closed, Queues

\* The branch of a channel is taken only when there is something in it.
LEMMA SelectedIsThere ==
  ASSUME NEW b \in Channels, Selects(b)
  PROVE  queue[b] > 0 /\ Running /\ pc = "select"
  BY DEF Selects, HasEvent, Channels, Carried, Events

(***************************************************************************)
(* Types                                                                   *)
(***************************************************************************)
LEMMA InitTyped == Init => TypeOK
<1> SUFFICES ASSUME Init PROVE TypeOK
  OBVIOUS
<1>1. queue \in [Channels -> Nat] /\ \A c \in Channels : queue[c] <= Cap[c]
  BY PipelineAssumption DEF Init
<1>2. thread \in [Threads -> {"idle", "busy", "traded"}]
  BY DEF Init
<1>3. {notified, pool, offering, ready, cancelled} \subseteq BOOLEAN
  BY Zenon DEF Init
<1>4. inflight \in [Carried -> 0 .. Concurrency] /\ conn \in [Streams -> {"down", "open"}]
  BY PipelineAssumption DEF Init
<1>5. lastSlot \in 0 .. MaxSlot /\ hashSlot \in 0 .. MaxSlot
  BY PipelineAssumption DEF Init
<1> QED
  BY <1>1, <1>2, <1>3, <1>4, <1>5 DEF Init, TypeOK

\* The conjuncts of TypeOK that are about more than one component of vars, as
\* predicates that survive the steps that leave those alone.
NetOK ==
  /\ conn \in [Streams -> {"down", "open"}]
  /\ notified \in BOOLEAN
  /\ inflight \in [Carried -> 0 .. Concurrency]
QueueOK == Queues(queue)
DecodeOK ==
  /\ thread \in [Threads -> {"idle", "busy", "traded"}]
  /\ pool \in BOOLEAN
LoopOK ==
  /\ pc \in {"select", "vet", "locked", "route", "full"}
  /\ ready \in BOOLEAN /\ offering \in BOOLEAN
  /\ lastSlot \in 0 .. MaxSlot /\ hashSlot \in 0 .. MaxSlot
StopOK ==
  /\ cancelled \in BOOLEAN
  /\ watcher \in {"await", "behind created", "behind metas", "ended"}
  /\ main \in {"run", "join watcher", "join loop", "exited"}
  /\ loop \in {"running", "aborting", "ended"}

LEMMA Parts ==
  /\ TypeOK <=> NetOK /\ QueueOK /\ DecodeOK /\ LoopOK /\ StopOK
  /\ TypeOK' <=> NetOK' /\ QueueOK' /\ DecodeOK' /\ LoopOK' /\ StopOK'
  BY DEF TypeOK, NetOK, QueueOK, Queues, DecodeOK, LoopOK, StopOK

LEMMA Frame ==
  ASSUME TypeOK
  PROVE  /\ UNCHANGED net => NetOK'
         /\ UNCHANGED queue => QueueOK'
         /\ UNCHANGED decode => DecodeOK'
         /\ UNCHANGED <<offering, pc, ready, blocks>> => LoopOK'
         /\ UNCHANGED stop => StopOK'
<1>1. UNCHANGED net => NetOK'
  BY Parts, Zenon DEF NetOK, net
<1>2. UNCHANGED queue => QueueOK'
  BY Parts DEF QueueOK, Queues
<1>3. UNCHANGED decode => DecodeOK'
  BY Parts, Zenon DEF DecodeOK, decode
<1>4. UNCHANGED <<offering, pc, ready, blocks>> => LoopOK'
  BY Parts, Zenon DEF LoopOK, blocks
<1>5. UNCHANGED stop => StopOK'
  BY Parts, Zenon DEF StopOK, stop
<1> QED
  BY <1>1, <1>2, <1>3, <1>4, <1>5

LEMMA StreamTyped ==
  ASSUME TypeOK, NEW s \in Streams, StreamStep(s)
  PROVE  TypeOK'
<1>1. CASE AttemptFails(s)
  BY <1>1, Frame, Parts DEF AttemptFails, vars
<1>2. CASE Subscribed(s)
  <2>1. NetOK'
    BY <1>2, Parts DEF NetOK, Subscribed, Moves
  <2> QED
    BY <1>2, <2>1, Frame, Parts DEF Subscribed, Moves
<1>3. CASE StreamEnds(s)
  <2>1. NetOK'
    BY <1>3, Parts DEF NetOK, StreamEnds, Moves
  <2> QED
    BY <1>3, <2>1, Frame, Parts DEF StreamEnds, Moves
<1> QED
  BY <1>1, <1>2, <1>3 DEF StreamStep

LEMMA CarriedTyped ==
  ASSUME TypeOK, NEW c \in Carried, Deliver(c) \/ Forward(c)
  PROVE  TypeOK'
<1>1. /\ inflight \in [Carried -> 0 .. Concurrency]
      /\ inflight["pump"] \in 0 .. Concurrency
      /\ inflight["blockmeta"] \in 0 .. Concurrency
      /\ c \in Channels
      /\ c \in {"pump", "blockmeta"}
  BY ChannelNames DEF TypeOK
<1>2. CASE Deliver(c)
  <2>1. inflight[c] + 1 \in 0 .. Concurrency
    BY <1>1, <1>2, PipelineAssumption DEF Deliver
  <2>2. NetOK'
    BY <1>1, <1>2, <2>1, Parts DEF NetOK, Deliver
  <2> QED
    BY <1>2, <2>2, Frame, Parts DEF Deliver
<1>3. CASE Forward(c)
  <2>1. inflight[c] - 1 \in 0 .. Concurrency
    BY <1>1, <1>3, PipelineAssumption DEF Forward
  <2>2. NetOK'
    BY <1>1, <1>3, <2>1, Parts DEF NetOK, Forward
  <2>3. QueueOK'
    BY <1>1, <1>3, TrySendTyped DEF QueueOK, Queues, Forward
  <2> QED
    BY <1>3, <2>2, <2>3, Frame, Parts DEF Forward
<1> QED
  BY <1>2, <1>3

LEMMA DecodeTyped ==
  ASSUME TypeOK, (\E t \in Threads : PoolStep(t)) \/ PoolEnds
  PROVE  TypeOK'
<1>1. ASSUME NEW t \in Threads, PoolStep(t)
      PROVE  TypeOK'
  <2>1. QueueOK'
    BY <1>1, TrySendTyped, TakenTyped, ChannelNames, Frame
    DEF PoolStep, TakeJob, DecodeTrade, EndJob, QueueOK, Queues
  <2>2. DecodeOK'
    BY <1>1, Parts DEF DecodeOK, PoolStep, TakeJob, DecodeTrade, EndJob, Work
  <2>3. UNCHANGED <<net, offering, pc, ready, blocks, stop>>
    BY <1>1 DEF PoolStep, TakeJob, DecodeTrade, EndJob, Work
  <2> QED
    BY <2>1, <2>2, <2>3, Frame, Parts
<1>2. CASE PoolEnds
  <2>1. DecodeOK'
    BY <1>2, Parts DEF DecodeOK, PoolEnds
  <2> QED
    BY <1>2, <2>1, Frame, Parts DEF PoolEnds
<1> QED
  BY <1>1, <1>2

LEMMA WorkerTyped ==
  ASSUME TypeOK, Offer \/ OrderSent
  PROVE  TypeOK'
<1>1. QueueOK' /\ UNCHANGED <<net, decode, pc, ready, blocks, stop>>
  BY TrySendTyped, ChannelNames, Frame DEF Offer, OrderSent, QueueOK, Queues
<1>2. LoopOK'
  BY <1>1, Parts DEF LoopOK, Offer, OrderSent, blocks
<1> QED
  BY <1>1, <1>2, Frame, Parts

\* What the watcher does shows in `watcher` alone.
LEMMA WatcherChanges ==
  ASSUME WatcherStep
  PROVE  /\ watcher # "ended"
         /\ watcher' \in {"await", "behind created", "behind metas"}
         /\ UNCHANGED <<net, queue, decode, offering, pc, ready, blocks, cancelled, main,
                       loop>>
  BY DEF WatcherStep, WatcherParks, BuyMarks, BuyUnlocks, WatcherGoes

LEMMA WatcherTyped ==
  ASSUME TypeOK, WatcherStep
  PROVE  TypeOK'
<1>1. StopOK'
  BY WatcherChanges, Parts DEF StopOK
<1> QED
  BY <1>1, WatcherChanges, Frame, Parts

LEMMA LoopTyped ==
  ASSUME TypeOK, LoopStep
  PROVE  TypeOK'
<1>1. CASE ReceiveReady
  BY <1>1, Frame, Parts DEF ReceiveReady, LoopOK, blocks
<1>2. CASE DropPump
  BY <1>2, TakenTyped, SelectedIsThere, ChannelNames, Frame, Parts
  DEF DropPump, QueueOK, Queues
<1>3. CASE RequestDecode
  <2>1. queue["pump"] > 0 /\ queue["pump"] \in Nat /\ Queues(TrySend("job"))
    BY <1>3, TrySendTyped, SelectedIsThere, ChannelNames DEF RequestDecode, TypeOK
  <2>2. TrySend("job")["pump"] = queue["pump"]
    BY ChannelNames DEF TrySend, TypeOK
  <2>3. Queues(queue')
    BY <1>3, <2>1, <2>2, ChannelNames, PipelineAssumption DEF RequestDecode, Queues
  <2> QED
    BY <1>3, <2>3, Frame, Parts DEF RequestDecode, QueueOK, Queues
<1>4. CASE PanicOnPump \/ ReceiveShutdown
  <2>1. QueueOK'
    BY <1>4, ClosedTyped DEF PanicOnPump, ReceiveShutdown, LoopEnds, QueueOK, Queues
  <2>2. StopOK'
    BY <1>4, Parts DEF PanicOnPump, ReceiveShutdown, LoopEnds, StopOK
  <2> QED
    BY <1>4, <2>1, <2>2, Frame, Parts DEF PanicOnPump, ReceiveShutdown
<1>5. CASE ReceiveCreate \/ ReceiveOrder \/ ReceiveTrade
  <2>1. QueueOK'
    BY <1>5, TakenTyped, SelectedIsThere, ChannelNames
    DEF ReceiveCreate, ReceiveOrder, ReceiveTrade, QueueOK, Queues
  <2>2. LoopOK'
    BY <1>5, Parts
    DEF ReceiveCreate, ReceiveOrder, ReceiveTrade, LoopGoes, LoopOK, blocks
  <2> QED
    BY <1>5, <2>1, <2>2, Frame, Parts
    DEF ReceiveCreate, ReceiveOrder, ReceiveTrade, LoopGoes
<1>6. CASE Vetted \/ Released
  <2>1. LoopOK'
    BY <1>6, Parts DEF Vetted, Released, LoopGoes, LoopOK, blocks
  <2> QED
    BY <1>6, <2>1, Frame, Parts DEF Vetted, Released, LoopGoes
<1>7. CASE ReceiveBlockMeta
  <2>1. QueueOK'
    BY <1>7, TakenTyped, SelectedIsThere, ChannelNames
    DEF ReceiveBlockMeta, QueueOK, Queues
  <2>2. LoopOK'
    BY <1>7, Parts DEF ReceiveBlockMeta, LoopOK, blocks
  <2> QED
    BY <1>7, <2>1, <2>2, Frame, Parts DEF ReceiveBlockMeta
<1> QED
  BY <1>1, <1>2, <1>3, <1>4, <1>5, <1>6, <1>7 DEF LoopStep

LEMMA StopTyped ==
  ASSUME TypeOK, Cancel \/ StopStep
  PROVE  TypeOK'
<1>1. StopOK'
  BY Parts DEF Cancel, StopStep, JoinWatcher, Abort, Aborted, Exit,
               LoopEnds, StopOK
<1>2. QueueOK'
  BY ClosedTyped, Frame DEF Cancel, StopStep, JoinWatcher, Abort,
     Aborted, Exit, LoopEnds, QueueOK, Queues
<1>3. UNCHANGED <<net, decode, offering, pc, ready, blocks>>
  BY DEF Cancel, StopStep, JoinWatcher, Abort, Aborted, Exit, StopGoes
<1> QED
  BY <1>1, <1>2, <1>3, Frame, Parts

LEMMA NextTyped == TypeOK /\ [Next]_vars => TypeOK'
<1> SUFFICES ASSUME TypeOK, [Next]_vars PROVE TypeOK'
  OBVIOUS
<1>1. CASE Step
  BY <1>1, StreamTyped, CarriedTyped, DecodeTyped, WorkerTyped, WatcherTyped, LoopTyped,
     StopTyped
  DEF Step
<1>2. CASE UNCHANGED vars
  BY <1>2, Frame, Parts DEF vars
<1> QED
  BY <1>1, <1>2 DEF Next, Terminated

\* Every reachable state is well typed: no channel holds more than its capacity,
\* and the pump stream no more messages than it may forward at a time.
THEOREM TypeCorrect == Spec => []TypeOK
  BY InitTyped, NextTyped, PTL DEF Spec

(***************************************************************************)
(* Nothing before the go.  NothingBeforeGo alone is not inductive: it says *)
(* nothing of the flag `ready`, behind which the requests start.           *)
(***************************************************************************)
Quiet ==
  /\ queue["job"] = 0 /\ queue["create"] = 0 /\ queue["trade"] = 0
  /\ \A t \in Threads : thread[t] = "idle"
  /\ pc = "select"

ReadyAfterGo == ~notified => ~ready /\ Quiet

\* Without a job nothing is decoded; a quiet pipeline stays quiet until a request.
LEMMA QuietUntilReady ==
  ASSUME TypeOK, ~notified, ~notified', ~ready, Quiet, Step
  PROVE  ~ready' /\ Quiet'
<1>1. /\ Carried = {"pump", "blockmeta"}
      /\ "job" \in Channels /\ "create" \in Channels /\ "trade" \in Channels
      /\ queue \in [Channels -> Nat]
  BY ChannelNames DEF TypeOK
<1>2. ASSUME NEW c \in {"pump", "blockmeta", "order"},
             queue' \in {TrySend(c), Taken(c), queue}
      PROVE  queue'["job"] = 0 /\ queue'["create"] = 0 /\ queue'["trade"] = 0
  BY <1>1, <1>2 DEF TrySend, Taken, Quiet
<1>3. queue' = Closed
        => queue'["job"] = 0 /\ queue'["create"] = 0 /\ queue'["trade"] = 0
  BY <1>1 DEF Closed, Quiet
<1>4. ASSUME NEW s \in Streams, StreamStep(s)
      PROVE  ~ready' /\ Quiet'
  BY <1>4 DEF StreamStep, AttemptFails, Subscribed, StreamEnds, Moves, Quiet, vars, decode
<1>5. ASSUME NEW c \in Carried, Deliver(c) \/ Forward(c)
      PROVE  ~ready' /\ Quiet'
  BY <1>1, <1>2, <1>5 DEF Deliver, Forward, Quiet, decode
<1>6. ASSUME NEW t \in Threads, PoolStep(t)
      PROVE  FALSE
  <2>1. thread[t] # "idle" \/ queue["job"] > 0
    BY <1>6 DEF PoolStep, TakeJob, DecodeTrade, EndJob
  <2>2. thread[t] = "idle"
    BY DEF Quiet
  <2>3. queue["job"] = 0
    BY DEF Quiet
  <2> QED
    BY <2>1, <2>2, <2>3
<1>7. CASE PoolEnds
  BY <1>7 DEF PoolEnds, Quiet
<1>8. CASE Offer \/ OrderSent
  BY <1>2, <1>8 DEF Offer, OrderSent, Quiet, decode
<1>11. CASE WatcherStep
  <2>1. UNCHANGED <<queue, thread, pc, ready>>
    BY <1>11, WatcherChanges DEF decode
  <2> QED
    BY <2>1 DEF Quiet
<1>9. ASSUME LoopStep
      PROVE  ~ready' /\ Quiet'
  <2>1. ~Selects("ready") /\ ~Selects("create") /\ ~Selects("trade")
    <3>1. ~Selects("ready")
      BY DEF Selects, HasEvent
    <3> QED
      BY <1>1, <3>1, SelectedIsThere DEF Quiet
  <2>2. CASE DropPump
    BY <1>2, <2>2 DEF DropPump, Quiet, decode
  <2>3. CASE PanicOnPump \/ ReceiveShutdown
    BY <1>3, <2>3 DEF PanicOnPump, ReceiveShutdown, LoopEnds, Quiet, decode
  <2>4. CASE ReceiveOrder
    BY <1>2, <2>4 DEF ReceiveOrder, LoopGoes, Quiet, decode
  <2>5. CASE ReceiveBlockMeta
    BY <1>2, <2>5 DEF ReceiveBlockMeta, Quiet, decode
  <2> QED
    BY <1>9, <2>1, <2>2, <2>3, <2>4, <2>5
    DEF LoopStep, ReceiveReady, RequestDecode, ReceiveCreate, ReceiveTrade,
        Vetted, Released, Quiet
<1>10. CASE Cancel \/ StopStep
  <2>1. queue' \in {queue, Closed}
    BY <1>10 DEF Cancel, StopStep, JoinWatcher, Abort, Aborted, Exit, LoopEnds
  <2>2. UNCHANGED <<thread, pc, ready>>
    BY <1>10 DEF Cancel, StopStep, JoinWatcher, Abort, Aborted, Exit,
       StopGoes, decode
  <2> QED
    BY <1>2, <1>3, <2>1, <2>2 DEF Quiet
<1> QED
  BY <1>4, <1>5, <1>6, <1>7, <1>8, <1>9, <1>10, <1>11 DEF Step

\* The go is never taken back.
LEMMA GoStays == [Next]_vars => (notified => notified')
<1> SUFFICES ASSUME [Next]_vars, notified PROVE notified'
  OBVIOUS
<1>1. ASSUME NEW s \in Streams, StreamStep(s)
      PROVE  notified'
  BY <1>1, Zenon DEF StreamStep, AttemptFails, Subscribed, StreamEnds, vars, net
<1>2. CASE UNCHANGED net
  BY <1>2 DEF net
<1>3. ASSUME NEW c \in Carried, Deliver(c) \/ Forward(c)
      PROVE  notified'
  BY <1>3 DEF Deliver, Forward
<1>4. ASSUME Step, \A s \in Streams : ~StreamStep(s),
             \A c \in Carried : ~Deliver(c) /\ ~Forward(c)
      PROVE  UNCHANGED net
  <2>1. (\E t \in Threads : PoolStep(t)) \/ PoolEnds \/ Offer \/ OrderSent => UNCHANGED net
    BY DEF PoolStep, TakeJob, DecodeTrade, EndJob, Work, PoolEnds,
           Offer, OrderSent
  <2>4. WatcherStep => UNCHANGED net
    BY WatcherChanges
  <2>2. LoopStep => UNCHANGED net
    BY DEF LoopStep, ReceiveReady, DropPump, RequestDecode, PanicOnPump, ReceiveCreate,
           Vetted, ReceiveOrder, ReceiveTrade, Released, LoopGoes, ReceiveBlockMeta,
           ReceiveShutdown
  <2>3. Cancel \/ StopStep => UNCHANGED net
    BY DEF Cancel, StopStep, JoinWatcher, Abort, Aborted, Exit, StopGoes
  <2> QED
    BY <1>4, <2>1, <2>2, <2>3, <2>4 DEF Step
<1> QED
  BY <1>1, <1>2, <1>3, <1>4 DEF Next, Terminated, vars

\* client.rs:2-3: nothing is decoded, bought or routed before the wallet stream has
\* been subscribed.
THEOREM GoComesFirst == Spec => []NothingBeforeGo
<1>1. Init => ReadyAfterGo
  BY ChannelNames DEF Init, ReadyAfterGo, Quiet
<1>2. TypeOK /\ ReadyAfterGo /\ [Next]_vars => ReadyAfterGo'
  <2> SUFFICES ASSUME TypeOK, ReadyAfterGo, [Next]_vars, ~notified'
               PROVE  ~ready' /\ Quiet'
    BY DEF ReadyAfterGo
  <2>1. ~notified /\ ~ready /\ Quiet
    BY GoStays DEF ReadyAfterGo
  <2>2. CASE UNCHANGED vars
    BY <2>1, <2>2 DEF vars, decode, Quiet
  <2> QED
    BY <2>1, <2>2, QuietUntilReady DEF Next, Terminated
<1>3. TypeOK /\ ReadyAfterGo => NothingBeforeGo
  <2> SUFFICES ASSUME ReadyAfterGo, ~notified PROVE NothingBeforeGo
    BY DEF NothingBeforeGo
  <2>1. \A t \in Threads : thread[t] = "idle"
    BY DEF ReadyAfterGo, Quiet
  <2>2. \A c \in {"job", "create", "trade"} : ~(queue[c] > 0)
    BY DEF ReadyAfterGo, Quiet
  <2>3. pc = "select"
    BY DEF ReadyAfterGo, Quiet
  <2> QED
    BY <2>1, <2>2, <2>3, Zenon DEF NothingBeforeGo
<1> QED
  BY <1>1, <1>2, <1>3, TypeCorrect, PTL DEF Spec

(***************************************************************************)
(* The blockhash                                                           *)
(***************************************************************************)
\* The published hash is that of the newest block, or of an older one when the
\* hash of the newest did not parse.
HashIsKnown == hashSlot <= lastSlot

\* Only ReceiveBlockMeta writes the two slots.
LEMMA BlocksChange == [Next]_vars => UNCHANGED blocks \/ ReceiveBlockMeta
<1> SUFFICES ASSUME [Next]_vars PROVE UNCHANGED blocks \/ ReceiveBlockMeta
  OBVIOUS
<1>1. CASE UNCHANGED vars
  BY <1>1 DEF vars
<1>2. ASSUME NEW s \in Streams, StreamStep(s) PROVE UNCHANGED blocks
  BY <1>2 DEF StreamStep, AttemptFails, Subscribed, StreamEnds, Moves, vars
<1>3. ASSUME NEW c \in Carried, Deliver(c) \/ Forward(c) PROVE UNCHANGED blocks
  BY <1>3 DEF Deliver, Forward
<1>4. ASSUME NEW t \in Threads, PoolStep(t) PROVE UNCHANGED blocks
  BY <1>4 DEF PoolStep, TakeJob, DecodeTrade, EndJob, Work
<1>5. CASE PoolEnds \/ Offer \/ OrderSent \/ Cancel \/ StopStep
  BY <1>5 DEF PoolEnds, Offer, OrderSent, Cancel, StopStep, JoinWatcher,
     Abort, Aborted, Exit, StopGoes
<1>7. CASE WatcherStep
  BY <1>7, WatcherChanges
<1>6. ASSUME LoopStep PROVE UNCHANGED blocks \/ ReceiveBlockMeta
  BY <1>6 DEF LoopStep, ReceiveReady, DropPump, RequestDecode, PanicOnPump,
     ReceiveCreate, Vetted, ReceiveOrder, ReceiveTrade, Released, LoopGoes, ReceiveShutdown
<1> QED
  BY <1>1, <1>2, <1>3, <1>4, <1>5, <1>6, <1>7 DEF Next, Step, Terminated

\* main.rs:458: whatever the order of the blocks, the hash that is used for a
\* transaction never gives way to that of an older block.
THEOREM HashNeverGivesWay == Spec => HashNeverGoesBack
<1>1. TypeOK => lastSlot \in Nat /\ hashSlot \in Nat
  <2>1. TypeOK => lastSlot \in 0 .. MaxSlot /\ hashSlot \in 0 .. MaxSlot
    BY Zenon DEF TypeOK
  <2> QED
    BY <2>1, PipelineAssumption
<1>2. ASSUME TypeOK, HashIsKnown, ReceiveBlockMeta
      PROVE  HashIsKnown' /\ hashSlot' >= hashSlot
  BY <1>1, <1>2, PipelineAssumption DEF HashIsKnown, ReceiveBlockMeta, Newer, blocks
<1>3. ASSUME TypeOK, HashIsKnown, UNCHANGED blocks
      PROVE  HashIsKnown' /\ hashSlot' >= hashSlot
  BY <1>1, <1>3 DEF HashIsKnown, blocks
<1>4. TypeOK /\ HashIsKnown /\ [Next]_vars => HashIsKnown' /\ [hashSlot' >= hashSlot]_vars
  BY <1>2, <1>3, BlocksChange
<1>5. Init => HashIsKnown
  BY DEF Init, HashIsKnown
<1>6. Spec => []HashIsKnown
  BY <1>4, <1>5, TypeCorrect, PTL DEF Spec
<1> QED
  BY <1>4, <1>6, TypeCorrect, PTL DEF Spec, HashNeverGoesBack

(***************************************************************************)
(* The shutdown                                                            *)
(***************************************************************************)
\* How far fn main is says what has ended.
StopsInOrder ==
  /\ main # "run" <=> cancelled
  /\ main \in {"join loop", "exited"} <=> watcher = "ended"
  /\ main = "exited" => ~Running

\* What a step may do to the four variables of the shutdown.
LEMMA StopChanges ==
  [Next]_vars =>
    \/ UNCHANGED stop
    \/ loop' = "ended" /\ UNCHANGED <<cancelled, main, watcher>>
    \/ main # "exited" /\ (WatcherStep \/ Cancel \/ JoinWatcher \/ Abort \/ Exit)
<1> SUFFICES ASSUME [Next]_vars
             PROVE  \/ UNCHANGED stop
                    \/ loop' = "ended" /\ UNCHANGED <<cancelled, main, watcher>>
                    \/ main # "exited"
                         /\ (WatcherStep \/ Cancel \/ JoinWatcher \/ Abort \/ Exit)
  OBVIOUS
<1>1. CASE UNCHANGED vars
  BY <1>1 DEF vars
<1>2. ASSUME NEW s \in Streams, StreamStep(s) PROVE UNCHANGED stop
  BY <1>2 DEF StreamStep, AttemptFails, Subscribed, StreamEnds, Moves, vars
<1>3. ASSUME NEW c \in Carried, Deliver(c) \/ Forward(c) PROVE UNCHANGED stop
  BY <1>3 DEF Deliver, Forward
<1>4. ASSUME NEW t \in Threads, PoolStep(t) PROVE UNCHANGED stop
  BY <1>4 DEF PoolStep, TakeJob, DecodeTrade, EndJob, Work
<1>5. CASE PoolEnds \/ Offer \/ OrderSent
  BY <1>5 DEF PoolEnds, Offer, OrderSent
<1>6. ASSUME LoopStep
      PROVE  UNCHANGED stop \/ (loop' = "ended" /\ UNCHANGED <<cancelled, main, watcher>>)
  BY <1>6 DEF LoopStep, ReceiveReady, DropPump, RequestDecode, PanicOnPump,
     ReceiveCreate, Vetted, ReceiveOrder, ReceiveTrade, Released, LoopGoes,
     ReceiveBlockMeta, ReceiveShutdown, LoopEnds
<1>7. Aborted => loop' = "ended" /\ UNCHANGED <<cancelled, main, watcher>>
  BY DEF Aborted, LoopEnds
<1> QED
  BY <1>1, <1>2, <1>3, <1>4, <1>5, <1>6, <1>7 DEF Next, Step, StopStep, Terminated

LEMMA ShutdownInOrder == Spec => []StopsInOrder
<1>1. Init => StopsInOrder
  BY DEF Init, StopsInOrder
<1>2. StopsInOrder /\ [Next]_vars => StopsInOrder'
  <2> SUFFICES ASSUME StopsInOrder, [Next]_vars PROVE StopsInOrder'
    OBVIOUS
  <2>1. CASE UNCHANGED stop
    BY <2>1 DEF StopsInOrder, stop, Running
  <2>2. CASE loop' = "ended" /\ UNCHANGED <<cancelled, main, watcher>>
    BY <2>2 DEF StopsInOrder, Running
  <2>3. CASE main # "exited" /\ (WatcherStep \/ Cancel \/ JoinWatcher \/ Abort \/ Exit)
    <3>1. CASE Cancel
      BY <3>1 DEF StopsInOrder, Cancel
    <3>2. CASE WatcherStep
      <4>1. /\ watcher # "ended" /\ watcher' # "ended"
            /\ UNCHANGED <<cancelled, main, loop>>
        BY <3>2, WatcherChanges
      <4> QED
        BY <4>1 DEF StopsInOrder, Running
    <3>3. CASE JoinWatcher
      BY <3>3 DEF StopsInOrder, JoinWatcher
    <3>4. CASE Abort
      BY <3>4 DEF StopsInOrder, Abort
    <3>5. CASE Exit
      BY <3>5 DEF StopsInOrder, Exit, Running
    <3> QED
      BY <2>3, <3>1, <3>2, <3>3, <3>4, <3>5
  <2> QED
    BY <2>1, <2>2, <2>3, StopChanges
<1> QED
  BY <1>1, <1>2, PTL DEF Spec

\* main.rs:480-486: when fn main returns, the watcher and the main loop have been
\* joined and the decode pool has no sender left to wait for.
THEOREM ExitIsLast == Spec => []ExitAfterJoins
<1>1. StopsInOrder => ExitAfterJoins
  BY DEF StopsInOrder, ExitAfterJoins, Requesters
<1> QED
  BY <1>1, ShutdownInOrder, PTL

(***************************************************************************)
(* The stop.  Two facts are needed of the reachable states besides their   *)
(* types, which say that no channel holds more than its capacity: how far  *)
(* the shutdown is (StopsInOrder), and that nothing gets into a channel    *)
(* that its receiver has closed.                                           *)
(***************************************************************************)
Received == Channels \ {"job"}    \* by the main loop

ClosedStaysEmpty == ~Running => \A c \in Received : queue[c] = 0

LEMMA SentToNobody ==
  ASSUME ~Running, NEW c \in Channels
  PROVE  TrySend(c) = queue
  BY DEF TrySend, Room

LEMMA ClosedIsEmpty ==
  \A c \in Received : Closed[c] = 0
  BY DEF Closed, Received

\* The main loop is over: the steps that remain leave its channels alone.
LEMMA NothingIsReceived ==
  ASSUME TypeOK, ~Running, Step
  PROVE  \A c \in Received : queue'[c] = queue[c]
<1>0. {"create", "order", "trade", "job"} \subseteq Channels /\ Carried \subseteq Channels
  BY DEF Channels, Events
<1>1. ASSUME NEW s \in Streams, StreamStep(s) PROVE UNCHANGED queue
  BY <1>1 DEF StreamStep, AttemptFails, Subscribed, StreamEnds, Moves, vars
<1>2. ASSUME NEW c \in Carried, Deliver(c) \/ Forward(c) PROVE UNCHANGED queue
  BY <1>0, <1>2, SentToNobody DEF Deliver, Forward
<1>3. ASSUME NEW t \in Threads, PoolStep(t)
      PROVE  \A c \in Received : queue'[c] = queue[c]
  <2>1. CASE TakeJob(t)
    BY <2>1 DEF TakeJob, Taken, Received, TypeOK
  <2>2. CASE DecodeTrade(t) \/ EndJob(t)
    BY <1>0, <2>2, SentToNobody DEF DecodeTrade, EndJob
  <2> QED
    BY <1>3, <2>1, <2>2 DEF PoolStep
<1>4. CASE PoolEnds \/ Offer \/ OrderSent
  BY <1>0, <1>4, SentToNobody DEF PoolEnds, Offer, OrderSent
<1>5. ~LoopStep
  BY DEF LoopStep, ReceiveReady, DropPump, RequestDecode, PanicOnPump, ReceiveCreate,
     Vetted, ReceiveOrder, ReceiveTrade, Released, ReceiveBlockMeta, ReceiveShutdown,
     Selects
<1>6. ASSUME WatcherStep \/ Cancel \/ JoinWatcher \/ Abort \/ Exit PROVE UNCHANGED queue
  BY <1>6, WatcherChanges DEF Cancel, JoinWatcher, Abort, Exit
<1>7. CASE Aborted
  BY <1>7 DEF Aborted, Running
<1> QED
  BY <1>1, <1>2, <1>3, <1>4, <1>5, <1>6, <1>7 DEF Step, StopStep

LEMMA ClosedStep == TypeOK /\ ClosedStaysEmpty /\ [Next]_vars => ClosedStaysEmpty'
<1> SUFFICES ASSUME TypeOK, ClosedStaysEmpty, [Next]_vars, ~Running'
             PROVE  \A c \in Received : queue'[c] = 0
  BY DEF ClosedStaysEmpty
<1>1. CASE UNCHANGED vars
  BY <1>1 DEF vars, stop, ClosedStaysEmpty, Running
<1>2. CASE Step /\ ~Running
  BY <1>2, NothingIsReceived DEF ClosedStaysEmpty
<1>3. CASE Step /\ Running
  <2>1. ~UNCHANGED loop
    BY <1>3 DEF Running
  <2>2. PanicOnPump \/ ReceiveShutdown \/ Aborted
    <3>1. ASSUME LoopStep PROVE PanicOnPump \/ ReceiveShutdown
      BY <2>1, <3>1 DEF LoopStep, ReceiveReady, DropPump, RequestDecode, ReceiveCreate,
         Vetted, ReceiveOrder, ReceiveTrade, Released, LoopGoes, ReceiveBlockMeta, stop
    <3>2. ~(WatcherStep \/ JoinWatcher \/ Exit \/ Cancel)
      BY <2>1, WatcherChanges DEF JoinWatcher, Exit, Cancel
    <3>3. ~Abort
      BY <1>3 DEF Abort, Running
    <3>4. ASSUME NEW s \in Streams PROVE ~StreamStep(s)
      BY <2>1 DEF StreamStep, AttemptFails, Subscribed, StreamEnds, Moves, vars, stop
    <3>5. ASSUME NEW c \in Carried PROVE ~(Deliver(c) \/ Forward(c))
      BY <2>1 DEF Deliver, Forward, stop
    <3>6. ASSUME NEW t \in Threads PROVE ~PoolStep(t)
      BY <2>1 DEF PoolStep, TakeJob, DecodeTrade, EndJob, Work, stop
    <3>7. ~(PoolEnds \/ Offer \/ OrderSent)
      BY <2>1 DEF PoolEnds, Offer, OrderSent, stop
    <3> QED
      BY <1>3, <3>1, <3>2, <3>3, <3>4, <3>5, <3>6, <3>7 DEF Step, StopStep
  <2>3. queue' = Closed
    BY <2>2 DEF PanicOnPump, ReceiveShutdown, Aborted, LoopEnds
  <2> QED
    BY <2>3, ClosedIsEmpty
<1> QED
  BY <1>1, <1>2, <1>3 DEF Next, Terminated

\* What stops while a worker waits for room: only the loop could make it, so the loop
\* is behind the worker.
LEMMA OfferingStops ==
  ASSUME TypeOK, Stopped, offering
  PROVE  Parked /\ Running
<1>1. Running /\ ~Room("order")
  BY DEF Stopped, OrderCanMove
<1>2. queue["order"] = Cap["order"]
  <2>1. "order" \in Channels
    BY DEF Channels, Events
  <2>2. queue["order"] \in Nat /\ queue["order"] <= Cap["order"] /\ Cap["order"] \in Nat \ {0}
    BY <2>1, PipelineAssumption DEF TypeOK
  <2> QED
    BY <1>1, <2>2 DEF Room
<1>3. pc # "select"
  <2> SUFFICES ASSUME pc = "select" PROVE FALSE
    OBVIOUS
  <2>1. HasEvent("order")
    <3>1. Cap["order"] > 0
      BY PipelineAssumption DEF Channels, Events
    <3> QED
      BY <1>2, <3>1 DEF HasEvent
  <2>2. 4 \in DOMAIN Branches /\ Branches[4] = "order"
    BY DEF Branches
  <2> QED
    BY <1>1, <2>1, <2>2 DEF Stopped, LoopCanMove
<1>4. pc \in {"locked", "full"}
  BY <1>1, <1>3 DEF TypeOK, Stopped, LoopCanMove
<1> QED
  BY <1>1, <1>2, <1>4 DEF Parked

\* A parked watcher is behind a guard of the loop, which then waits for the worker, or
\* behind that of the worker: when everything has stopped, the worker waits.
LEMMA ParkedBehindWorker ==
  ASSUME TypeOK, Stopped, WatcherParked
  PROVE  offering
<1>1. ASSUME watcher = "behind created" PROVE offering
  <2>1. Running /\ pc \in {"route", "full"}
    BY <1>1 DEF Stopped, WatcherCanMove, CreatedLocked
  <2> QED
    BY <2>1 DEF Stopped, LoopCanMove
<1>2. ASSUME watcher = "behind metas" PROVE offering
  BY <1>2 DEF Stopped, WatcherCanMove
<1> QED
  BY <1>1, <1>2 DEF WatcherParked

\* What stops while no worker waits has nothing left to do.
LEMMA OtherwiseAtRest ==
  ASSUME TypeOK, ClosedStaysEmpty, Stopped, ~offering
  PROVE  AtRest
<1>0. queue \in [Channels -> Nat] /\ Cap \in [Channels -> Nat \ {0}]
  BY PipelineAssumption DEF TypeOK
<1>1. Running => pc = "select"
  BY DEF TypeOK, Stopped, LoopCanMove
<1>2. queue["job"] = 0 /\ \A t \in Threads : thread[t] = "idle"
  <2>1. ~(queue["job"] > 0) /\ \A t \in Threads : thread[t] = "idle"
    BY DEF Stopped, PoolCanMove
  <2> QED
    BY <1>0, <2>1 DEF Channels
<1>3. ASSUME NEW c \in Received PROVE queue[c] = 0
  <2>1. CASE Running
    <3>1. \A i \in DOMAIN Branches : ~HasEvent(Branches[i])
      BY <1>1, <2>1 DEF Stopped, LoopCanMove
    <3>2. PICK i \in DOMAIN Branches : Branches[i] = c /\ c \notin {"ready", "shutdown"}
      <4>1. DOMAIN Branches = 1 .. 7
        BY DEF Branches
      <4>2. \/ c = Branches[2] \/ c = Branches[3] \/ c = Branches[4] \/ c = Branches[5]
            \/ c = Branches[6]
        BY DEF Received, Channels, Carried, Events, Branches
      <4> QED
        BY <4>1, <4>2 DEF Received, Channels, Carried, Events
    <3>3. ~(queue[c] > 0)
      BY <3>1, <3>2 DEF HasEvent
    <3> QED
      BY <1>0, <3>3 DEF Received
  <2>2. CASE ~Running
    BY <2>2 DEF ClosedStaysEmpty
  <2> QED
    BY <2>1, <2>2
<1>4. ASSUME NEW c \in Carried PROVE inflight[c] = 0
  <2>1. c \in Received /\ c \in Channels
    BY DEF Received, Channels, Carried
  <2>2. Room(c) \/ ~Running
    <3>1. queue[c] = 0 /\ Cap[c] \in Nat \ {0}
      BY <1>0, <1>3, <2>1
    <3> QED
      BY <3>1 DEF Room
  <2>3. ~(inflight[c] > 0)
    BY <2>2 DEF Stopped, ForwardCanMove
  <2>4. inflight[c] \in 0 .. Concurrency
    BY Zenon DEF TypeOK
  <2> QED
    BY <2>3, <2>4, PipelineAssumption
<1> QED
  BY <1>1, <1>2, <1>3, <1>4, ParkedBehindWorker DEF AtRest, Received

\* main.rs:198-486: however the channels fill up and whatever has ended, the streams,
\* the pool, the loop, the watcher and the shutdown wait for each other in one way only,
\* the loop that waits for a worker which waits for the loop.  fn main is then held up
\* by the loop's wait for a lock, or by the watcher behind a buy task behind the two.
THEOREM OnlyTheLoopParks == Spec => []StopsOnlyParked
<1>1. TypeOK /\ StopsInOrder /\ ClosedStaysEmpty => StopsOnlyParked
  <2> SUFFICES ASSUME TypeOK, StopsInOrder, ClosedStaysEmpty, Stopped, main # "exited"
               PROVE  IF main = "run" THEN AtRest \/ Parked ELSE JoinHangs
    BY DEF StopsOnlyParked
  <2>0. ~StopCanMove
    BY DEF Stopped
  <2>1. CASE main = "run"
    BY <2>1, OfferingStops, OtherwiseAtRest
  <2>2. CASE main = "join watcher"
    <3>1. WatcherParked
      BY <2>0, <2>2 DEF StopCanMove, StopsInOrder, TypeOK, WatcherParked
    <3> QED
      BY <2>2, <3>1, OfferingStops, ParkedBehindWorker DEF JoinHangs
  <2>3. CASE main = "join loop"
    <3>1. loop = "aborting" /\ pc = "locked"
      BY <2>0, <2>3 DEF StopCanMove
    <3>2. offering
      BY <3>1 DEF Stopped, LoopCanMove, Running
    <3> QED
      BY <2>3, <3>1, <3>2, OfferingStops DEF JoinHangs
  <2> QED
    BY <2>1, <2>2, <2>3 DEF TypeOK
<1>2. Init => ClosedStaysEmpty
  BY DEF Init, ClosedStaysEmpty, Running
<1> QED
  BY <1>1, <1>2, ClosedStep, TypeCorrect, ShutdownInOrder, PTL DEF Spec
=============================================================================
