------------------------- MODULE TokenManagerProofs -------------------------
(***************************************************************************)
(* Proofs about TokenManager for every number of mints, tasks, caps,       *)
(* quantities and channel lengths, and every assignment of keys to shards. *)
(***************************************************************************)
EXTENDS TokenManager, FiniteSetTheorems, WellFoundedInduction, TLAPS

(***************************************************************************)
(* Types.  TypeOK alone is not inductive: a task that runs must have its   *)
(* mint, and the main loop the trade and the Sender it is busy with.  One  *)
(* predicate for each variable, so that a step proves what it touches.     *)
(***************************************************************************)
MapsOK ==
  /\ created \in [Mints -> MapState]
  /\ metas \in [Mints -> Nat \cup {None}]
  /\ workers \in [Mints -> Wids \cup {None}]
WorkersOK ==
  /\ worker \in [Wids -> WorkerTask]
  /\ \A w \in Wids : worker[w].pc # "unborn" => worker[w].mint \in Mints
QueueOK == sellQ \in Seq(Order)
MainOK ==
  /\ main \in MainTask
  /\ main.pc # "select" => main.mint \in Mints
  /\ main.pc \in {"insert", "send", "evict"} => main.cap \in Caps
  /\ main.pc \in {"send", "evict"} => main.tx \in Wids
BuyersOK ==
  /\ buyer \in [Buys -> BuyerTask]
  /\ \A b \in Buys : buyer[b].pc # "unborn" => buyer[b].mint \in Mints
SellersOK ==
  /\ seller \in [Wids -> SellerTask]
  /\ \A w \in Wids : seller[w].pc # "none" => seller[w].mint \in Mints
BoundsOK == routed \in Nat /\ seen \in [Mints -> Nat]

Typed ==
  MapsOK /\ WorkersOK /\ QueueOK /\ MainOK /\ BuyersOK /\ SellersOK /\ BoundsOK

\* A predicate on one variable survives the steps that leave it alone.
LEMMA Frame ==
  /\ Typed /\ UNCHANGED <<created, metas, workers>> => MapsOK'
  /\ Typed /\ UNCHANGED worker => WorkersOK'
  /\ Typed /\ UNCHANGED sellQ => QueueOK'
  /\ Typed /\ UNCHANGED main => MainOK'
  /\ Typed /\ UNCHANGED buyer => BuyersOK'
  /\ Typed /\ UNCHANGED seller => SellersOK'
  /\ Typed /\ UNCHANGED <<routed, seen>> => BoundsOK'
  BY DEF Typed, MapsOK, WorkersOK, QueueOK, MainOK, BuyersOK, SellersOK, BoundsOK

\* Replacing one worker task by a well-formed one keeps them all well-formed.
LEMMA PutWorker ==
  ASSUME WorkersOK, NEW w \in Wids, NEW t \in WorkerTask,
         t.pc # "unborn" => t.mint \in Mints,
         worker' = [worker EXCEPT ![w] = t]
  PROVE  WorkersOK'
  BY DEF WorkersOK

\* The same for a buy task and for a sell task.
LEMMA PutBuyer ==
  ASSUME BuyersOK, NEW b \in Buys, NEW t \in BuyerTask,
         t.pc # "unborn" => t.mint \in Mints,
         buyer' = [buyer EXCEPT ![b] = t]
  PROVE  BuyersOK'
  BY DEF BuyersOK

LEMMA PutSeller ==
  ASSUME SellersOK, NEW w \in Wids, NEW t \in SellerTask,
         t.pc # "none" => t.mint \in Mints,
         seller' = [seller EXCEPT ![w] = t]
  PROVE  SellersOK'
  BY DEF SellersOK

\* A worker that leaves its loop is well-formed, with or without an order.
LEMMA LeaveTyped ==
  ASSUME Typed, NEW w \in Wids, worker[w].pc = "select",
         NEW q \in Seq(Caps), NEW why \in {"broke", "idle"},
         LeaveToSell(w, q, why)
  PROVE  WorkersOK'
<1> DEFINE m == worker[w].mint
           holds == metas[m] # None /\ metas[m] # 0
           t == [worker[w] EXCEPT !.pc = IF holds THEN "offer" ELSE why,
                                  !.queue = q,
                                  !.amount = IF holds THEN metas[m] ELSE @]
<1>1. m \in Mints /\ worker[w] \in WorkerTask
  BY DEF Typed, WorkersOK
<1>2. metas[m] \in Nat \cup {None}
  BY <1>1 DEF Typed, MapsOK
<1>3. t \in WorkerTask /\ t.pc # "unborn" /\ t.mint = m
  BY <1>1, <1>2 DEF WorkerTask, WorkerPc
<1>4. worker' = [worker EXCEPT ![w] = t]
  BY DEF LeaveToSell
<1> QED
  BY <1>1, <1>3, <1>4, PutWorker DEF Typed

\* A new worker is well-formed; the registry names it.
LEMMA SpawnTyped ==
  ASSUME Typed, NEW m \in Mints, NEW w \in Wids, SpawnWorker(m, w),
         UNCHANGED <<created, metas>>
  PROVE  WorkersOK' /\ MapsOK'
<1> DEFINE t == [pc |-> "select", mint |-> m, queue |-> <<>>,
                 entry |-> None, amount |-> 0]
<1>1. t \in WorkerTask
  BY DEF WorkerTask, WorkerPc
<1>2. WorkersOK'
  BY <1>1, PutWorker DEF SpawnWorker, Typed
<1>3. MapsOK'
  BY DEF SpawnWorker, Typed, MapsOK
<1> QED
  BY <1>2, <1>3

LEMMA InitTyped == Init => Typed
<1> SUFFICES ASSUME Init PROVE Typed
  OBVIOUS
<1>1. MapsOK
  BY DEF Init, MapsOK, MapState
<1>2. WorkersOK
  BY DEF Init, WorkersOK, WorkerTask, WorkerPc
<1>3. QueueOK /\ BoundsOK
  BY DEF Init, QueueOK, BoundsOK
<1>4. MainOK
  BY DEF Init, MainOK, MainTask, MainPc, Idle
<1>5. BuyersOK
  BY DEF Init, BuyersOK, BuyerTask, BuyerPc
<1>6. SellersOK
  BY DEF Init, SellersOK, SellerTask, SellerPc
<1> QED
  BY <1>1, <1>2, <1>3, <1>4, <1>5, <1>6 DEF Typed

LEMMA MainTyped == Typed /\ MainStep => Typed'
<1> SUFFICES ASSUME Typed, MainStep PROVE Typed'
  OBVIOUS
<1> USE ManagerAssumption
<1>1. ASSUME NEW m \in Mints, TakeCreate(m) PROVE Typed'
  <2>1. MainOK'
    BY <1>1 DEF TakeCreate, Typed, MainOK, MainTask, MainPc
  <2>2. BoundsOK'
    BY <1>1 DEF TakeCreate, Typed, BoundsOK
  <2> QED
    BY <1>1, <2>1, <2>2, Frame DEF TakeCreate, Typed
<1>2. ASSUME VetCreate PROVE Typed'
  <2>1. MainOK'
    BY <1>2 DEF VetCreate, Idle, Typed, MainOK, MainTask, MainPc
  <2> QED
    BY <1>2, <2>1, Frame DEF VetCreate, Typed
<1>3. ASSUME RegisterMeta PROVE Typed'
  <2>1. MainOK'
    BY <1>3 DEF RegisterMeta, Typed, MainOK, MainTask, MainPc
  <2>2. MapsOK'
    BY <1>3 DEF RegisterMeta, Typed, MapsOK
  <2> QED
    BY <1>3, <2>1, <2>2, Frame DEF RegisterMeta, Typed
<1>4. ASSUME SpawnBuy PROVE Typed'
  <2>1. MainOK'
    BY <1>4 DEF SpawnBuy, Idle, Typed, MainOK, MainTask, MainPc
  <2>2. MapsOK'
    BY <1>4 DEF SpawnBuy, Typed, MapsOK, MapState
  <2>3. BuyersOK'
    <3>1. PICK b \in Buys :
            buyer' = [buyer EXCEPT ![b].pc = "wait", ![b].mint = main.mint]
      BY <1>4 DEF SpawnBuy
    <3> DEFINE t == [buyer[b] EXCEPT !.pc = "wait", !.mint = main.mint]
    <3>2. buyer[b] \in BuyerTask /\ main.mint \in Mints
      BY <1>4 DEF SpawnBuy, Typed, MainOK, BuyersOK
    <3>3. t \in BuyerTask /\ t.mint \in Mints
      BY <3>2 DEF BuyerTask, BuyerPc
    <3>4. buyer' = [buyer EXCEPT ![b] = t]
      BY <3>1
    <3> QED
      BY <3>3, <3>4, PutBuyer DEF Typed
  <2> QED
    BY <1>4, <2>1, <2>2, <2>3, Frame DEF SpawnBuy, Typed
<1>5. ASSUME NEW m \in Mints, NEW cap \in Caps, TakeTrade(m, cap) PROVE Typed'
  <2>1. MainOK'
    BY <1>5 DEF TakeTrade, Typed, MainOK, MapsOK, MainTask, MainPc
  <2>2. BoundsOK'
    BY <1>5 DEF TakeTrade, Typed, BoundsOK
  <2> QED
    BY <1>5, <2>1, <2>2, Frame DEF TakeTrade, Typed
<1>6. ASSUME RouteInsert PROVE Typed'
  <2>1. PICK w \in Wids : /\ SpawnWorker(main.mint, w)
                          /\ main' = [main EXCEPT !.pc = "send", !.tx = w]
    BY <1>6 DEF RouteInsert
  <2>2. MainOK'
    BY <1>6, <2>1 DEF RouteInsert, Typed, MainOK, MainTask, MainPc
  <2>3. main.mint \in Mints
    BY <1>6 DEF RouteInsert, Typed, MainOK
  <2>4. WorkersOK' /\ MapsOK'
    BY <1>6, <2>1, <2>3, SpawnTyped DEF RouteInsert
  <2> QED
    BY <1>6, <2>2, <2>4, Frame DEF RouteInsert, Typed
<1>7. ASSUME RouteSend PROVE Typed'
  <2>1. MainOK'
    BY <1>7 DEF RouteSend, Idle, Typed, MainOK, MainTask, MainPc
  <2>2. main.tx \in Wids /\ main.cap \in Caps
    BY <1>7 DEF RouteSend, Typed, MainOK
  <2>3. worker[main.tx] \in WorkerTask /\ worker[main.tx].mint \in Mints
    BY <1>7, <2>2 DEF RouteSend, Alive, Typed, WorkersOK
  <2> DEFINE t == [worker[main.tx] EXCEPT !.queue = Append(@, main.cap)]
  <2>4. t \in WorkerTask /\ t.mint \in Mints
    <3>1. Append(worker[main.tx].queue, main.cap) \in Seq(Caps)
      BY <2>2, <2>3 DEF WorkerTask
    <3> QED
      BY <2>3, <3>1 DEF WorkerTask
  <2>5. WorkersOK'
    <3>1. worker' = [worker EXCEPT ![main.tx] = t]
      BY <1>7 DEF RouteSend
    <3> QED
      BY <2>2, <2>4, <3>1, PutWorker DEF Typed
  <2> QED
    BY <1>7, <2>1, <2>5, Frame DEF RouteSend, Typed
<1>8. ASSUME RouteSendError PROVE Typed'
  <2>1. MainOK'
    BY <1>8 DEF RouteSendError, Typed, MainOK, MainTask, MainPc
  <2> QED
    BY <1>8, <2>1, Frame DEF RouteSendError, Typed
<1>9. ASSUME RouteEvict PROVE Typed'
  <2>1. MainOK'
    BY <1>9 DEF RouteEvict, Idle, Typed, MainOK, MainTask, MainPc
  <2>2. MapsOK'
    BY <1>9 DEF RouteEvict, Typed, MapsOK
  <2> QED
    BY <1>9, <2>1, <2>2, Frame DEF RouteEvict, Typed
<1>10. ASSUME TakeOrder PROVE Typed'
  <2>1. Head(sellQ) \in Order /\ Tail(sellQ) \in Seq(Order)
    BY <1>10 DEF TakeOrder, Typed, QueueOK
  <2>2. QueueOK'
    BY <1>10, <2>1 DEF TakeOrder, QueueOK
  <2> DEFINE o == Head(sellQ)
             t == [pc |-> "trying", mint |-> o.mint, amount |-> o.amount]
  <2>3. o.from \in Wids /\ t \in SellerTask /\ t.mint \in Mints
    BY <2>1 DEF Order, SellerTask, SellerPc
  <2>4. seller' = [seller EXCEPT ![o.from] = t]
    BY <1>10 DEF TakeOrder
  <2>5. SellersOK'
    BY <2>3, <2>4, PutSeller DEF Typed
  <2> QED
    BY <1>10, <2>2, <2>5, Frame DEF TakeOrder, Typed
<1> QED
  BY <1>1, <1>2, <1>3, <1>4, <1>5, <1>6, <1>7, <1>8, <1>9, <1>10 DEF MainStep

LEMMA WorkerTyped == \A w \in Wids : Typed /\ WorkerStep(w) => Typed'
<1> SUFFICES ASSUME NEW w \in Wids, Typed, WorkerStep(w) PROVE Typed'
  OBVIOUS
<1>0. worker[w] \in WorkerTask
  BY DEF Typed, WorkersOK
<1>1. ASSUME WorkerTrade(w) PROVE Typed'
  <2> DEFINE mc == Head(worker[w].queue)
             rest == Tail(worker[w].queue)
  <2>1. mc \in Caps /\ rest \in Seq(Caps)
    BY <1>0, <1>1 DEF WorkerTrade, WorkerTask
  <2>2. worker[w].pc = "select" /\ worker[w].mint \in Mints
    BY <1>1 DEF WorkerTrade, Typed, WorkersOK
  <2>3. ASSUME worker' = [worker EXCEPT ![w].entry = mc, ![w].queue = rest]
        PROVE  WorkersOK'
    <3> DEFINE t == [worker[w] EXCEPT !.entry = mc, !.queue = rest]
    <3>1. t \in WorkerTask /\ t.mint \in Mints
      BY <1>0, <2>1, <2>2 DEF WorkerTask
    <3>2. worker' = [worker EXCEPT ![w] = t]
      BY <2>3
    <3> QED
      BY <3>1, <3>2, PutWorker DEF Typed
  <2>4. ASSUME worker' = [worker EXCEPT ![w].queue = rest] PROVE WorkersOK'
    <3> DEFINE t == [worker[w] EXCEPT !.queue = rest]
    <3>1. t \in WorkerTask /\ t.mint \in Mints
      BY <1>0, <2>1, <2>2 DEF WorkerTask
    <3>2. worker' = [worker EXCEPT ![w] = t]
      BY <2>4
    <3> QED
      BY <3>1, <3>2, PutWorker DEF Typed
  <2>5. ASSUME LeaveToSell(w, rest, "broke") PROVE WorkersOK'
    BY <2>1, <2>2, <2>5, LeaveTyped
  <2>6. WorkersOK'
    BY <1>1, <2>3, <2>4, <2>5 DEF WorkerTrade
  <2> QED
    BY <1>1, <2>6, Frame DEF WorkerTrade, Typed
<1>2. ASSUME WorkerInactive(w) PROVE Typed'
  <2>1. worker[w].queue \in Seq(Caps)
    BY <1>0 DEF WorkerTask
  <2>2. WorkersOK'
    BY <1>2, <2>1, LeaveTyped DEF WorkerInactive
  <2> QED
    BY <1>2, <2>2, Frame DEF WorkerInactive, Typed
<1>3. ASSUME WorkerClosed(w) PROVE Typed'
  <2>1. WorkersOK'
    BY <1>3 DEF WorkerClosed, Typed, WorkersOK, WorkerTask, WorkerPc
  <2> QED
    BY <1>3, <2>1, Frame DEF WorkerClosed, Typed
<1>4. ASSUME WorkerOffer(w) PROVE Typed'
  <2>1. worker[w].mint \in Mints
    BY <1>4 DEF WorkerOffer, Typed, WorkersOK
  <2>2. WorkersOK'
    BY <1>4 DEF WorkerOffer, Typed, WorkersOK, WorkerTask, WorkerPc
  <2>3. [mint |-> worker[w].mint, amount |-> worker[w].amount, from |-> w] \in Order
    BY <1>0, <2>1 DEF WorkerTask, Order
  <2>4. QueueOK'
    BY <1>4, <2>3 DEF WorkerOffer, Typed, QueueOK
  <2> QED
    BY <1>4, <2>2, <2>4, Frame DEF WorkerOffer, Typed
<1> QED
  BY <1>1, <1>2, <1>3, <1>4 DEF WorkerStep

LEMMA BuyTyped == \A b \in Buys : Typed /\ (BuyAnswer(b) \/ BuyTail(b)) => Typed'
<1> SUFFICES ASSUME NEW b \in Buys, Typed, BuyAnswer(b) \/ BuyTail(b) PROVE Typed'
  OBVIOUS
<1> USE ManagerAssumption
<1>0. buyer[b] \in BuyerTask
  BY DEF Typed, BuyersOK
<1>1. ASSUME NEW q \in Qtys, BuyConfirmed(b, q) PROVE Typed'
  <2> DEFINE t == [buyer[b] EXCEPT !.pc = "mark", !.qty = q]
  <2>1. t \in BuyerTask /\ t.mint \in Mints
    BY <1>0, <1>1 DEF BuyConfirmed, Typed, BuyersOK, BuyerTask, BuyerPc
  <2>2. buyer' = [buyer EXCEPT ![b] = t]
    BY <1>1 DEF BuyConfirmed
  <2>3. BuyersOK'
    BY <2>1, <2>2, PutBuyer DEF Typed
  <2> QED
    BY <1>1, <2>3, Frame DEF BuyConfirmed, Typed
<1>2. ASSUME BuyConfirmedBlind(b) PROVE Typed'
  <2>1. BuyersOK'
    BY <1>2 DEF BuyConfirmedBlind, Typed, BuyersOK, BuyerTask, BuyerPc
  <2> QED
    BY <1>2, <2>1, Frame DEF BuyConfirmedBlind, Typed
<1>3. ASSUME BuyAbandoned(b) PROVE Typed'
  <2>1. BuyersOK'
    BY <1>3 DEF BuyAbandoned, Typed, BuyersOK, BuyerTask, BuyerPc
  <2> QED
    BY <1>3, <2>1, Frame DEF BuyAbandoned, Typed
<1>4. ASSUME BuyMark(b) PROVE Typed'
  <2>1. BuyersOK'
    BY <1>4 DEF BuyMark, Typed, BuyersOK, BuyerTask, BuyerPc
  <2>2. MapsOK'
    BY <1>4 DEF BuyMark, Typed, MapsOK, MapState
  <2> QED
    BY <1>4, <2>1, <2>2, Frame DEF BuyMark, Typed
<1>5. ASSUME UpdateBalance(b) PROVE Typed'
  <2>1. BuyersOK'
    BY <1>5 DEF UpdateBalance, Typed, BuyersOK, BuyerTask, BuyerPc
  <2>2. buyer[b].qty \in Nat
    BY <1>0 DEF BuyerTask
  <2>3. MapsOK'
    BY <1>5, <2>2 DEF UpdateBalance, Typed, MapsOK
  <2> QED
    BY <1>5, <2>1, <2>3, Frame DEF UpdateBalance, Typed
<1>6. ASSUME BuyEnsure(b) PROVE Typed'
  <2>1. BuyersOK'
    BY <1>6 DEF BuyEnsure, Typed, BuyersOK, BuyerTask, BuyerPc
  <2> QED
    BY <1>6, <2>1, Frame DEF BuyEnsure, Typed
<1>7. ASSUME BuyInsert(b) PROVE Typed'
  <2>1. BuyersOK'
    BY <1>7 DEF BuyInsert, Typed, BuyersOK, BuyerTask, BuyerPc
  <2>2. buyer[b].mint \in Mints
    BY <1>7 DEF BuyInsert, Typed, BuyersOK
  <2>3. WorkersOK' /\ MapsOK'
    BY <1>7, <2>2, SpawnTyped DEF BuyInsert
  <2> QED
    BY <1>7, <2>1, <2>3, Frame DEF BuyInsert, Typed
<1> QED
  BY <1>1, <1>2, <1>3, <1>4, <1>5, <1>6, <1>7 DEF BuyAnswer, BuyTail

LEMMA SellTyped == \A w \in Wids : Typed /\ SellStep(w) => Typed'
<1> SUFFICES ASSUME NEW w \in Wids, Typed, SellStep(w) PROVE Typed'
  OBVIOUS
<1>1. SellersOK'
  BY DEF SellStep, SellTail, SellConfirmed, DeductBalance, ForgetWorker, DropMeta,
     PurgeCreated, Typed, SellersOK, SellerTask, SellerPc
<1>2. ASSUME SellConfirmed(w) PROVE Typed'
  BY <1>1, <1>2, Frame DEF SellConfirmed, Typed
<1>3. ASSUME DeductBalance(w) PROVE Typed'
  <2>1. MapsOK'
    BY <1>3 DEF DeductBalance, Typed, MapsOK
  <2> QED
    BY <1>1, <1>3, <2>1, Frame DEF DeductBalance, Typed
<1>4. ASSUME ForgetWorker(w) PROVE Typed'
  <2>1. MapsOK'
    BY <1>4 DEF ForgetWorker, Typed, MapsOK
  <2> QED
    BY <1>1, <1>4, <2>1, Frame DEF ForgetWorker, Typed
<1>5. ASSUME DropMeta(w) PROVE Typed'
  <2>1. MapsOK'
    BY <1>5 DEF DropMeta, Typed, MapsOK
  <2> QED
    BY <1>1, <1>5, <2>1, Frame DEF DropMeta, Typed
<1>6. ASSUME PurgeCreated(w) PROVE Typed'
  <2>1. MapsOK'
    BY <1>6 DEF PurgeCreated, Typed, MapsOK, MapState
  <2> QED
    BY <1>1, <1>6, <2>1, Frame DEF PurgeCreated, Typed
<1> QED
  BY <1>2, <1>3, <1>4, <1>5, <1>6 DEF SellStep, SellTail

LEMMA StepTyped == Typed /\ [Next]_vars => Typed'
<1> SUFFICES ASSUME Typed, [Next]_vars PROVE Typed'
  OBVIOUS
<1>1. CASE UNCHANGED vars
  BY <1>1, Frame DEF vars, Typed
<1>2. CASE Next
  BY <1>1, <1>2, MainTyped, WorkerTyped, BuyTyped, SellTyped DEF Next, Quiescent
<1> QED
  BY <1>1, <1>2

LEMMA TypedInvariant == Spec => []Typed
  BY InitTyped, StepTyped, PTL DEF Spec

\* Every reachable state of the manager, of its tasks and of its channels is
\* well-typed: no balance, order or Sender is ever made up from a missing entry.
THEOREM TypeCorrect == Spec => []TypeOK
<1>1. Typed => TypeOK
  BY DEF Typed, TypeOK, MapsOK, WorkersOK, QueueOK, MainOK, BuyersOK, SellersOK,
     BoundsOK
<1> QED
  BY <1>1, TypedInvariant, PTL

-----------------------------------------------------------------------------
(***************************************************************************)
(* The position a worker offers.  Typed /\ OfferIsCurrent is inductive: a  *)
(* step that writes metas waits for the guard of every offering worker.    *)
(***************************************************************************)
\* Whoever writes the meta of m knows that no worker of m is offering it.
LEMMA FreeMeansNoOffer ==
  ASSUME NEW m \in Mints, MetaFree(m), NEW w \in Wids, worker[w].pc = "offer"
  PROVE  worker[w].mint # m
  BY DEF MetaFree

\* Steps that move no worker and keep the metas that are being offered.
LEMMA OfferKept ==
  ASSUME Typed, OfferIsCurrent, UNCHANGED worker,
         NEW m \in Mints, MetaFree(m), NEW v \in Nat \cup {None},
         metas' = [metas EXCEPT ![m] = v]
  PROVE  OfferIsCurrent'
<1> SUFFICES ASSUME NEW w \in Wids, worker[w].pc = "offer"
             PROVE  metas'[worker[w].mint] = worker[w].amount
  BY DEF OfferIsCurrent
<1>1. worker[w].mint \in Mints /\ worker[w].mint # m
  BY FreeMeansNoOffer DEF Typed, WorkersOK
<1>2. metas'[worker[w].mint] = metas[worker[w].mint]
  BY <1>1 DEF Typed, MapsOK
<1> QED
  BY <1>2 DEF OfferIsCurrent

\* Steps that move one worker, to an offer of what metas says or to no offer.
LEMMA OfferMoved ==
  ASSUME Typed, OfferIsCurrent, UNCHANGED metas, NEW w \in Wids,
         \A v \in Wids \ {w} : worker'[v] = worker[v],
         worker'[w].pc = "offer" => metas[worker'[w].mint] = worker'[w].amount
  PROVE  OfferIsCurrent'
  BY DEF OfferIsCurrent

LEMMA OfferLeaves ==
  ASSUME Typed, OfferIsCurrent, UNCHANGED metas, NEW w \in Wids, NEW q,
         NEW why \in {"broke", "idle"}, LeaveToSell(w, q, why)
  PROVE  OfferIsCurrent'
<1> DEFINE m == worker[w].mint
           holds == metas[m] # None /\ metas[m] # 0
           t == [worker[w] EXCEPT !.pc = IF holds THEN "offer" ELSE why,
                                  !.queue = q,
                                  !.amount = IF holds THEN metas[m] ELSE @]
<1>1. worker' = [worker EXCEPT ![w] = t] /\ worker[w] \in WorkerTask
  BY DEF LeaveToSell, Typed, WorkersOK
<1>2. worker'[w] = t /\ \A v \in Wids \ {w} : worker'[v] = worker[v]
  BY <1>1 DEF Typed, WorkersOK
<1>3. t.mint = m /\ (t.pc = "offer" => t.amount = metas[m])
  BY <1>1 DEF WorkerTask
<1>4. worker'[w].pc = "offer" => metas[worker'[w].mint] = worker'[w].amount
  BY <1>2, <1>3
<1> HIDE DEF m, holds, t
<1>5. \A v \in Wids \ {w} : worker'[v] = worker[v]
  BY <1>2
<1> QED
  BY <1>4, <1>5, OfferMoved

LEMMA OfferStep == Typed /\ OfferIsCurrent /\ [Next]_vars => OfferIsCurrent'
<1> SUFFICES ASSUME Typed, OfferIsCurrent, [Next]_vars PROVE OfferIsCurrent'
  OBVIOUS
<1> USE ManagerAssumption
<1>1. ASSUME UNCHANGED <<metas, worker>> PROVE OfferIsCurrent'
  BY <1>1 DEF OfferIsCurrent
<1>2. ASSUME RegisterMeta PROVE OfferIsCurrent'
  BY <1>2, OfferKept DEF RegisterMeta, Typed, MainOK
<1>3. ASSUME NEW m \in Mints, NEW w \in Wids, SpawnWorker(m, w), UNCHANGED metas
      PROVE  OfferIsCurrent'
  BY <1>3, OfferMoved DEF SpawnWorker, Typed, WorkersOK
<1>4. ASSUME RouteInsert PROVE OfferIsCurrent'
  BY <1>3, <1>4 DEF RouteInsert, Typed, MainOK
<1>5. ASSUME RouteSend PROVE OfferIsCurrent'
  BY <1>5 DEF RouteSend, OfferIsCurrent, Typed, WorkersOK, WorkerTask
<1>6. ASSUME NEW w \in Wids, WorkerTrade(w) PROVE OfferIsCurrent'
  <2> DEFINE rest == Tail(worker[w].queue)
  <2>1. ASSUME LeaveToSell(w, rest, "broke") PROVE OfferIsCurrent'
    BY <1>6, <2>1, OfferLeaves DEF WorkerTrade
  <2>2. ASSUME \/ worker' = [worker EXCEPT ![w].entry = Head(worker[w].queue),
                                           ![w].queue = rest]
               \/ worker' = [worker EXCEPT ![w].queue = rest]
        PROVE  OfferIsCurrent'
    <3>1. worker[w].pc = "select" /\ worker[w] \in WorkerTask /\ UNCHANGED metas
      BY <1>6 DEF WorkerTrade, Typed, WorkersOK
    <3>2. \A v \in Wids \ {w} : worker'[v] = worker[v]
      BY <2>2 DEF Typed, WorkersOK
    <3>3. worker'[w].pc = "select"
      BY <2>2, <3>1 DEF Typed, WorkersOK, WorkerTask
    <3> QED
      BY <3>1, <3>2, <3>3, OfferMoved
  <2> QED
    BY <1>6, <2>1, <2>2 DEF WorkerTrade
<1>7. ASSUME NEW w \in Wids, WorkerInactive(w) PROVE OfferIsCurrent'
  BY <1>7, OfferLeaves DEF WorkerInactive
<1>8. ASSUME NEW w \in Wids, WorkerClosed(w) PROVE OfferIsCurrent'
  BY <1>8, OfferMoved DEF WorkerClosed, Typed, WorkersOK
<1>9. ASSUME NEW w \in Wids, WorkerOffer(w) PROVE OfferIsCurrent'
  BY <1>9, OfferMoved DEF WorkerOffer, Typed, WorkersOK
<1>10. ASSUME NEW b \in Buys, UpdateBalance(b) PROVE OfferIsCurrent'
  <2>1. buyer[b].mint \in Mints /\ buyer[b].qty \in Nat
    BY <1>10 DEF UpdateBalance, Typed, BuyersOK, BuyerTask
  <2> DEFINE m == buyer[b].mint
             v == IF metas[m] = None THEN metas[m] ELSE buyer[b].qty
  <2>2. metas' = [metas EXCEPT ![m] = v] /\ v \in Nat \cup {None}
    BY <1>10, <2>1 DEF UpdateBalance, Typed, MapsOK
  <2> QED
    BY <1>10, <2>1, <2>2, OfferKept DEF UpdateBalance
<1>11. ASSUME NEW b \in Buys, BuyInsert(b) PROVE OfferIsCurrent'
  BY <1>3, <1>11 DEF BuyInsert, Typed, BuyersOK
<1>12. ASSUME NEW w \in Wids, DeductBalance(w) PROVE OfferIsCurrent'
  <2>1. seller[w].mint \in Mints
    BY <1>12 DEF DeductBalance, Typed, SellersOK
  <2> DEFINE m == seller[w].mint
             v == IF metas[m] = None THEN metas[m] ELSE 0
  <2>2. metas' = [metas EXCEPT ![m] = v] /\ v \in Nat \cup {None}
    BY <1>12, <2>1 DEF DeductBalance, Typed, MapsOK
  <2> QED
    BY <1>12, <2>1, <2>2, OfferKept DEF DeductBalance
<1>13. ASSUME NEW w \in Wids, DropMeta(w) PROVE OfferIsCurrent'
  BY <1>13, OfferKept DEF DropMeta, Typed, SellersOK
<1>14. ASSUME MainStep PROVE OfferIsCurrent'
  BY <1>1, <1>2, <1>4, <1>5, <1>14 DEF MainStep, TakeCreate, VetCreate, SpawnBuy,
     TakeTrade, RouteSendError, RouteEvict, TakeOrder
<1>15. ASSUME NEW w \in Wids, WorkerStep(w) \/ SellStep(w) PROVE OfferIsCurrent'
  BY <1>1, <1>6, <1>7, <1>8, <1>9, <1>12, <1>13, <1>15 DEF WorkerStep, SellStep, SellTail,
     SellConfirmed, ForgetWorker, PurgeCreated
<1>16. ASSUME NEW b \in Buys, BuyAnswer(b) \/ BuyTail(b) PROVE OfferIsCurrent'
  BY <1>1, <1>10, <1>11, <1>16 DEF BuyAnswer, BuyTail, BuyConfirmed,
     BuyConfirmedBlind, BuyAbandoned, BuyMark, BuyEnsure
<1> QED
  BY <1>1, <1>14, <1>15, <1>16 DEF Next, Quiescent, vars

LEMMA OfferInit == Init => OfferIsCurrent
  BY DEF Init, OfferIsCurrent

\* The guard a worker keeps across sell_tx.send(..).await protects the position
\* it has read: nobody updates, zeroes, drops or re-registers it meanwhile.
THEOREM OfferCurrent == Spec => []OfferIsCurrent
<1>1. Init => Typed /\ OfferIsCurrent
  BY InitTyped, OfferInit
<1>2. Typed /\ OfferIsCurrent /\ [Next]_vars => (Typed /\ OfferIsCurrent)'
  BY StepTyped, OfferStep
<1> QED
  BY <1>1, <1>2, PTL DEF Spec

\* A step never adds an order for a mint that has no meta: an order is added
\* by a worker that offers, and the meta it offers is still there.
LEMMA LiquidatedStep ==
  ASSUME Typed, OfferIsCurrent, [Next]_vars, NEW m \in Mints, metas[m] = None,
         sellQ' # sellQ, Len(sellQ') > Len(sellQ)
  PROVE  sellQ'[Len(sellQ')].mint # m
<1>1. sellQ \in Seq(Order)
  BY DEF Typed, QueueOK
<1>2. ~TakeOrder
  BY <1>1 DEF TakeOrder
<1>3. PICK w \in Wids : WorkerOffer(w)
  BY <1>2 DEF Next, MainStep, WorkerStep, BuyAnswer, BuyTail, SellStep, SellTail, vars,
     TakeCreate, VetCreate, RegisterMeta, SpawnBuy, TakeTrade, RouteInsert,
     RouteSend, RouteSendError, RouteEvict, WorkerTrade, WorkerInactive,
     WorkerClosed, BuyConfirmed, BuyConfirmedBlind, BuyAbandoned, BuyMark,
     UpdateBalance, BuyEnsure, BuyInsert, SellConfirmed, DeductBalance,
     ForgetWorker, DropMeta, PurgeCreated, Quiescent
<1>4. metas[worker[w].mint] # None
  <2>1. worker[w].amount \in Nat
    BY DEF Typed, WorkersOK, WorkerTask
  <2> QED
    BY <1>3, <2>1, ManagerAssumption DEF WorkerOffer, OfferIsCurrent
<1>5. sellQ'[Len(sellQ')].mint = worker[w].mint
  <2> DEFINE o == [mint |-> worker[w].mint, amount |-> worker[w].amount, from |-> w]
  <2>1. sellQ' = Append(sellQ, o)
    BY <1>3 DEF WorkerOffer
  <2>2. Len(sellQ') = Len(sellQ) + 1 /\ sellQ'[Len(sellQ) + 1] = o
    BY <1>1, <2>1
  <2> QED
    BY <2>2
<1> QED
  BY <1>4, <1>5

\* After the last trace of a sold mint is gone from the manager, no worker that
\* is still running puts another sell order for it into the channel.
THEOREM LiquidationIsFinal == Spec => NoOrderAfterLiquidation
<1>1. Typed /\ OfferIsCurrent /\ [Next]_vars =>
        [\A m \in Mints : metas[m] = None /\ sellQ' # sellQ /\ Len(sellQ') > Len(sellQ)
                            => sellQ'[Len(sellQ')].mint # m]_vars
  BY LiquidatedStep
<1> QED
  BY <1>1, InitTyped, OfferInit, StepTyped, OfferStep, PTL
  DEF Spec, NoOrderAfterLiquidation

-----------------------------------------------------------------------------
(***************************************************************************)
(* What is sold is what was bought.  OrdersSellTheHolding follows an order *)
(* from the worker on; the strengthening HoldingInv also says where the    *)
(* balance in metas comes from, and that a buy that is still waiting has   *)
(* reported nothing yet (so that its answer cannot unsay a report).        *)
(***************************************************************************)
Backed(m, q) == q \in Nat /\ q > 0 /\ Bought(m, q)

MetasBacked == \A m \in Mints : Held(m) => Backed(m, metas[m])
OffersBacked == \A w \in Wids : worker[w].pc = "offer" =>
                  Backed(worker[w].mint, worker[w].amount)
QueueBacked == \A i \in 1..Len(sellQ) : Backed(sellQ[i].mint, sellQ[i].amount)
SellersBacked == \A w \in Wids : seller[w].pc # "none" =>
                   Backed(seller[w].mint, seller[w].amount)
NothingReported == \A b \in Buys : buyer[b].pc \in {"unborn", "wait"} =>
                     buyer[b].qty = 0

HoldingInv ==
  MetasBacked /\ OffersBacked /\ QueueBacked /\ SellersBacked /\ NothingReported

LEMMA HoldingInit == Init => HoldingInv
  BY DEF Init, HoldingInv, MetasBacked, OffersBacked, QueueBacked, SellersBacked,
     NothingReported, Held

\* A purchase that has been reported stays reported.
LEMMA BackedIsStable ==
  ASSUME Typed, NothingReported, [Next]_vars, NEW m \in Mints, NEW q, Backed(m, q)
  PROVE  Backed(m, q)'
<1> USE DEF Backed, Bought
<1>1. PICK b \in Buys : buyer[b].mint = m /\ buyer[b].qty = q
  OBVIOUS
<1>2. buyer[b].pc \notin {"unborn", "wait"}
  BY <1>1 DEF NothingReported
<1>3. buyer \in [Buys -> BuyerTask]
  BY DEF Typed, BuyersOK
<1>4. ASSUME UNCHANGED buyer PROVE Backed(m, q)'
  BY <1>4
<1>5. ASSUME SpawnBuy PROVE Backed(m, q)'
  <2>1. PICK c \in Buys : /\ buyer[c].pc = "unborn"
                          /\ buyer' = [buyer EXCEPT ![c].pc = "wait",
                                                    ![c].mint = main.mint]
    BY <1>5 DEF SpawnBuy, FreshBuy
  <2>2. buyer'[b] = buyer[b]
    BY <1>2, <1>3, <2>1
  <2> QED
    BY <1>1, <2>2
<1>6. ASSUME NEW c \in Buys, BuyAnswer(c) PROVE Backed(m, q)'
  <2>1. buyer'[b] = buyer[b]
    BY <1>2, <1>3, <1>6 DEF BuyAnswer, BuyConfirmed, BuyConfirmedBlind, BuyAbandoned
  <2> QED
    BY <1>1, <2>1
<1>7. ASSUME NEW c \in Buys, BuyTail(c) PROVE Backed(m, q)'
  <2>1. buyer'[b].mint = buyer[b].mint /\ buyer'[b].qty = buyer[b].qty
    BY <1>3, <1>7 DEF BuyTail, BuyMark, UpdateBalance, BuyEnsure, BuyInsert, BuyerTask
  <2> QED
    BY <1>1, <2>1
<1>8. ASSUME MainStep PROVE Backed(m, q)'
  BY <1>4, <1>5, <1>8 DEF MainStep, TakeCreate, VetCreate, RegisterMeta, TakeTrade,
     RouteInsert, RouteSend, RouteSendError, RouteEvict, TakeOrder
<1>9. ASSUME NEW w \in Wids, WorkerStep(w) \/ SellStep(w) PROVE Backed(m, q)'
  BY <1>4, <1>9 DEF WorkerStep, WorkerTrade, WorkerInactive, WorkerClosed,
     WorkerOffer, SellStep, SellTail, SellConfirmed, DeductBalance, ForgetWorker, DropMeta,
     PurgeCreated
<1> QED
  BY <1>4, <1>6, <1>7, <1>8, <1>9 DEF Next, Quiescent, vars

LEMMA NothingReportedStep ==
  ASSUME Typed, NothingReported, [Next]_vars PROVE NothingReported'
<1>1. buyer \in [Buys -> BuyerTask]
  BY DEF Typed, BuyersOK
<1>2. ASSUME UNCHANGED buyer PROVE NothingReported'
  BY <1>2 DEF NothingReported
<1>3. ASSUME SpawnBuy PROVE NothingReported'
  <2>1. PICK c \in Buys : /\ buyer[c].pc = "unborn"
                          /\ buyer' = [buyer EXCEPT ![c].pc = "wait",
                                                    ![c].mint = main.mint]
    BY <1>3 DEF SpawnBuy, FreshBuy
  <2> QED
    BY <1>1, <2>1 DEF NothingReported, BuyerTask
<1>4. ASSUME NEW c \in Buys, BuyAnswer(c) PROVE NothingReported'
  BY <1>1, <1>4 DEF NothingReported, BuyerTask, BuyAnswer, BuyConfirmed,
     BuyConfirmedBlind, BuyAbandoned
<1>5. ASSUME NEW c \in Buys, BuyTail(c) PROVE NothingReported'
  BY <1>1, <1>5 DEF NothingReported, BuyerTask, BuyTail, BuyMark, UpdateBalance,
     BuyEnsure, BuyInsert
<1>6. ASSUME MainStep PROVE NothingReported'
  BY <1>2, <1>3, <1>6 DEF MainStep, TakeCreate, VetCreate, RegisterMeta, TakeTrade,
     RouteInsert, RouteSend, RouteSendError, RouteEvict, TakeOrder
<1>7. ASSUME NEW w \in Wids, WorkerStep(w) \/ SellStep(w) PROVE NothingReported'
  BY <1>2, <1>7 DEF WorkerStep, WorkerTrade, WorkerInactive, WorkerClosed,
     WorkerOffer, SellStep, SellTail, SellConfirmed, DeductBalance, ForgetWorker, DropMeta,
     PurgeCreated
<1> QED
  BY <1>2, <1>4, <1>5, <1>6, <1>7 DEF Next, Quiescent, vars

\* A balance in metas is zero, kept, or reported by the buy that writes it.
LEMMA MetasBackedStep ==
  ASSUME Typed, HoldingInv, [Next]_vars PROVE MetasBacked'
<1> USE DEF Held
<1>0. metas \in [Mints -> Nat \cup {None}] /\ MetasBacked
  BY DEF Typed, MapsOK, HoldingInv
<1>1. \A m \in Mints : Backed(m, metas[m]) => Backed(m, metas[m])'
        \/ metas'[m] # metas[m]
  BY BackedIsStable DEF HoldingInv, Backed, Bought
<1>2. ASSUME \A m \in Mints : metas'[m] \in {None, 0, metas[m]} PROVE MetasBacked'
  BY <1>0, <1>1, <1>2 DEF MetasBacked
<1>3. ASSUME NEW b \in Buys, UpdateBalance(b) PROVE MetasBacked'
  <2>1. buyer[b].mint \in Mints /\ buyer[b].qty \in Nat
    BY <1>3 DEF UpdateBalance, Typed, BuyersOK, BuyerTask
  <2>2. buyer'[b].mint = buyer[b].mint /\ buyer'[b].qty = buyer[b].qty
    BY <1>3 DEF UpdateBalance, Typed, BuyersOK, BuyerTask
  <2>3. buyer[b].qty > 0 => Backed(buyer[b].mint, buyer[b].qty)'
    BY <2>1, <2>2 DEF Backed, Bought
  <2>4. SUFFICES ASSUME NEW m \in Mints, Held(m)' PROVE Backed(m, metas[m])'
    BY DEF MetasBacked
  <2>5. CASE m # buyer[b].mint
    <3>1. metas'[m] = metas[m]
      BY <1>0, <1>3, <2>5 DEF UpdateBalance
    <3> QED
      BY <1>0, <1>1, <2>4, <3>1 DEF MetasBacked
  <2>6. CASE m = buyer[b].mint
    <3>1. metas'[m] = None \/ metas'[m] = buyer[b].qty
      BY <1>0, <1>3, <2>6 DEF UpdateBalance
    <3>2. metas'[m] = buyer[b].qty /\ buyer[b].qty > 0
      BY <2>1, <2>4, <3>1
    <3>3. buyer'[b].mint = m /\ buyer'[b].qty = metas'[m]
      BY <2>2, <2>6, <3>2
    <3> QED
      BY <2>1, <3>2, <3>3 DEF Backed, Bought
  <2> QED
    BY <2>5, <2>6
<1>4. ASSUME MainStep PROVE MetasBacked'
  BY <1>0, <1>2, <1>4 DEF MainStep, TakeCreate, VetCreate, RegisterMeta, SpawnBuy,
     TakeTrade, RouteInsert, RouteSend, RouteSendError, RouteEvict, TakeOrder
<1>5. ASSUME NEW w \in Wids, WorkerStep(w) PROVE MetasBacked'
  BY <1>2, <1>5 DEF WorkerStep, WorkerTrade, WorkerInactive, WorkerClosed, WorkerOffer
<1>6. ASSUME NEW w \in Wids, SellStep(w) PROVE MetasBacked'
  BY <1>0, <1>2, <1>6 DEF SellStep, SellTail, SellConfirmed, DeductBalance, ForgetWorker,
     DropMeta, PurgeCreated
<1>7. ASSUME NEW b \in Buys, BuyAnswer(b) \/ BuyTail(b) PROVE MetasBacked'
  BY <1>2, <1>3, <1>7 DEF BuyAnswer, BuyTail, BuyConfirmed, BuyConfirmedBlind,
     BuyAbandoned, BuyMark, BuyEnsure, BuyInsert
<1> QED
  BY <1>2, <1>4, <1>5, <1>6, <1>7 DEF Next, Quiescent, vars

\* A worker offers the balance it has found in metas, and keeps offering it.
LEMMA OffersBackedStep ==
  ASSUME Typed, HoldingInv, [Next]_vars PROVE OffersBacked'
<1>0. worker \in [Wids -> WorkerTask] /\ OffersBacked /\ MetasBacked
  BY DEF Typed, WorkersOK, HoldingInv
<1>1. \A m \in Mints, q \in Nat : Backed(m, q) => Backed(m, q)'
  BY BackedIsStable DEF HoldingInv
<1>2. ASSUME \A w \in Wids : worker'[w].pc = "offer" => worker'[w] = worker[w]
      PROVE  OffersBacked'
  <2>1. SUFFICES ASSUME NEW w \in Wids, worker'[w].pc = "offer"
                 PROVE  Backed(worker[w].mint, worker[w].amount)'
    BY DEF OffersBacked
  <2>2. worker'[w] = worker[w] /\ worker[w].pc = "offer"
    BY <1>2, <2>1
  <2>3. worker[w].mint \in Mints /\ worker[w].amount \in Nat
    BY <1>0, <2>2 DEF Typed, WorkersOK, WorkerTask
  <2>4. Backed(worker[w].mint, worker[w].amount)
    BY <1>0, <2>2 DEF OffersBacked
  <2> QED
    BY <1>1, <2>2, <2>3, <2>4 DEF Backed, Bought
<1>3. ASSUME NEW w \in Wids, NEW rest, NEW why \in {"broke", "idle"},
             worker[w].pc = "select", LeaveToSell(w, rest, why)
      PROVE  OffersBacked'
  <2>1. worker[w].mint \in Mints
    BY <1>3 DEF Typed, WorkersOK
  <2> DEFINE m == worker[w].mint
  <2>2. CASE Held(m)
    <3>1. Backed(m, metas[m])
      BY <1>0, <2>1, <2>2 DEF MetasBacked
    <3>2. /\ worker'[w].mint = m /\ worker'[w].amount = metas[m]
          /\ \A v \in Wids \ {w} : worker'[v] = worker[v]
      BY <1>0, <1>3, <2>2 DEF LeaveToSell, Held, WorkerTask
    <3>3. ASSUME NEW v \in Wids \ {w}, worker'[v].pc = "offer"
          PROVE  Backed(worker[v].mint, worker[v].amount)'
      <4>1. worker'[v] = worker[v] /\ worker[v].mint \in Mints
              /\ worker[v].amount \in Nat
        BY <3>2, <3>3, <1>0 DEF Typed, WorkersOK, WorkerTask
      <4>2. Backed(worker[v].mint, worker[v].amount)
        BY <1>0, <3>3, <4>1 DEF OffersBacked
      <4> QED
        BY <1>1, <4>1, <4>2 DEF Backed, Bought
    <3>4. Backed(worker[w].mint, worker[w].amount)'
      BY <1>1, <2>1, <3>1, <3>2 DEF Backed, Bought
    <3> QED
      BY <3>3, <3>4 DEF OffersBacked
  <2>3. CASE ~Held(m)
    <3>1. \A v \in Wids : worker'[v].pc = "offer" => worker'[v] = worker[v]
      BY <1>0, <1>3, <2>3 DEF LeaveToSell, Held, WorkerTask
    <3> QED
      BY <1>2, <3>1
  <2> QED
    BY <2>2, <2>3
<1>4. ASSUME NEW m \in Mints, NEW w \in Wids, SpawnWorker(m, w) PROVE OffersBacked'
  BY <1>0, <1>2, <1>4 DEF SpawnWorker
<1>5. ASSUME RouteSend PROVE OffersBacked'
  <2>1. main.tx \in Wids
    BY <1>5 DEF RouteSend, Typed, MainOK
  <2>2. SUFFICES ASSUME NEW w \in Wids, worker'[w].pc = "offer"
                 PROVE  Backed(worker[w].mint, worker[w].amount)'
    BY DEF OffersBacked
  <2>3. /\ worker'[w].pc = worker[w].pc /\ worker'[w].mint = worker[w].mint
        /\ worker'[w].amount = worker[w].amount
    BY <1>0, <1>5, <2>1 DEF RouteSend, WorkerTask
  <2>4. worker[w].mint \in Mints /\ worker[w].amount \in Nat
    BY <1>0, <2>2, <2>3 DEF Typed, WorkersOK, WorkerTask
  <2>5. Backed(worker[w].mint, worker[w].amount)
    BY <1>0, <2>2, <2>3 DEF OffersBacked
  <2> QED
    BY <1>1, <2>3, <2>4, <2>5 DEF Backed, Bought
<1>6. ASSUME MainStep PROVE OffersBacked'
  BY <1>2, <1>4, <1>5, <1>6 DEF MainStep, TakeCreate, VetCreate, RegisterMeta,
     SpawnBuy, TakeTrade, RouteInsert, RouteSendError, RouteEvict, TakeOrder, Typed,
     MainOK
<1>7. ASSUME NEW w \in Wids, WorkerTrade(w) PROVE OffersBacked'
  <2>1. CASE LeaveToSell(w, Tail(worker[w].queue), "broke")
    BY <1>3, <1>7, <2>1 DEF WorkerTrade
  <2>2. CASE \/ worker' = [worker EXCEPT ![w].entry = Head(worker[w].queue),
                                         ![w].queue = Tail(worker[w].queue)]
             \/ worker' = [worker EXCEPT ![w].queue = Tail(worker[w].queue)]
    <3>1. worker[w].pc = "select"
      BY <1>7 DEF WorkerTrade
    <3>2. \A v \in Wids : worker'[v].pc = "offer" => worker'[v] = worker[v]
      BY <1>0, <2>2, <3>1 DEF WorkerTask
    <3> QED
      BY <1>2, <3>2
  <2> QED
    BY <1>7, <2>1, <2>2 DEF WorkerTrade
<1>8. ASSUME NEW w \in Wids, WorkerStep(w) PROVE OffersBacked'
  <2>1. CASE WorkerInactive(w)
    BY <1>3, <2>1 DEF WorkerInactive
  <2>2. CASE WorkerClosed(w) \/ WorkerOffer(w)
    BY <1>0, <1>2, <2>2 DEF WorkerClosed, WorkerOffer, WorkerTask
  <2> QED
    BY <1>7, <1>8, <2>1, <2>2 DEF WorkerStep
<1>9. ASSUME NEW w \in Wids, SellStep(w) PROVE OffersBacked'
  BY <1>2, <1>9 DEF SellStep, SellTail, SellConfirmed, DeductBalance, ForgetWorker,
     DropMeta, PurgeCreated
<1>10. ASSUME NEW b \in Buys, BuyAnswer(b) \/ BuyTail(b) PROVE OffersBacked'
  BY <1>2, <1>4, <1>10 DEF BuyAnswer, BuyTail, BuyConfirmed, BuyConfirmedBlind,
     BuyAbandoned, BuyMark, UpdateBalance, BuyEnsure, BuyInsert, Typed, BuyersOK
<1> QED
  BY <1>2, <1>6, <1>8, <1>9, <1>10 DEF Next, Quiescent, vars

\* An order carries the offer of its worker through the channel...
LEMMA QueueBackedStep ==
  ASSUME Typed, HoldingInv, [Next]_vars PROVE QueueBacked'
<1>0. sellQ \in Seq(Order) /\ QueueBacked
  BY DEF Typed, QueueOK, HoldingInv
<1>1. \A m \in Mints, q \in Nat : Backed(m, q) =>
        \E b \in Buys : buyer'[b].mint = m /\ buyer'[b].qty = q
  BY BackedIsStable DEF HoldingInv, Backed, Bought
<1>2. ASSUME NEW i \in 1..Len(sellQ), NEW j \in 1..Len(sellQ'), sellQ'[j] = sellQ[i]
      PROVE  Backed(sellQ[j].mint, sellQ[j].amount)'
  <2>1. sellQ[i].mint \in Mints /\ sellQ[i].amount \in Nat
    <3>1. sellQ[i] \in Order
      BY <1>0
    <3> QED
      BY <3>1 DEF Order
  <2>2. Backed(sellQ[i].mint, sellQ[i].amount)
    BY <1>0 DEF QueueBacked
  <2>3. \E b \in Buys : buyer'[b].mint = sellQ[i].mint
                          /\ buyer'[b].qty = sellQ[i].amount
    BY <1>1, <2>1, <2>2
  <2> QED
    BY <1>2, <2>2, <2>3 DEF Backed, Bought
<1>3. ASSUME UNCHANGED sellQ PROVE QueueBacked'
  BY <1>2, <1>3 DEF QueueBacked
<1>4. ASSUME TakeOrder PROVE QueueBacked'
  <2>1. /\ Len(sellQ') \in Nat
        /\ \A i \in 1..Len(sellQ') : i + 1 \in 1..Len(sellQ)
                                       /\ sellQ'[i] = sellQ[i + 1]
    BY <1>0, <1>4 DEF TakeOrder
  <2> QED
    BY <1>2, <2>1 DEF QueueBacked
<1>5. ASSUME NEW w \in Wids, WorkerOffer(w) PROVE QueueBacked'
  <2> DEFINE o == [mint |-> worker[w].mint, amount |-> worker[w].amount, from |-> w]
  <2>1. /\ sellQ' = Append(sellQ, o)
        /\ o.mint \in Mints /\ o.amount \in Nat /\ Backed(o.mint, o.amount)
    BY <1>5 DEF WorkerOffer, Typed, WorkersOK, WorkerTask, HoldingInv, OffersBacked
  <2>2. \A i \in 1..Len(sellQ') : sellQ'[i] = o
          \/ (i \in 1..Len(sellQ) /\ sellQ'[i] = sellQ[i])
    BY <1>0, <2>1
  <2>4. SUFFICES ASSUME NEW i \in 1..Len(sellQ')
                 PROVE  Backed(sellQ[i].mint, sellQ[i].amount)'
    BY DEF QueueBacked
  <2>5. CASE sellQ'[i] = o
    BY <1>5, <2>1, <2>5 DEF WorkerOffer, Backed, Bought
  <2>6. CASE i \in 1..Len(sellQ) /\ sellQ'[i] = sellQ[i]
    BY <1>2, <2>6
  <2> QED
    BY <2>2, <2>5, <2>6
<1>6. ASSUME MainStep PROVE QueueBacked'
  BY <1>3, <1>4, <1>6 DEF MainStep, TakeCreate, VetCreate, RegisterMeta, SpawnBuy,
     TakeTrade, RouteInsert, RouteSend, RouteSendError, RouteEvict
<1>7. ASSUME NEW w \in Wids, WorkerStep(w) \/ SellStep(w) PROVE QueueBacked'
  BY <1>3, <1>5, <1>7 DEF WorkerStep, WorkerTrade, WorkerInactive, WorkerClosed,
     SellStep, SellTail, SellConfirmed, DeductBalance, ForgetWorker, DropMeta, PurgeCreated
<1>8. ASSUME NEW b \in Buys, BuyAnswer(b) \/ BuyTail(b) PROVE QueueBacked'
  BY <1>3, <1>8 DEF BuyAnswer, BuyTail, BuyConfirmed, BuyConfirmedBlind,
     BuyAbandoned, BuyMark, UpdateBalance, BuyEnsure, BuyInsert
<1> QED
  BY <1>3, <1>6, <1>7, <1>8 DEF Next, Quiescent, vars

\* ... and into its sell task.
LEMMA SellersBackedStep ==
  ASSUME Typed, HoldingInv, [Next]_vars PROVE SellersBacked'
<1>0. seller \in [Wids -> SellerTask] /\ SellersBacked
  BY DEF Typed, SellersOK, HoldingInv
<1>1. \A m \in Mints, q \in Nat : Backed(m, q) => Backed(m, q)'
  BY BackedIsStable DEF HoldingInv
<1>2. ASSUME \A w \in Wids : seller'[w].pc # "none" =>
               /\ seller[w].pc # "none"
               /\ seller'[w].mint = seller[w].mint
               /\ seller'[w].amount = seller[w].amount
      PROVE  SellersBacked'
  <2>1. SUFFICES ASSUME NEW w \in Wids, seller'[w].pc # "none"
                 PROVE  Backed(seller[w].mint, seller[w].amount)'
    BY DEF SellersBacked
  <2>2. /\ Backed(seller[w].mint, seller[w].amount)
        /\ seller[w].mint \in Mints /\ seller[w].amount \in Nat
    BY <1>0, <1>2, <2>1 DEF SellersBacked, Typed, SellersOK, SellerTask
  <2> QED
    BY <1>1, <1>2, <2>1, <2>2 DEF Backed, Bought
<1>3. ASSUME TakeOrder PROVE SellersBacked'
  <2> DEFINE o == Head(sellQ)
  <2>1. /\ o \in Order /\ Backed(o.mint, o.amount)
        /\ seller' = [seller EXCEPT ![o.from] =
                       [pc |-> "trying", mint |-> o.mint, amount |-> o.amount]]
        /\ UNCHANGED buyer
    BY <1>3 DEF TakeOrder, Typed, QueueOK, HoldingInv, QueueBacked
  <2>2. SUFFICES ASSUME NEW w \in Wids, seller'[w].pc # "none"
                 PROVE  Backed(seller[w].mint, seller[w].amount)'
    BY DEF SellersBacked
  <2>3. CASE w = o.from
    BY <1>0, <2>1, <2>3 DEF Backed, Bought
  <2>4. CASE w # o.from
    <3>1. seller'[w] = seller[w]
      BY <1>0, <2>1, <2>4
    <3> QED
      BY <1>0, <2>1, <2>2, <3>1 DEF SellersBacked, Backed, Bought
  <2> QED
    BY <2>3, <2>4
<1>4. ASSUME NEW w \in Wids, SellStep(w) PROVE SellersBacked'
  BY <1>0, <1>2, <1>4 DEF SellStep, SellTail, SellConfirmed, DeductBalance, ForgetWorker,
     DropMeta, PurgeCreated, SellerTask
<1>5. ASSUME MainStep PROVE SellersBacked'
  BY <1>2, <1>3, <1>5 DEF MainStep, TakeCreate, VetCreate, RegisterMeta, SpawnBuy,
     TakeTrade, RouteInsert, RouteSend, RouteSendError, RouteEvict
<1>6. ASSUME NEW w \in Wids, WorkerStep(w) PROVE SellersBacked'
  BY <1>2, <1>6 DEF WorkerStep, WorkerTrade, WorkerInactive, WorkerClosed, WorkerOffer
<1>7. ASSUME NEW b \in Buys, BuyAnswer(b) \/ BuyTail(b) PROVE SellersBacked'
  BY <1>2, <1>7 DEF BuyAnswer, BuyTail, BuyConfirmed, BuyConfirmedBlind,
     BuyAbandoned, BuyMark, UpdateBalance, BuyEnsure, BuyInsert
<1> QED
  BY <1>2, <1>4, <1>5, <1>6, <1>7 DEF Next, Quiescent, vars

LEMMA HoldingStep == Typed /\ HoldingInv /\ [Next]_vars => HoldingInv'
<1> SUFFICES ASSUME Typed, HoldingInv, [Next]_vars PROVE HoldingInv'
  OBVIOUS
<1>1. NothingReported'
  BY NothingReportedStep DEF HoldingInv
<1> QED
  BY <1>1, MetasBackedStep, OffersBackedStep, QueueBackedStep, SellersBackedStep
  DEF HoldingInv

\* Every sell order, in a worker's hands, in the channel or in a sell task, is
\* for a positive amount that a confirmed buy of its mint has reported.
THEOREM SoldWasBought == Spec => []OrdersSellTheHolding
<1>1. Init => Typed /\ HoldingInv
  BY InitTyped, HoldingInit
<1>2. Typed /\ HoldingInv /\ [Next]_vars => (Typed /\ HoldingInv)'
  BY StepTyped, HoldingStep
<1>3. HoldingInv => OrdersSellTheHolding
  BY DEF HoldingInv, OffersBacked, QueueBacked, SellersBacked, Backed,
     OrdersSellTheHolding
<1> QED
  BY <1>1, <1>2, <1>3, PTL DEF Spec

(***************************************************************************)
(* Nobody is stuck.  The order channel is never overfull, and as long as a *)
(* task is on its way to spawn another one there is an id left for it.     *)
(***************************************************************************)
Unborn == {w \in Wids : worker[w].pc = "unborn"}
Hiring == {b \in Buys : buyer[b].pc \in {"wait", "mark", "balance", "ensure", "insert"}}
MainHires == IF main.pc \in {"vet", "register", "spawn", "insert"} THEN 1 ELSE 0

WorkersLeft == Cardinality(Unborn) >= MainHires + Cardinality(Hiring)
BuyersLeft == main.pc \in {"vet", "register", "spawn"} =>
                \E b \in Buys : buyer[b].pc = "unborn"
ChannelOK == Len(sellQ) <= SellCap

Staffed == WorkersLeft /\ BuyersLeft /\ ChannelOK

\* A set of ids that is not empty has a least element.
LEMMA LessIsWellFounded ==
  \E R : IsWellFoundedOn(R, Nat) /\ \A y, z \in Nat : y < z => <<y, z>> \in R
<1> WITNESS OpToRel(<, Nat)
<1>1. IsWellFoundedOn(OpToRel(<, Nat), Nat)
  BY NatLessThanWellFounded
<1>2. \A y, z \in Nat : y < z => <<y, z>> \in OpToRel(<, Nat)
  BY DEF OpToRel
<1> QED
  BY <1>1, <1>2, Zenon

LEMMA Least ==
  ASSUME NEW S, S \subseteq Nat, S # {}
  PROVE  \E x \in S : \A y \in S : x <= y
<1>1. PICK R : IsWellFoundedOn(R, Nat) /\ \A y, z \in Nat : y < z => <<y, z>> \in R
  BY LessIsWellFounded, Zenon
<1>2. IsWellFoundedOn(R, Nat)
  BY <1>1, Zenon
<1>3. \E x \in S : \A y \in S : ~ (<<y, x>> \in R)
  BY <1>2, WFMin, Zenon
<1>4. PICK x \in S : \A y \in S : ~ (<<y, x>> \in R)
  BY <1>3, Zenon
<1>5. ASSUME NEW y \in S PROVE x <= y
  <2>1. ~ (<<y, x>> \in R)
    BY <1>4
  <2>2. y \in Nat /\ x \in Nat
    BY Zenon
  <2>3. ~ (y < x)
    BY <1>1, <2>1, <2>2, Zenon
  <2> QED
    BY <2>2, <2>3
<1> QED
  BY <1>5

LEMMA FreshBuyExists ==
  ASSUME NEW b \in Buys, buyer[b].pc = "unborn"
  PROVE  \E c \in Buys : FreshBuy(c)
<1> DEFINE S == {c \in Buys : buyer[c].pc = "unborn"}
<1>1. S \subseteq Nat /\ S # {}
  BY ManagerAssumption
<1>2. PICK x \in S : \A y \in S : x <= y
  BY <1>1, Least
<1> QED
  BY <1>2 DEF FreshBuy

LEMMA FreshWidExists ==
  ASSUME Unborn # {}
  PROVE  \E w \in Wids : FreshWid(w)
<1>1. Unborn \subseteq Nat
  BY ManagerAssumption DEF Unborn
<1>2. PICK x \in Unborn : \A y \in Unborn : x <= y
  BY <1>1, Least
<1> QED
  BY <1>2 DEF FreshWid, Unborn

LEMMA StaffFinite ==
  /\ IsFiniteSet(Unborn) /\ Cardinality(Unborn) \in Nat
  /\ IsFiniteSet(Hiring) /\ Cardinality(Hiring) \in Nat
<1>1. Unborn \subseteq Wids /\ Hiring \subseteq Buys
  BY DEF Unborn, Hiring
<1> QED
  BY <1>1, BoundsAssumption, FS_Subset, FS_CardinalityType

\* What is left of the ids when a worker is spawned, and when nobody is.
LEMMA SpawnTakesOne ==
  ASSUME Typed, NEW m \in Mints, NEW w \in Wids, SpawnWorker(m, w)
  PROVE  Cardinality(Unborn') = Cardinality(Unborn) - 1
<1>1. w \in Unborn /\ Unborn' = Unborn \ {w}
  BY DEF SpawnWorker, FreshWid, Unborn, Typed, WorkersOK
<1> QED
  BY <1>1, StaffFinite, FS_RemoveElement

LEMMA WorkersLeftKept ==
  ASSUME WorkersLeft, Unborn' = Unborn, Hiring' \subseteq Hiring,
         main'.pc = main.pc \/ main'.pc \notin {"vet", "register", "spawn", "insert"}
         \/ MainHires = 1
  PROVE  WorkersLeft'
<1>1. Cardinality(Hiring') <= Cardinality(Hiring) /\ Cardinality(Hiring') \in Nat
  BY StaffFinite, FS_Subset, FS_CardinalityType
<1>2. MainHires' <= MainHires /\ MainHires' \in Nat /\ MainHires \in Nat
  BY DEF MainHires
<1> QED
  BY <1>1, <1>2, StaffFinite DEF WorkersLeft

LEMMA WorkersLeftStep == ASSUME Typed, WorkersLeft, [Next]_vars PROVE WorkersLeft'
<1> USE StaffFinite
<1>0. UNCHANGED worker => Unborn' = Unborn
  BY DEF Unborn
<1>1. UNCHANGED buyer => Hiring' = Hiring
  BY DEF Hiring
<1>2. ASSUME UNCHANGED <<worker, buyer>>, SpareWorkers(1), main.pc = "select"
      PROVE  WorkersLeft'
  <2>1. Unborn' = Unborn /\ Hiring' = Hiring
    BY <1>0, <1>1, <1>2
  <2>2. Cardinality(Unborn) >= 1 + Cardinality(Hiring)
    BY <1>2 DEF SpareWorkers, Unborn, Hiring
  <2>3. MainHires' \in {0, 1}
    BY DEF MainHires
  <2> QED
    BY <2>1, <2>2, <2>3 DEF WorkersLeft
<1>3. ASSUME NEW m \in Mints, TakeCreate(m) PROVE WorkersLeft'
  BY <1>2, <1>3 DEF TakeCreate
<1>4. ASSUME NEW m \in Mints, NEW cap \in Caps, TakeTrade(m, cap) PROVE WorkersLeft'
  <2>1. CASE workers[m] = None
    BY <1>2, <1>4, <2>1 DEF TakeTrade
  <2>2. CASE workers[m] # None
    BY <1>0, <1>1, <1>4, <2>2, WorkersLeftKept DEF TakeTrade
  <2> QED
    BY <2>1, <2>2
<1>5. ASSUME SpawnBuy PROVE WorkersLeft'
  <2>1. PICK b \in Buys :
          /\ buyer[b].pc = "unborn"
          /\ buyer' = [buyer EXCEPT ![b].pc = "wait", ![b].mint = main.mint]
    BY <1>5 DEF SpawnBuy, FreshBuy
  <2>2. b \notin Hiring /\ Hiring' = Hiring \cup {b}
    BY <2>1 DEF Hiring, Typed, BuyersOK, BuyerTask
  <2>3. Cardinality(Hiring') = Cardinality(Hiring) + 1
    BY <2>2, FS_AddElement
  <2>4. Unborn' = Unborn
    BY <1>0, <1>5 DEF SpawnBuy
  <2>5. MainHires = 1 /\ MainHires' = 0
    BY <1>5 DEF SpawnBuy, MainHires, Idle
  <2> QED
    BY <2>3, <2>4, <2>5 DEF WorkersLeft
<1>6. ASSUME RouteInsert PROVE WorkersLeft'
  <2>1. PICK w \in Wids : /\ SpawnWorker(main.mint, w)
                          /\ main' = [main EXCEPT !.pc = "send", !.tx = w]
    BY <1>6 DEF RouteInsert
  <2>2. main.mint \in Mints
    BY <1>6 DEF RouteInsert, Typed, MainOK
  <2>3. Cardinality(Unborn') = Cardinality(Unborn) - 1
    BY <2>1, <2>2, SpawnTakesOne
  <2>4. MainHires = 1 /\ MainHires' = 0
    BY <1>6, <2>1 DEF RouteInsert, MainHires, Typed, MainOK, MainTask
  <2>5. Hiring' = Hiring
    BY <1>1, <1>6 DEF RouteInsert
  <2> QED
    BY <2>3, <2>4, <2>5 DEF WorkersLeft
<1>7. ASSUME MainStep PROVE WorkersLeft'
  <2>1. CASE VetCreate \/ RegisterMeta
    BY <1>0, <1>1, <2>1, WorkersLeftKept DEF VetCreate, RegisterMeta, MainHires
  <2>2. CASE RouteSend
    <3>1. Unborn' = Unborn
      BY <2>2 DEF RouteSend, Alive, Unborn, Typed, WorkersOK, WorkerTask
    <3> QED
      BY <1>1, <2>2, <3>1, WorkersLeftKept DEF RouteSend, Idle
  <2>3. CASE RouteSendError \/ RouteEvict \/ TakeOrder
    BY <1>0, <1>1, <2>3, WorkersLeftKept
    DEF RouteSendError, RouteEvict, TakeOrder, Idle, Typed, MainOK, MainTask
  <2> QED
    BY <1>3, <1>4, <1>5, <1>6, <1>7, <2>1, <2>2, <2>3 DEF MainStep
<1>8. ASSUME NEW w \in Wids, WorkerStep(w) PROVE WorkersLeft'
  <2> DEFINE u == worker'[w]
  <2>1. worker[w].pc # "unborn" /\ u.pc # "unborn"
    BY <1>8 DEF WorkerStep, WorkerTrade, WorkerInactive, WorkerClosed, WorkerOffer,
       LeaveToSell, Typed, WorkersOK, WorkerTask
  <2>2. \A v \in Wids : v # w => worker'[v] = worker[v]
    BY <1>8 DEF WorkerStep, WorkerTrade, WorkerInactive, WorkerClosed, WorkerOffer,
       LeaveToSell, Typed, WorkersOK
  <2>3. Unborn' = Unborn
    BY <2>1, <2>2 DEF Unborn
  <2>4. UNCHANGED <<main, buyer>>
    BY <1>8 DEF WorkerStep, WorkerTrade, WorkerInactive, WorkerClosed, WorkerOffer
  <2> QED
    BY <1>1, <2>3, <2>4, WorkersLeftKept
<1>9. ASSUME NEW w \in Wids, SellStep(w) PROVE WorkersLeft'
  BY <1>0, <1>1, <1>9, WorkersLeftKept DEF SellStep, SellTail, SellConfirmed, DeductBalance,
     ForgetWorker, DropMeta, PurgeCreated
<1>10. ASSUME NEW b \in Buys, BuyInsert(b) PROVE WorkersLeft'
  <2>1. PICK w \in Wids : SpawnWorker(buyer[b].mint, w)
    BY <1>10 DEF BuyInsert
  <2>2. buyer[b].mint \in Mints /\ UNCHANGED main
    BY <1>10 DEF BuyInsert, Typed, BuyersOK
  <2>3. Cardinality(Unborn') = Cardinality(Unborn) - 1
    BY <2>1, <2>2, SpawnTakesOne
  <2>4. b \in Hiring /\ Hiring' = Hiring \ {b}
    BY <1>10 DEF BuyInsert, Hiring, Typed, BuyersOK, BuyerTask
  <2>5. Cardinality(Hiring') = Cardinality(Hiring) - 1
    BY <2>4, FS_RemoveElement
  <2>6. MainHires' = MainHires /\ MainHires \in Nat
    BY <2>2 DEF MainHires
  <2> QED
    BY <2>3, <2>5, <2>6 DEF WorkersLeft
<1>11. ASSUME NEW b \in Buys, BuyAnswer(b) \/ BuyMark(b) \/ UpdateBalance(b) \/ BuyEnsure(b)
       PROVE  WorkersLeft'
  <2>1. Hiring' \subseteq Hiring
    BY <1>11 DEF BuyAnswer, BuyConfirmed, BuyConfirmedBlind, BuyAbandoned, BuyMark,
       UpdateBalance, BuyEnsure, Hiring, Typed, BuyersOK, BuyerTask
  <2>2. UNCHANGED <<worker, main>>
    BY <1>11 DEF BuyAnswer, BuyConfirmed, BuyConfirmedBlind, BuyAbandoned, BuyMark,
       UpdateBalance, BuyEnsure
  <2> QED
    BY <1>0, <2>1, <2>2, WorkersLeftKept
<1>12. ASSUME UNCHANGED vars PROVE WorkersLeft'
  BY <1>0, <1>1, <1>12, WorkersLeftKept DEF vars
<1> QED
  BY <1>7, <1>8, <1>9, <1>10, <1>11, <1>12 DEF Next, BuyTail, Quiescent

LEMMA BuyersLeftStep == ASSUME Typed, BuyersLeft, [Next]_vars PROVE BuyersLeft'
<1>1. ASSUME UNCHANGED buyer, main'.pc \in {"vet", "register", "spawn"} =>
               main.pc \in {"vet", "register", "spawn"}
      PROVE  BuyersLeft'
  BY <1>1 DEF BuyersLeft
<1>2. ASSUME NEW m \in Mints, TakeCreate(m) PROVE BuyersLeft'
  BY <1>2 DEF TakeCreate, BuyersLeft
<1>3. ASSUME SpawnBuy PROVE BuyersLeft'
  BY <1>3 DEF SpawnBuy, Idle, BuyersLeft
<1>4. ASSUME MainStep PROVE BuyersLeft'
  <2>0. main \in MainTask
    BY DEF Typed, MainOK
  <2>1. CASE VetCreate \/ RegisterMeta
    BY <1>1, <2>0, <2>1 DEF VetCreate, RegisterMeta, Idle, MainTask
  <2>2. CASE \E m \in Mints, cap \in Caps : TakeTrade(m, cap)
    BY <1>1, <2>2 DEF TakeTrade
  <2>3. CASE RouteInsert
    <3>1. main'.pc = "send" /\ UNCHANGED buyer
      BY <2>0, <2>3 DEF RouteInsert, MainTask
    <3> QED
      BY <1>1, <3>1
  <2>4. CASE RouteSend
    BY <1>1, <2>4 DEF RouteSend, Idle
  <2>5. CASE RouteSendError \/ RouteEvict \/ TakeOrder
    BY <1>1, <2>0, <2>5 DEF RouteSendError, RouteEvict, TakeOrder, Idle, MainTask
  <2> QED
    BY <1>2, <1>3, <1>4, <2>1, <2>2, <2>3, <2>4, <2>5 DEF MainStep
<1>5. ASSUME NEW w \in Wids, WorkerStep(w) \/ SellStep(w) PROVE BuyersLeft'
  BY <1>1, <1>5 DEF WorkerStep, WorkerTrade, WorkerInactive, WorkerClosed, WorkerOffer,
     SellStep, SellTail, SellConfirmed, DeductBalance, ForgetWorker, DropMeta, PurgeCreated
<1>6. ASSUME NEW b \in Buys, BuyAnswer(b) \/ BuyTail(b) PROVE BuyersLeft'
  <2>1. UNCHANGED main /\ buyer[b].pc # "unborn"
    BY <1>6 DEF BuyAnswer, BuyConfirmed, BuyConfirmedBlind, BuyAbandoned, BuyTail,
       BuyMark, UpdateBalance, BuyEnsure, BuyInsert
  <2>2. \A c \in Buys : c # b => buyer'[c] = buyer[c]
    BY <1>6 DEF BuyAnswer, BuyConfirmed, BuyConfirmedBlind, BuyAbandoned, BuyTail,
       BuyMark, UpdateBalance, BuyEnsure, BuyInsert, Typed, BuyersOK
  <2> QED
    BY <2>1, <2>2 DEF BuyersLeft
<1> QED
  BY <1>1, <1>4, <1>5, <1>6 DEF Next, Quiescent, vars

LEMMA ChannelStep == ASSUME Typed, ChannelOK, [Next]_vars PROVE ChannelOK'
<1> USE ManagerAssumption
<1>0. sellQ \in Seq(Order)
  BY DEF Typed, QueueOK
<1>1. UNCHANGED sellQ => ChannelOK'
  BY DEF ChannelOK
<1>2. TakeOrder => ChannelOK'
  BY <1>0 DEF TakeOrder, ChannelOK
<1>3. ASSUME NEW w \in Wids, WorkerOffer(w) PROVE ChannelOK'
  <2> DEFINE o == [mint |-> worker[w].mint, amount |-> worker[w].amount, from |-> w]
  <2>1. o \in Order
    BY <1>3 DEF WorkerOffer, Order, Typed, WorkersOK, WorkerTask
  <2>2. Len(sellQ) \in Nat /\ Len(Append(sellQ, o)) = Len(sellQ) + 1
    BY <1>0, <2>1
  <2> QED
    BY <1>3, <2>2 DEF WorkerOffer, ChannelOK
<1>4. MainStep => TakeOrder \/ UNCHANGED sellQ
  BY DEF MainStep, TakeCreate, VetCreate, RegisterMeta, SpawnBuy, TakeTrade,
     RouteInsert, RouteSend, RouteSendError, RouteEvict
<1>5. \A w \in Wids : WorkerStep(w) \/ SellStep(w) => WorkerOffer(w) \/ UNCHANGED sellQ
  BY DEF WorkerStep, WorkerTrade, WorkerInactive, WorkerClosed, SellStep, SellTail,
     SellConfirmed, DeductBalance, ForgetWorker, DropMeta, PurgeCreated
<1>6. \A b \in Buys : BuyAnswer(b) \/ BuyTail(b) => UNCHANGED sellQ
  BY DEF BuyAnswer, BuyTail, BuyConfirmed, BuyConfirmedBlind, BuyAbandoned, BuyMark,
     UpdateBalance, BuyEnsure, BuyInsert
<1> QED
  BY <1>1, <1>2, <1>3, <1>4, <1>5, <1>6 DEF Next, Quiescent, vars

LEMMA StaffedInit == Init => Staffed
<1> SUFFICES ASSUME Init PROVE Staffed
  OBVIOUS
<1>1. Hiring = {} /\ MainHires = 0
  BY DEF Init, Hiring, MainHires, Idle
<1>2. WorkersLeft
  BY <1>1, StaffFinite, FS_EmptySet DEF WorkersLeft
<1>3. BuyersLeft /\ ChannelOK
  BY ManagerAssumption DEF Init, BuyersLeft, ChannelOK, Idle
<1> QED
  BY <1>2, <1>3 DEF Staffed

LEMMA StaffedStep == Typed /\ Staffed /\ [Next]_vars => Staffed'
  BY WorkersLeftStep, BuyersLeftStep, ChannelStep DEF Staffed

\* With every task where it cannot move, the worker that offers holds the key to
\* all the others: without one no shard is locked, and all are at rest.
LEMMA StuckMeansCircularWait ==
  ASSUME Typed, Staffed, ~CanMove
  PROVE  Settled \/ CircularWait
<1>0. /\ Len(sellQ) \in Nat /\ Len(sellQ) <= SellCap /\ SellCap \in Nat \ {0}
      /\ main.pc \in MainPc
  BY ManagerAssumption DEF Typed, QueueOK, MainOK, MainTask, Staffed, ChannelOK
<1>1. \A w \in Wids : worker[w].pc # "select"
  BY DEF CanMove, WorkerCanMove
<1>2. ASSUME NEW w \in Wids, worker[w].pc = "offer" PROVE Len(sellQ) = SellCap
  BY <1>0, <1>2 DEF CanMove, WorkerCanMove
<1>3. ~MainCanMove
  BY DEF CanMove
<1>4. MainHires + Cardinality(Hiring) > 0 => \E w \in Wids : FreshWid(w)
  <2>1. MainHires \in Nat
    BY DEF MainHires
  <2>2. Unborn = {} => Cardinality(Unborn) = 0
    BY FS_EmptySet
  <2> QED
    BY <2>1, <2>2, StaffFinite, FreshWidExists DEF Staffed, WorkersLeft
<1>5. main.pc \in {"register", "send", "select"}
  <2>1. main.pc # "vet" /\ main.pc # "evict"
    BY <1>3 DEF MainCanMove
  <2>2. main.pc # "spawn"
    BY <1>3, FreshBuyExists DEF MainCanMove, Staffed, BuyersLeft
  <2>3. main.pc # "insert"
    <3>1. main.pc = "insert" => MainHires = 1
      BY DEF MainHires
    <3> QED
      BY <1>3, <1>4, <3>1, StaffFinite DEF MainCanMove
  <2> QED
    BY <1>0, <2>1, <2>2, <2>3 DEF MainPc
<1>6. CASE main.pc = "register"
  <2>1. ~MetaFree(main.mint)
    BY <1>3, <1>6 DEF MainCanMove
  <2>2. Len(sellQ) = SellCap
    BY <1>2, <2>1 DEF MetaFree
  <2> QED
    BY <1>6, <2>1, <2>2 DEF CircularWait
<1>7. CASE main.pc = "send"
  <2>1. main.tx \in Wids /\ Alive(main.tx)
    BY <1>3, <1>7 DEF MainCanMove, Typed, MainOK
  <2>2. worker[main.tx].pc = "offer"
    BY <1>1, <2>1 DEF Alive
  <2>3. Len(worker[main.tx].queue) >= Capacity
    <3>1. worker[main.tx].queue \in Seq(Caps)
      BY <2>1 DEF Typed, WorkersOK, WorkerTask
    <3> QED
      BY <1>3, <1>7, <3>1, ManagerAssumption DEF MainCanMove
  <2> QED
    BY <1>2, <1>7, <2>1, <2>2, <2>3 DEF CircularWait
<1>8. CASE main.pc = "select"
  <2>1. sellQ = <<>>
    BY <1>3, <1>8 DEF MainCanMove
  <2>2. \A w \in Wids : worker[w].pc # "offer"
    BY <1>0, <1>2, <2>1
  <2>3. \A m : MetaFree(m) /\ CreatedFree(m)
    BY <1>8, <2>2 DEF MetaFree, CreatedFree
  <2>4. ASSUME NEW w \in Wids PROVE ~Alive(w) /\ seller[w].pc \in {"none", "trying", "done"}
    <3>1. seller[w].pc \in SellerPc /\ ~SellerCanMove(w)
      BY DEF Typed, SellersOK, SellerTask, CanMove
    <3> QED
      BY <1>1, <2>2, <2>3, <3>1 DEF Alive, SellerCanMove, SellerPc
  <2>5. ASSUME NEW b \in Buys PROVE buyer[b].pc \in {"unborn", "wait", "done", "gone"}
    <3>1. buyer[b].pc \in BuyerPc /\ ~BuyerCanMove(b)
      BY DEF Typed, BuyersOK, BuyerTask, CanMove
    <3>2. buyer[b].pc \notin {"mark", "balance", "ensure"}
      BY <2>3, <3>1 DEF BuyerCanMove
    <3>3. buyer[b].pc # "insert"
      <4>1. ASSUME buyer[b].pc = "insert" PROVE FALSE
        <5>1. Hiring # {}
          BY <4>1 DEF Hiring
        <5>2. Cardinality(Hiring) > 0 /\ MainHires \in Nat
          BY <5>1, StaffFinite, FS_EmptySet DEF MainHires
        <5> QED
          BY <1>4, <3>1, <4>1, <5>2, StaffFinite DEF BuyerCanMove
      <4> QED
        BY <4>1
    <3> QED
      BY <3>1, <3>2, <3>3 DEF BuyerPc
  <2> QED
    BY <1>8, <2>1, <2>4, <2>5 DEF Settled
<1> QED
  BY <1>5, <1>6, <1>7, <1>8

\* The bot finishes what it has begun, without a new event or answer from
\* outside, unless it is in the one circular wait of the full sell channel.
THEOREM NobodyIsStuck == Spec => []StuckOnlyInCircularWait
<1>1. Init => Typed /\ Staffed
  BY InitTyped, StaffedInit
<1>2. Typed /\ Staffed /\ [Next]_vars => (Typed /\ Staffed)'
  BY StepTyped, StaffedStep
<1>3. Typed /\ Staffed => StuckOnlyInCircularWait
  BY StuckMeansCircularWait DEF StuckOnlyInCircularWait
<1> QED
  BY <1>1, <1>2, <1>3, PTL DEF Spec

\* In the circular wait the main loop, the sell channel and every worker that
\* holds a guard stay as they are, whatever the other tasks do.
LEMMA WaitStays == Typed /\ CircularWait /\ [Next]_vars => CircularWait'
<1> SUFFICES ASSUME Typed, CircularWait, [Next]_vars PROVE CircularWait'
  OBVIOUS
<1>0. /\ Len(sellQ) = SellCap /\ SellCap \in Nat \ {0}
      /\ main.pc \in {"register", "send"}
      /\ main.pc = "register" => ~MetaFree(main.mint)
      /\ main.pc = "send" => /\ main.tx \in Wids /\ worker[main.tx].pc = "offer"
                              /\ ~(Len(worker[main.tx].queue) < Capacity)
  <2>1. main.pc = "send" => main.tx \in Wids
    BY DEF Typed, MainOK
  <2>2. main.pc = "send" => Len(worker[main.tx].queue) \in Nat
    BY <2>1 DEF Typed, WorkersOK, WorkerTask
  <2> QED
    BY <2>1, <2>2, ManagerAssumption DEF CircularWait
<1>1. worker \in [Wids -> WorkerTask] /\ sellQ \in Seq(Order)
  BY DEF Typed, WorkersOK, QueueOK
<1>2. /\ UNCHANGED <<main, sellQ>>
      /\ \A w \in Wids : worker[w].pc = "offer" => worker'[w] = worker[w]
  <2>1. CASE UNCHANGED vars
    BY <2>1 DEF vars
  <2>2. ASSUME MainStep PROVE FALSE
    <3>1. ~RegisterMeta
      BY <1>0 DEF RegisterMeta
    <3>2. ~RouteSend
      BY <1>0 DEF RouteSend
    <3>3. ~RouteSendError
      BY <1>0 DEF RouteSendError, Alive
    <3> QED
      BY <1>0, <2>2, <3>1, <3>2, <3>3 DEF MainStep, TakeCreate, VetCreate, SpawnBuy,
         TakeTrade, RouteInsert, RouteEvict, TakeOrder
  <2>3. ASSUME NEW v \in Wids, WorkerStep(v) PROVE <1>2
    <3>1. ~WorkerOffer(v)
      BY <1>0 DEF WorkerOffer
    <3> QED
      BY <1>1, <2>3, <3>1 DEF WorkerStep, WorkerTrade, WorkerInactive, WorkerClosed, LeaveToSell
  <2>4. ASSUME NEW v \in Wids, SellStep(v) PROVE <1>2
    BY <2>4 DEF SellStep, SellTail, SellConfirmed, DeductBalance, ForgetWorker, DropMeta,
       PurgeCreated
  <2>5. ASSUME NEW b \in Buys, BuyAnswer(b) \/ BuyTail(b) PROVE <1>2
    <3>1. ASSUME NEW m, NEW v \in Wids, SpawnWorker(m, v)
          PROVE  \A w \in Wids : worker[w].pc = "offer" => worker'[w] = worker[w]
      BY <1>1, <3>1 DEF SpawnWorker, FreshWid
    <3> QED
      BY <2>5, <3>1 DEF BuyAnswer, BuyConfirmed, BuyConfirmedBlind, BuyAbandoned, BuyTail,
         BuyMark, UpdateBalance, BuyEnsure, BuyInsert
  <2>6. CASE Quiescent
    BY <2>6 DEF Quiescent, vars
  <2> QED
    BY <2>1, <2>2, <2>3, <2>4, <2>5, <2>6 DEF Next
<1>3. CASE main.pc = "register"
  BY <1>0, <1>2, <1>3 DEF CircularWait, MetaFree
<1>4. CASE main.pc = "send"
  <2>1. Len(worker[main.tx].queue) >= Capacity
    BY <1>4 DEF CircularWait
  <2> QED
    BY <1>0, <1>2, <1>4, <2>1 DEF CircularWait
<1> QED
  BY <1>0, <1>3, <1>4

\* The circular wait is a deadlock: no answer, timer or other task ends it.
THEOREM NothingEndsTheWait == Spec => CircularWaitIsFinal
<1>1. Init => Typed
  BY InitTyped
<1>2. Typed /\ [Next]_vars => Typed'
  BY StepTyped
<1>3. Typed /\ [Next]_vars => [CircularWait => CircularWait']_vars
  BY WaitStays
<1> QED
  BY <1>1, <1>2, <1>3, PTL DEF Spec, CircularWaitIsFinal

=============================================================================
