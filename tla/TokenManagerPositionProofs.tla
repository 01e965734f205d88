--------------------- MODULE TokenManagerPositionProofs ---------------------
(***************************************************************************)
(* What becomes of a position, for all constants: every behaviour of       *)
(* TokenManager is a behaviour of Position, and what is held has somebody  *)
(* who sells it.                                                           *)
(***************************************************************************)
EXTENDS TokenManagerProofs, TokenManagerPosition

(***************************************************************************)
(* What the mapping rests on besides the invariants of TokenManagerProofs: *)
(* a worker orders at most once, its order is in the channel or with its   *)
(* sell task but not with both, and a buy task writes what it was told.    *)
(***************************************************************************)
SellersHaveSold == \A w \in Wids : worker[w].pc # "sold" => seller[w].pc = "none"
QueuedHaveSold  == \A i \in 1..Len(sellQ) : /\ worker[sellQ[i].from].pc = "sold"
                                            /\ seller[sellQ[i].from].pc = "none"
QueuedOnce      == \A i, j \in 1..Len(sellQ) : sellQ[i].from = sellQ[j].from => i = j
GivenOnce       == SellersHaveSold /\ QueuedHaveSold /\ QueuedOnce

WritesReport == \A b \in Buys : buyer[b].pc \in {"mark", "balance"} => buyer[b].qty \in Qtys

LEMMA GivenInit == Init => GivenOnce /\ WritesReport
  BY DEF Init, GivenOnce, SellersHaveSold, QueuedHaveSold, QueuedOnce, WritesReport

\* Steps that touch neither the channel nor a sell task: "sold" is final.
LEMMA GivenKept ==
  ASSUME Typed, GivenOnce, UNCHANGED <<sellQ, seller>>,
         \A w \in Wids : worker[w].pc = "sold" => worker'[w].pc = "sold"
  PROVE  GivenOnce'
<1>1. \A i \in 1..Len(sellQ) : sellQ[i].from \in Wids
  <2> SUFFICES ASSUME NEW i \in 1..Len(sellQ) PROVE sellQ[i].from \in Wids
    OBVIOUS
  <2>1. sellQ[i] \in Order
    BY DEF Typed, QueueOK
  <2> QED
    BY <2>1 DEF Order
<1> QED
  BY <1>1 DEF GivenOnce, SellersHaveSold, QueuedHaveSold, QueuedOnce

\* Steps of a sell task that has begun and has not been undone.
LEMMA GivenSelling ==
  ASSUME Typed, GivenOnce, UNCHANGED <<sellQ, worker>>, NEW w \in Wids,
         seller[w].pc # "none", NEW pc, seller' = [seller EXCEPT ![w].pc = pc]
  PROVE  GivenOnce'
<1>1. \A v \in Wids : v # w => seller'[v] = seller[v]
  BY DEF Typed, SellersOK
<1>2. \A i \in 1..Len(sellQ) : sellQ[i].from \in Wids /\ sellQ[i].from # w
  <2> SUFFICES ASSUME NEW i \in 1..Len(sellQ)
               PROVE  sellQ[i].from \in Wids /\ sellQ[i].from # w
    OBVIOUS
  <2>1. sellQ[i] \in Order
    BY DEF Typed, QueueOK
  <2> QED
    BY <2>1 DEF Order, GivenOnce, QueuedHaveSold
<1>3. SellersHaveSold'
  BY <1>1 DEF GivenOnce, SellersHaveSold
<1>4. QueuedHaveSold' /\ QueuedOnce'
  BY <1>1, <1>2 DEF GivenOnce, QueuedHaveSold, QueuedOnce
<1> QED
  BY <1>3, <1>4 DEF GivenOnce

\* An order leaves the channel for the one sell task that has its name.
LEMMA GivenTaken == Typed /\ GivenOnce /\ TakeOrder => GivenOnce'
<1> SUFFICES ASSUME Typed, GivenOnce, TakeOrder PROVE GivenOnce'
  OBVIOUS
<1> DEFINE o == Head(sellQ)
<1>1. /\ sellQ \in Seq(Order) /\ sellQ # <<>> /\ sellQ' = Tail(sellQ)
      /\ UNCHANGED worker
      /\ seller' = [seller EXCEPT ![o.from] =
                      [pc |-> "trying", mint |-> o.mint, amount |-> o.amount]]
  BY DEF TakeOrder, Typed, QueueOK
<1>2. /\ 1 \in 1..Len(sellQ) /\ sellQ[1] = o
      /\ \A i \in 1..Len(sellQ') : i + 1 \in 1..Len(sellQ) /\ i + 1 # 1
                                     /\ sellQ'[i] = sellQ[i + 1]
  BY <1>1
<1>3. o.from \in Wids /\ worker[o.from].pc = "sold"
  <2>1. sellQ[1] \in Order
    BY <1>1, <1>2
  <2>2. worker[sellQ[1].from].pc = "sold"
    BY <1>2 DEF GivenOnce, QueuedHaveSold
  <2> QED
    BY <1>2, <2>1, <2>2 DEF Order
<1>4. \A v \in Wids : v # o.from => seller'[v] = seller[v]
  BY <1>1, <1>3 DEF Typed, SellersOK
<1>5. SellersHaveSold'
  BY <1>1, <1>3, <1>4 DEF GivenOnce, SellersHaveSold
<1>6. ASSUME NEW i \in 1..Len(sellQ') PROVE sellQ'[i].from \in Wids \ {o.from}
  <2>1. i + 1 \in 1..Len(sellQ) /\ i + 1 # 1 /\ sellQ'[i] = sellQ[i + 1]
    BY <1>2
  <2>2. sellQ[i + 1] \in Order
    BY <1>1, <2>1
  <2>3. sellQ[i + 1].from # sellQ[1].from
    BY <1>2, <2>1 DEF GivenOnce, QueuedOnce
  <2> QED
    BY <1>2, <2>1, <2>2, <2>3 DEF Order
<1>7. QueuedHaveSold'
  <2> SUFFICES ASSUME NEW i \in 1..Len(sellQ')
               PROVE  worker'[sellQ'[i].from].pc = "sold"
                        /\ seller'[sellQ'[i].from].pc = "none"
    BY DEF QueuedHaveSold
  <2>1. i + 1 \in 1..Len(sellQ) /\ sellQ'[i] = sellQ[i + 1]
    BY <1>2
  <2>2. worker[sellQ[i + 1].from].pc = "sold" /\ seller[sellQ[i + 1].from].pc = "none"
    BY <2>1 DEF GivenOnce, QueuedHaveSold
  <2> QED
    BY <1>1, <1>4, <1>6, <2>1, <2>2
<1>8. QueuedOnce'
  <2> SUFFICES ASSUME NEW i \in 1..Len(sellQ'), NEW j \in 1..Len(sellQ'),
                      sellQ'[i].from = sellQ'[j].from
               PROVE  i = j
    BY DEF QueuedOnce
  <2>1. i + 1 = j + 1
    BY <1>2 DEF GivenOnce, QueuedOnce
  <2> QED
    BY <2>1
<1> QED
  BY <1>5, <1>7, <1>8 DEF GivenOnce

\* A worker that offers has no order in the channel and no sell task yet.
LEMMA OffererIsNew ==
  ASSUME Typed, GivenOnce, NEW w \in Wids, worker[w].pc = "offer"
  PROVE  /\ seller[w].pc = "none"
         /\ \A i \in 1..Len(sellQ) : sellQ[i].from # w
  BY DEF GivenOnce, SellersHaveSold, QueuedHaveSold

LEMMA GivenOffered == \A w \in Wids : Typed /\ GivenOnce /\ WorkerOffer(w) => GivenOnce'
<1> SUFFICES ASSUME NEW w \in Wids, Typed, GivenOnce, WorkerOffer(w) PROVE GivenOnce'
  OBVIOUS
<1> DEFINE o == [mint |-> worker[w].mint, amount |-> worker[w].amount, from |-> w]
<1>1. /\ sellQ \in Seq(Order) /\ sellQ' = Append(sellQ, o) /\ UNCHANGED seller
      /\ worker[w].pc = "offer"
  BY DEF WorkerOffer, Typed, QueueOK
<1>2. \A v \in Wids : worker[v].pc = "sold" => worker'[v].pc = "sold"
  BY DEF WorkerOffer, Typed, WorkersOK, WorkerTask
<1>3. worker'[w].pc = "sold"
  BY DEF WorkerOffer, Typed, WorkersOK, WorkerTask
<1>4. /\ Len(sellQ) \in Nat /\ Len(sellQ') = Len(sellQ) + 1
      /\ \A i \in 1..Len(sellQ) : sellQ'[i] = sellQ[i] /\ sellQ[i].from \in Wids
      /\ sellQ'[Len(sellQ) + 1].from = w
  <2>1. \A i \in 1..Len(sellQ) : sellQ[i] \in Order
    BY <1>1
  <2> QED
    BY <1>1, <2>1 DEF Order
<1>5. seller[w].pc = "none" /\ \A i \in 1..Len(sellQ) : sellQ[i].from # w
  BY <1>1, OffererIsNew
<1>6. SellersHaveSold'
  BY <1>1, <1>2 DEF GivenOnce, SellersHaveSold
<1>7. QueuedHaveSold'
  BY <1>1, <1>2, <1>3, <1>4, <1>5 DEF GivenOnce, QueuedHaveSold
<1>8. QueuedOnce'
  BY <1>4, <1>5 DEF GivenOnce, QueuedOnce
<1> QED
  BY <1>6, <1>7, <1>8 DEF GivenOnce

\* Every step keeps the orders given once and the reports as they were made.
LEMMA GivenStep == Typed /\ GivenOnce /\ [Next]_vars => GivenOnce'
<1> SUFFICES ASSUME Typed, GivenOnce, [Next]_vars PROVE GivenOnce'
  OBVIOUS
<1>1. ASSUME UNCHANGED <<worker, sellQ, seller>> PROVE GivenOnce'
  BY <1>1, GivenKept
<1>2. ASSUME NEW m \in Mints, NEW w \in Wids, SpawnWorker(m, w),
             UNCHANGED <<sellQ, seller>>
      PROVE  GivenOnce'
  <2>1. \A v \in Wids : worker[v].pc = "sold" => worker'[v].pc = "sold"
    BY <1>2 DEF SpawnWorker, FreshWid, Typed, WorkersOK
  <2> QED
    BY <1>2, <2>1, GivenKept
<1>3. ASSUME RouteSend PROVE GivenOnce'
  <2>1. \A v \in Wids : worker[v].pc = "sold" => worker'[v].pc = "sold"
    BY <1>3 DEF RouteSend, Typed, WorkersOK, WorkerTask
  <2> QED
    BY <1>3, <2>1, GivenKept DEF RouteSend
<1>4. ASSUME NEW w \in Wids, WorkerTrade(w) \/ WorkerInactive(w) \/ WorkerClosed(w)
      PROVE  GivenOnce'
  <2>1. worker[w].pc = "select" /\ \A v \in Wids : v # w => worker'[v] = worker[v]
    BY <1>4 DEF WorkerTrade, WorkerInactive, WorkerClosed, LeaveToSell, Typed, WorkersOK
  <2>2. \A v \in Wids : worker[v].pc = "sold" => worker'[v].pc = "sold"
    BY <2>1
  <2> QED
    BY <1>4, <2>2, GivenKept DEF WorkerTrade, WorkerInactive, WorkerClosed
<1>5. ASSUME NEW w \in Wids, SellStep(w) PROVE GivenOnce'
  <2>1. \E pc : seller' = [seller EXCEPT ![w].pc = pc]
    BY <1>5 DEF SellStep, SellTail, SellConfirmed, DeductBalance, ForgetWorker, DropMeta,
       PurgeCreated
  <2>2. seller[w].pc # "none" /\ UNCHANGED <<sellQ, worker>>
    BY <1>5 DEF SellStep, SellTail, SellConfirmed, DeductBalance, ForgetWorker, DropMeta,
       PurgeCreated
  <2> QED
    BY <2>1, <2>2, GivenSelling
<1>6. ASSUME MainStep PROVE GivenOnce'
  <2>1. ASSUME RouteInsert PROVE GivenOnce'
    BY <1>2, <2>1 DEF RouteInsert, Typed, MainOK
  <2> QED
    BY <1>1, <1>3, <1>6, <2>1, GivenTaken DEF MainStep, TakeCreate, VetCreate,
       RegisterMeta, SpawnBuy, TakeTrade, RouteSendError, RouteEvict
<1>7. ASSUME NEW w \in Wids, WorkerStep(w) PROVE GivenOnce'
  BY <1>4, <1>7, GivenOffered DEF WorkerStep
<1>8. ASSUME NEW b \in Buys, BuyAnswer(b) \/ BuyTail(b) PROVE GivenOnce'
  <2>1. ASSUME BuyInsert(b) PROVE GivenOnce'
    BY <1>2, <2>1 DEF BuyInsert, Typed, BuyersOK
  <2> QED
    BY <1>1, <1>8, <2>1 DEF BuyAnswer, BuyTail, BuyConfirmed, BuyConfirmedBlind,
       BuyAbandoned, BuyMark, UpdateBalance, BuyEnsure
<1> QED
  BY <1>1, <1>5, <1>6, <1>7, <1>8 DEF Next, Quiescent, vars

LEMMA ReportStep == Typed /\ WritesReport /\ [Next]_vars => WritesReport'
<1> SUFFICES ASSUME Typed, WritesReport, [Next]_vars PROVE WritesReport'
  OBVIOUS
<1>1. buyer \in [Buys -> BuyerTask]
  BY DEF Typed, BuyersOK
<1>2. ASSUME UNCHANGED buyer PROVE WritesReport'
  BY <1>2 DEF WritesReport
<1>3. ASSUME SpawnBuy PROVE WritesReport'
  <2>1. PICK c \in Buys : buyer' = [buyer EXCEPT ![c].pc = "wait",
                                                 ![c].mint = main.mint]
    BY <1>3 DEF SpawnBuy
  <2> QED
    BY <1>1, <2>1 DEF WritesReport, BuyerTask
<1>4. ASSUME NEW c \in Buys, BuyAnswer(c) PROVE WritesReport'
  BY <1>1, <1>4 DEF WritesReport, BuyerTask, BuyAnswer, BuyConfirmed,
     BuyConfirmedBlind, BuyAbandoned
<1>5. ASSUME NEW c \in Buys, BuyTail(c) PROVE WritesReport'
  BY <1>1, <1>5 DEF WritesReport, BuyerTask, BuyTail, BuyMark, UpdateBalance,
     BuyEnsure, BuyInsert
<1>6. ASSUME MainStep PROVE WritesReport'
  BY <1>2, <1>3, <1>6 DEF MainStep, TakeCreate, VetCreate, RegisterMeta, TakeTrade,
     RouteInsert, RouteSend, RouteSendError, RouteEvict, TakeOrder
<1>7. ASSUME NEW w \in Wids, WorkerStep(w) \/ SellStep(w) PROVE WritesReport'
  BY <1>2, <1>7 DEF WorkerStep, WorkerTrade, WorkerInactive, WorkerClosed,
     WorkerOffer, SellStep, SellTail, SellConfirmed, DeductBalance, ForgetWorker, DropMeta,
     PurgeCreated
<1> QED
  BY <1>2, <1>4, <1>5, <1>6, <1>7 DEF Next, Quiescent, vars

-----------------------------------------------------------------------------
(***************************************************************************)
(* The refinement: each step of TokenManager is a step of Position or      *)
(* leaves the mapped variables alone.                                      *)
(***************************************************************************)
RefInv == Typed /\ OfferIsCurrent /\ HoldingInv /\ GivenOnce /\ WritesReport

\* The mapping of a sell task that moves from one of its phases to another.
LEMMA SaleMoves ==
  ASSUME Typed, NEW w \in Wids, NEW pc, seller' = [seller EXCEPT ![w].pc = pc]
  PROVE  Sale' = [Sale EXCEPT ![w].phase = Phase(pc)]
  BY DEF Typed, SellersOK, SellerTask, Sale

LEMMA InitMaps == Init => P!Init
  BY DEF Init, P!Init, Sale, Phase

LEMMA TakeOrderMaps == RefInv /\ TakeOrder => P!TakeUp
<1> SUFFICES ASSUME RefInv, TakeOrder PROVE P!TakeUp
  OBVIOUS
<1> DEFINE o == Head(sellQ)
<1>1. /\ sellQ \in Seq(Order) /\ sellQ # <<>> /\ sellQ' = Tail(sellQ)
      /\ UNCHANGED metas
      /\ seller' = [seller EXCEPT ![o.from] =
                      [pc |-> "trying", mint |-> o.mint, amount |-> o.amount]]
  BY DEF TakeOrder, RefInv, Typed, QueueOK
<1>2. o \in Order /\ o = sellQ[1] /\ 1 \in 1..Len(sellQ)
  BY <1>1
<1>3. o.from \in Wids /\ seller[o.from].pc = "none"
  BY <1>2 DEF Order, RefInv, GivenOnce, QueuedHaveSold
<1>4. Sale[o.from].phase = "none"
  BY <1>3 DEF Sale, Phase
<1>5. Sale' = [Sale EXCEPT ![o.from] =
                 [phase |-> "running", mint |-> o.mint, amount |-> o.amount]]
  <2>1. seller \in [Wids -> SellerTask]
    BY DEF RefInv, Typed, SellersOK
  <2> HIDE DEF o
  <2> QED
    BY <1>1, <1>3, <2>1 DEF Sale, Phase
<1> QED
  BY <1>1, <1>4, <1>5 DEF P!TakeUp

LEMMA OfferMaps ==
  \A w \in Wids : RefInv /\ WorkerOffer(w) => \E m \in Mints : P!Give(m, w)
<1> SUFFICES ASSUME NEW w \in Wids, RefInv, WorkerOffer(w)
             PROVE  \E m \in Mints : P!Give(m, w)
  OBVIOUS
<1> DEFINE m == worker[w].mint
<1>1. worker[w].pc = "offer" /\ m \in Mints
  BY DEF WorkerOffer, RefInv, Typed, WorkersOK
<1>2. metas[m] = worker[w].amount /\ worker[w].amount \in Nat /\ worker[w].amount > 0
  BY <1>1 DEF RefInv, OfferIsCurrent, HoldingInv, OffersBacked, Backed
<1>3. metas[m] \notin {None, 0}
  BY <1>2, ManagerAssumption
<1>4. seller[w].pc = "none" /\ \A i \in 1..Len(sellQ) : sellQ[i].from # w
  BY <1>1, OffererIsNew DEF RefInv
<1>5. Sale[w].phase = "none"
  BY <1>4 DEF Sale, Phase
<1>6. /\ sellQ' = Append(sellQ, [mint |-> m, amount |-> metas[m], from |-> w])
      /\ UNCHANGED <<metas, seller>>
  BY <1>2 DEF WorkerOffer
<1>7. UNCHANGED Sale
  BY <1>6 DEF Sale
<1> HIDE DEF m
<1>8. P!Give(m, w)
  BY <1>3, <1>4, <1>5, <1>6, <1>7 DEF P!Give
<1> QED
  BY <1>1, <1>8

LEMMA SellMaps ==
  \A w \in Wids : RefInv /\ SellStep(w) =>
    P!Settle(w) \/ P!Forget(w) \/ UNCHANGED <<metas, sellQ, Sale>>
<1> SUFFICES ASSUME NEW w \in Wids, RefInv, SellStep(w)
             PROVE  P!Settle(w) \/ P!Forget(w) \/ UNCHANGED <<metas, sellQ, Sale>>
  OBVIOUS
<1>1. /\ Sale[w].phase = Phase(seller[w].pc) /\ Sale[w].mint = seller[w].mint
      /\ Sale = [Sale EXCEPT ![w].phase = Phase(seller[w].pc)]
  BY DEF Sale
<1>2. /\ Phase("trying") = "running" /\ Phase("deduct") = "running"
      /\ Phase("forget") = "settled" /\ Phase("drop") = "settled"
      /\ Phase("purge") = "closed" /\ Phase("done") = "closed"
  BY DEF Phase
<1>3. \A pc : seller' = [seller EXCEPT ![w].pc = pc]
               => Sale' = [Sale EXCEPT ![w].phase = Phase(pc)]
  BY SaleMoves DEF RefInv
<1>4. CASE SellConfirmed(w)
  <2>1. Sale' = [Sale EXCEPT ![w].phase = Phase("deduct")]
    BY <1>3, <1>4 DEF SellConfirmed
  <2>2. Phase(seller[w].pc) = Phase("deduct")
    BY <1>2, <1>4 DEF SellConfirmed
  <2> QED
    BY <1>1, <1>4, <2>1, <2>2 DEF SellConfirmed
<1>5. CASE DeductBalance(w)
  <2>1. Sale' = [Sale EXCEPT ![w].phase = Phase("forget")]
    BY <1>3, <1>5 DEF DeductBalance
  <2>2. Sale[w].phase = "running" /\ Sale[w].mint = seller[w].mint
    BY <1>1, <1>2, <1>5 DEF DeductBalance
  <2>3. metas' = [metas EXCEPT ![Sale[w].mint] = IF @ = None THEN None ELSE 0]
    BY <1>5, <2>2 DEF DeductBalance
  <2> QED
    BY <1>2, <1>5, <2>1, <2>2, <2>3 DEF DeductBalance, P!Settle
<1>6. CASE ForgetWorker(w)
  <2>1. Sale' = [Sale EXCEPT ![w].phase = Phase("drop")]
    BY <1>3, <1>6 DEF ForgetWorker
  <2>2. Phase(seller[w].pc) = Phase("drop")
    BY <1>2, <1>6 DEF ForgetWorker
  <2> QED
    BY <1>1, <1>6, <2>1, <2>2 DEF ForgetWorker
<1>7. CASE DropMeta(w)
  <2>1. Sale' = [Sale EXCEPT ![w].phase = Phase("purge")]
    BY <1>3, <1>7 DEF DropMeta
  <2>2. Sale[w].phase = "settled" /\ Sale[w].mint = seller[w].mint
    BY <1>1, <1>2, <1>7 DEF DropMeta
  <2>3. metas' = [metas EXCEPT ![Sale[w].mint] = None]
    BY <1>7, <2>2 DEF DropMeta
  <2> QED
    BY <1>2, <1>7, <2>1, <2>2, <2>3 DEF DropMeta, P!Forget
<1>8. CASE PurgeCreated(w)
  <2>1. Sale' = [Sale EXCEPT ![w].phase = Phase("done")]
    BY <1>3, <1>8 DEF PurgeCreated
  <2>2. Phase(seller[w].pc) = Phase("done")
    BY <1>2, <1>8 DEF PurgeCreated
  <2> QED
    BY <1>1, <1>8, <2>1, <2>2 DEF PurgeCreated
<1> QED
  BY <1>4, <1>5, <1>6, <1>7, <1>8 DEF SellStep, SellTail

LEMMA BuyMaps ==
  \A b \in Buys : RefInv /\ UpdateBalance(b) =>
    (\E m \in Mints, q \in Qtys : P!Record(m, q)) \/ UNCHANGED <<metas, sellQ, Sale>>
<1> SUFFICES ASSUME NEW b \in Buys, RefInv, UpdateBalance(b)
             PROVE  \/ \E m \in Mints, q \in Qtys : P!Record(m, q)
                    \/ UNCHANGED <<metas, sellQ, Sale>>
  OBVIOUS
<1> DEFINE m == buyer[b].mint
           q == buyer[b].qty
<1>1. m \in Mints /\ q \in Qtys
  BY DEF UpdateBalance, RefInv, Typed, BuyersOK, WritesReport
<1>2. UNCHANGED <<sellQ, Sale>>
  BY DEF UpdateBalance, Sale
<1>3. metas' = [metas EXCEPT ![m] = IF @ = None THEN @ ELSE q]
  BY DEF UpdateBalance
<1>4. metas \in [Mints -> Nat \cup {None}]
  BY DEF RefInv, Typed, MapsOK
<1> HIDE DEF m, q
<1>5. CASE metas[m] = None
  <2>1. metas' = metas
    BY <1>3, <1>4, <1>5
  <2> QED
    BY <1>2, <2>1
<1>6. CASE metas[m] # None
  <2>1. metas' = [metas EXCEPT ![m] = q]
    BY <1>3, <1>6
  <2>2. P!Record(m, q)
    BY <1>2, <1>6, <2>1 DEF P!Record
  <2> QED
    BY <1>1, <2>2
<1> QED
  BY <1>5, <1>6

LEMMA StepMaps == RefInv /\ [Next]_vars => [P!Next]_<<metas, sellQ, Sale>>
<1> SUFFICES ASSUME RefInv, [Next]_vars PROVE [P!Next]_<<metas, sellQ, Sale>>
  OBVIOUS
<1>1. ASSUME UNCHANGED <<metas, sellQ, seller>> PROVE UNCHANGED <<metas, sellQ, Sale>>
  BY <1>1 DEF Sale
<1>2. ASSUME RegisterMeta PROVE P!Next
  <2>1. main.mint \in Mints
    BY <1>2 DEF RegisterMeta, RefInv, Typed, MainOK
  <2>2. P!Track(main.mint)
    BY <1>2 DEF RegisterMeta, P!Track, Sale
  <2> QED
    BY <2>1, <2>2 DEF P!Next
<1>3. ASSUME MainStep PROVE [P!Next]_<<metas, sellQ, Sale>>
  <2>1. CASE TakeOrder
    BY <2>1, TakeOrderMaps DEF P!Next
  <2>2. CASE ~TakeOrder /\ ~RegisterMeta
    BY <1>1, <1>3, <2>2 DEF MainStep, TakeCreate, VetCreate, SpawnBuy, TakeTrade,
       RouteInsert, RouteSend, RouteSendError, RouteEvict
  <2> QED
    BY <1>2, <2>1, <2>2
<1>4. ASSUME NEW w \in Wids, WorkerStep(w) PROVE [P!Next]_<<metas, sellQ, Sale>>
  <2>1. CASE WorkerOffer(w)
    BY <2>1, OfferMaps DEF P!Next
  <2>2. CASE ~WorkerOffer(w)
    BY <1>1, <1>4, <2>2 DEF WorkerStep, WorkerTrade, WorkerInactive, WorkerClosed
  <2> QED
    BY <2>1, <2>2
<1>5. ASSUME NEW w \in Wids, SellStep(w) PROVE [P!Next]_<<metas, sellQ, Sale>>
  BY <1>5, SellMaps DEF P!Next
<1>6. ASSUME NEW b \in Buys, BuyAnswer(b) \/ BuyTail(b)
      PROVE  [P!Next]_<<metas, sellQ, Sale>>
  <2>1. CASE UpdateBalance(b)
    BY <2>1, BuyMaps DEF P!Next
  <2>2. CASE ~UpdateBalance(b)
    BY <1>1, <1>6, <2>2 DEF BuyAnswer, BuyTail, BuyConfirmed, BuyConfirmedBlind,
       BuyAbandoned, BuyMark, BuyEnsure, BuyInsert
  <2> QED
    BY <2>1, <2>2
<1> QED
  BY <1>1, <1>3, <1>4, <1>5, <1>6 DEF Next, Quiescent, vars

\* The manager with its locks, workers and channels keeps the promise of
\* Position: what a worker read before it waited for the sell channel is still
\* the holding when its order goes in, and each order is sold once.
THEOREM Implementation == Spec => ImplementsPosition
<1>1. Init => RefInv
  BY InitTyped, OfferInit, HoldingInit, GivenInit DEF RefInv
<1>2. RefInv /\ [Next]_vars => RefInv'
  BY StepTyped, OfferStep, HoldingStep, GivenStep, ReportStep DEF RefInv
<1> QED
  BY <1>1, <1>2, InitMaps, StepMaps, PTL
  DEF Spec, ImplementsPosition, P!Spec, P!vars

-----------------------------------------------------------------------------
(***************************************************************************)
(* Who sells a position: TokenManager loses one only in the two ways that  *)
(* UnwatchedOnlyAfterBroke names.                                          *)
(***************************************************************************)
(***************************************************************************)
(* What a registered Sender says about its worker, and what a worker that  *)
(* has sold leaves behind.                                                 *)
(***************************************************************************)
\* A Sender is that of a worker of the mint, which has not left for want of one.
SenderOf(w, m) == worker[w].mint = m /\ worker[w].pc \notin {"unborn", "closed"}

SendersOK ==
  /\ \A m \in Mints : workers[m] # None => SenderOf(workers[m], m)
  /\ main.tx # None => main.pc \in {"send", "evict"} /\ SenderOf(main.tx, main.mint)
  /\ main.pc = "evict" => ~Alive(main.tx)

\* An order and its sell task are for the mint of the worker that gave it.
OrdersOK ==
  /\ \A i \in 1..Len(sellQ) : sellQ[i].mint = worker[sellQ[i].from].mint
  /\ \A w \in Wids : seller[w].pc # "none" => seller[w].mint = worker[w].mint

\* The order of a worker whose Sender is still registered has not been carried
\* out to the removal of that Sender.
Unforgotten(w) == Queued(w) \/ seller[w].pc \in {"trying", "deduct", "forget"}

SoldOK ==
  /\ \A m \in Mints : workers[m] # None /\ worker[workers[m]].pc = "sold"
                        => Unforgotten(workers[m])
  /\ main.tx # None /\ worker[main.tx].pc = "sold"
       => \/ Unforgotten(main.tx)
          \/ seller[main.tx].pc = "drop"
          \/ metas[main.mint] = None

\* Somebody will sell what is held of m, or has given up, or clears it.
Guarded(m) == Watched(m) \/ Clearing(m) \/ GaveUp(m, {"broke", "idle"})

WatchInv == SendersOK /\ OrdersOK /\ SoldOK /\ UnwatchedOnlyAfterBroke

(***************************************************************************)
(* What one step may do to a worker, a sell task, an order and a Sender.   *)
(***************************************************************************)
WorkerMoves(w) ==
  /\ worker[w].pc # "unborn" => worker'[w].mint = worker[w].mint
  /\ worker[w].pc = "unborn" => worker'[w].pc \in {"unborn", "select"}
  /\ worker[w].pc = "select" =>
       worker'[w].pc \in {"select", "offer", "broke", "idle", "closed"}
  /\ worker[w].pc = "offer" => worker'[w].pc \in {"offer", "sold"}
  /\ worker[w].pc \in {"sold", "broke", "idle", "closed"} => worker'[w].pc = worker[w].pc
  /\ worker'[w].pc = "closed" => worker[w].pc = "closed" \/ SendersGone(w)

LEMMA WorkerStays ==
  ASSUME NEW w \in Wids, worker'[w] = worker[w], Typed
  PROVE  WorkerMoves(w)
  BY DEF WorkerMoves, Typed, WorkersOK, WorkerTask, WorkerPc

LEMMA WorkerStepMoves ==
  ASSUME Typed, NEW v \in Wids, WorkerStep(v), NEW w \in Wids
  PROVE  WorkerMoves(w)
<1>1. worker[v] \in WorkerTask /\ worker \in [Wids -> WorkerTask]
  BY DEF Typed, WorkersOK
<1>2. worker[v].pc \in {"select", "offer"} /\ \A u \in Wids : u # v => worker'[u] = worker[u]
  BY <1>1 DEF WorkerStep, WorkerTrade, WorkerInactive, WorkerClosed, WorkerOffer, LeaveToSell
<1>3. worker'[v].mint = worker[v].mint
  BY <1>1 DEF WorkerStep, WorkerTrade, WorkerInactive, WorkerClosed, WorkerOffer,
     LeaveToSell, WorkerTask
<1>4. CASE WorkerTrade(v) \/ WorkerInactive(v)
  <2>1. /\ worker[v].pc = "select"
        /\ worker'[v].pc \in {"select", "offer", "broke", "idle"}
    BY <1>1, <1>4 DEF WorkerTrade, WorkerInactive, LeaveToSell, WorkerTask
  <2> QED
    BY <1>2, <1>3, <2>1, WorkerStays DEF WorkerMoves
<1>5. CASE WorkerClosed(v)
  <2>1. worker[v].pc = "select" /\ worker'[v].pc = "closed" /\ SendersGone(v)
    BY <1>1, <1>5 DEF WorkerClosed, WorkerTask
  <2> QED
    BY <1>2, <1>3, <2>1, WorkerStays DEF WorkerMoves
<1>6. CASE WorkerOffer(v)
  <2>1. worker[v].pc = "offer" /\ worker'[v].pc = "sold"
    BY <1>1, <1>6 DEF WorkerOffer, WorkerTask
  <2> QED
    BY <1>2, <1>3, <2>1, WorkerStays DEF WorkerMoves
<1> QED
  BY <1>4, <1>5, <1>6 DEF WorkerStep

LEMMA SpawnMoves ==
  ASSUME Typed, NEW m \in Mints, NEW v \in Wids, SpawnWorker(m, v), NEW w \in Wids
  PROVE  WorkerMoves(w)
<1>1. worker[v].pc = "unborn" /\ worker'[v].pc = "select"
  BY DEF SpawnWorker, FreshWid, Typed, WorkersOK
<1>2. w # v => worker'[w] = worker[w]
  BY DEF SpawnWorker, Typed, WorkersOK
<1> QED
  BY <1>1, <1>2, WorkerStays DEF WorkerMoves

LEMMA WorkersMove == Typed /\ [Next]_vars => \A w \in Wids : WorkerMoves(w)
<1> SUFFICES ASSUME Typed, [Next]_vars, NEW w \in Wids PROVE WorkerMoves(w)
  OBVIOUS
<1>1. ASSUME UNCHANGED worker PROVE WorkerMoves(w)
  BY <1>1, WorkerStays
<1>2. ASSUME RouteInsert PROVE WorkerMoves(w)
  BY <1>2, SpawnMoves DEF RouteInsert, Typed, MainOK
<1>3. ASSUME RouteSend PROVE WorkerMoves(w)
  <2>1. worker'[w].pc = worker[w].pc /\ worker'[w].mint = worker[w].mint
    BY <1>3 DEF RouteSend, Typed, WorkersOK, WorkerTask
  <2>2. worker[w].pc \in WorkerPc
    BY DEF Typed, WorkersOK, WorkerTask
  <2> QED
    BY <2>1, <2>2 DEF WorkerMoves, WorkerPc
<1>4. ASSUME NEW b \in Buys, BuyInsert(b) PROVE WorkerMoves(w)
  BY <1>4, SpawnMoves DEF BuyInsert, Typed, BuyersOK
<1>5. ASSUME MainStep PROVE WorkerMoves(w)
  BY <1>1, <1>2, <1>3, <1>5 DEF MainStep, TakeCreate, VetCreate, RegisterMeta, SpawnBuy,
     TakeTrade, RouteSendError, RouteEvict, TakeOrder
<1>6. ASSUME NEW v \in Wids, WorkerStep(v) \/ SellStep(v) PROVE WorkerMoves(w)
  BY <1>1, <1>6, WorkerStepMoves DEF SellStep, SellTail, SellConfirmed, DeductBalance, ForgetWorker,
     DropMeta, PurgeCreated
<1>7. ASSUME NEW b \in Buys, BuyAnswer(b) \/ BuyTail(b) PROVE WorkerMoves(w)
  BY <1>1, <1>4, <1>7 DEF BuyAnswer, BuyTail, BuyConfirmed, BuyConfirmedBlind,
     BuyAbandoned, BuyMark, UpdateBalance, BuyEnsure
<1> QED
  BY <1>1, <1>5, <1>6, <1>7 DEF Next, Quiescent, vars

SellerMoves(w) ==
  \/ seller'[w] = seller[w]
  \/ seller[w].pc = "none" /\ seller'[w].pc = "trying" /\ seller'[w].mint = worker[w].mint
  \/ /\ seller'[w].mint = seller[w].mint
     /\ \/ seller[w].pc = "trying" /\ seller'[w].pc = "deduct"
        \/ seller[w].pc = "deduct" /\ seller'[w].pc = "forget"
        \/ /\ seller[w].pc = "forget" /\ seller'[w].pc = "drop"
           /\ workers'[seller[w].mint] = None
        \/ /\ seller[w].pc = "drop" /\ seller'[w].pc = "purge"
           /\ metas'[seller[w].mint] = None
        \/ seller[w].pc = "purge" /\ seller'[w].pc = "done"

\* An order that leaves the channel becomes the sell task of its worker.
LEMMA TakeOrderMoves ==
  ASSUME Typed, GivenOnce, OrdersOK, TakeOrder
  PROVE  /\ \A w \in Wids : SellerMoves(w)
         /\ \A w \in Wids : Queued(w) => Queued(w)' \/ seller'[w].pc = "trying"
         /\ \A i \in 1..Len(sellQ') : i + 1 \in 1..Len(sellQ) /\ sellQ'[i] = sellQ[i + 1]
<1> DEFINE o == Head(sellQ)
<1>1. /\ sellQ \in Seq(Order) /\ sellQ # <<>> /\ sellQ' = Tail(sellQ)
      /\ seller' = [seller EXCEPT ![o.from] =
                      [pc |-> "trying", mint |-> o.mint, amount |-> o.amount]]
      /\ seller \in [Wids -> SellerTask]
  BY DEF TakeOrder, Typed, QueueOK, SellersOK
<1>2. /\ 1 \in 1..Len(sellQ) /\ sellQ[1] = o /\ Len(sellQ) \in Nat
      /\ Len(sellQ') = Len(sellQ) - 1
      /\ \A i \in 1..Len(sellQ') : i + 1 \in 1..Len(sellQ) /\ sellQ'[i] = sellQ[i + 1]
  BY <1>1
<1>3. o.from \in Wids /\ o.mint = worker[o.from].mint /\ seller[o.from].pc = "none"
  <2>1. o \in Order
    BY <1>1
  <2> QED
    BY <1>2, <2>1 DEF Order, OrdersOK, GivenOnce, QueuedHaveSold
<1>4. seller'[o.from] = [pc |-> "trying", mint |-> o.mint, amount |-> o.amount]
      /\ \A w \in Wids : w # o.from => seller'[w] = seller[w]
  BY <1>1, <1>3
<1>5. ASSUME NEW w \in Wids PROVE SellerMoves(w)
  <2>1. CASE w = o.from
    BY <1>3, <1>4, <2>1 DEF SellerMoves
  <2>2. CASE w # o.from
    BY <1>4, <2>2 DEF SellerMoves
  <2> QED
    BY <2>1, <2>2
<1>6. ASSUME NEW w \in Wids, Queued(w) PROVE Queued(w)' \/ seller'[w].pc = "trying"
  <2>1. PICK i \in 1..Len(sellQ) : sellQ[i].from = w
    BY <1>6 DEF Queued
  <2>2. CASE i = 1
    BY <1>2, <1>4, <2>1, <2>2
  <2>3. CASE i # 1
    <3>1. i - 1 \in 1..Len(sellQ') /\ (i - 1) + 1 = i
      BY <1>2, <2>3
    <3>2. sellQ'[i - 1] = sellQ[i]
      BY <1>2, <3>1
    <3> QED
      BY <2>1, <3>1, <3>2 DEF Queued
  <2> QED
    BY <2>2, <2>3
<1> QED
  BY <1>2, <1>5, <1>6

LEMMA OfferQueues ==
  ASSUME Typed, NEW v \in Wids, WorkerOffer(v)
  PROVE  /\ \A i \in 1..Len(sellQ) : i \in 1..Len(sellQ') /\ sellQ'[i] = sellQ[i]
         /\ \A i \in 1..Len(sellQ') : \/ i \in 1..Len(sellQ) /\ sellQ'[i] = sellQ[i]
                                      \/ sellQ'[i].mint = worker[v].mint /\ sellQ'[i].from = v
         /\ Len(sellQ') \in 1..Len(sellQ') /\ sellQ'[Len(sellQ')].mint = worker[v].mint
         /\ sellQ'[Len(sellQ')].from = v
<1> DEFINE o == [mint |-> worker[v].mint, amount |-> worker[v].amount, from |-> v]
<1>1. sellQ \in Seq(Order) /\ sellQ' = Append(sellQ, o)
  BY DEF WorkerOffer, Typed, QueueOK
<1>2. o.mint = worker[v].mint /\ o.from = v
  OBVIOUS
<1> HIDE DEF o
<1>3. /\ Len(sellQ) \in Nat /\ Len(sellQ') = Len(sellQ) + 1
      /\ \A i \in 1..Len(sellQ) : sellQ'[i] = sellQ[i]
      /\ sellQ'[Len(sellQ) + 1] = o
  BY <1>1
<1> QED
  BY <1>2, <1>3

LEMMA SellStepMoves ==
  ASSUME Typed, NEW v \in Wids, SellStep(v), NEW w \in Wids
  PROVE  SellerMoves(w)
<1>1. seller \in [Wids -> SellerTask] /\ seller[v] \in SellerTask
  BY DEF Typed, SellersOK
<1>2. \A u \in Wids : u # v => seller'[u] = seller[u]
  BY <1>1 DEF SellStep, SellTail, SellConfirmed, DeductBalance, ForgetWorker, DropMeta, PurgeCreated
<1>3. seller'[v].mint = seller[v].mint
  BY <1>1 DEF SellStep, SellTail, SellConfirmed, DeductBalance, ForgetWorker, DropMeta,
     PurgeCreated,
     SellerTask
<1>4. seller[v].pc # "none" => seller[v].mint \in Mints
  BY DEF Typed, SellersOK
<1>5. ForgetWorker(v) => workers'[seller[v].mint] = None
  BY <1>4 DEF ForgetWorker, Typed, MapsOK
<1>6. DropMeta(v) => metas'[seller[v].mint] = None
  BY <1>4 DEF DropMeta, Typed, MapsOK
<1>7. /\ SellConfirmed(v) => seller[v].pc = "trying" /\ seller'[v].pc = "deduct"
      /\ DeductBalance(v) => seller[v].pc = "deduct" /\ seller'[v].pc = "forget"
      /\ ForgetWorker(v) => seller[v].pc = "forget" /\ seller'[v].pc = "drop"
      /\ DropMeta(v) => seller[v].pc = "drop" /\ seller'[v].pc = "purge"
      /\ PurgeCreated(v) => seller[v].pc = "purge" /\ seller'[v].pc = "done"
  BY <1>1 DEF SellConfirmed, DeductBalance, ForgetWorker, DropMeta, PurgeCreated, SellerTask
<1> QED
  BY <1>2, <1>3, <1>5, <1>6, <1>7 DEF SellStep, SellTail, SellerMoves

LEMMA SellersMove == Typed /\ GivenOnce /\ OrdersOK /\ [Next]_vars => \A w \in Wids : SellerMoves(w)
<1> SUFFICES ASSUME Typed, GivenOnce, OrdersOK, [Next]_vars, NEW w \in Wids
             PROVE  SellerMoves(w)
  OBVIOUS
<1>1. ASSUME UNCHANGED seller PROVE SellerMoves(w)
  BY <1>1 DEF SellerMoves
<1>2. ASSUME MainStep PROVE SellerMoves(w)
  BY <1>1, <1>2, TakeOrderMoves DEF MainStep, TakeCreate, VetCreate, RegisterMeta, SpawnBuy,
     TakeTrade, RouteInsert, RouteSend, RouteSendError, RouteEvict
<1>3. ASSUME NEW v \in Wids, WorkerStep(v) \/ SellStep(v) PROVE SellerMoves(w)
  BY <1>1, <1>3, SellStepMoves DEF WorkerStep, WorkerTrade, WorkerInactive, WorkerClosed,
     WorkerOffer
<1>4. ASSUME NEW b \in Buys, BuyAnswer(b) \/ BuyTail(b) PROVE SellerMoves(w)
  BY <1>1, <1>4 DEF BuyAnswer, BuyTail, BuyConfirmed, BuyConfirmedBlind, BuyAbandoned,
     BuyMark, UpdateBalance, BuyEnsure, BuyInsert
<1> QED
  BY <1>1, <1>2, <1>3, <1>4 DEF Next, Quiescent, vars

\* Either the channel is left alone, or its head is taken, or a worker adds to it.
LEMMA QueueMoves ==
  ASSUME Typed, [Next]_vars
  PROVE  \/ /\ UNCHANGED sellQ
            /\ \A w \in Wids : worker'[w].pc = "sold" => worker[w].pc = "sold"
         \/ TakeOrder /\ UNCHANGED worker
         \/ \E v \in Wids : WorkerOffer(v)
<1> DEFINE NoneSold == \A w \in Wids : worker'[w].pc = "sold" => worker[w].pc = "sold"
<1>1. ASSUME UNCHANGED worker PROVE NoneSold
  BY <1>1
<1>2. ASSUME NEW m \in Mints, NEW v \in Wids, SpawnWorker(m, v) PROVE NoneSold
  BY <1>2 DEF SpawnWorker, Typed, WorkersOK
<1>3. ASSUME RouteSend PROVE NoneSold
  BY <1>3 DEF RouteSend, Typed, WorkersOK, WorkerTask
<1>4. ASSUME NEW v \in Wids, WorkerTrade(v) \/ WorkerInactive(v) \/ WorkerClosed(v)
      PROVE  NoneSold
  <2>1. worker[v] \in WorkerTask /\ worker[v].pc = "select"
        /\ \A u \in Wids : u # v => worker'[u] = worker[u]
    BY <1>4 DEF WorkerTrade, WorkerInactive, WorkerClosed, LeaveToSell, Typed, WorkersOK
  <2>2. WorkerMoves(v)
    BY <1>4, WorkerStepMoves DEF WorkerStep
  <2>3. worker'[v].pc # "sold"
    BY <2>1, <2>2 DEF WorkerMoves
  <2> QED
    BY <2>1, <2>3
<1> HIDE DEF NoneSold
<1>5. ASSUME MainStep
      PROVE  (UNCHANGED sellQ /\ NoneSold) \/ (TakeOrder /\ UNCHANGED worker)
  <2>1. ASSUME RouteInsert PROVE UNCHANGED sellQ /\ NoneSold
    BY <1>2, <2>1 DEF RouteInsert, Typed, MainOK
  <2>2. ASSUME TakeOrder PROVE UNCHANGED worker
    BY <2>2 DEF TakeOrder
  <2>3. ASSUME UNCHANGED <<worker, sellQ>> PROVE UNCHANGED sellQ /\ NoneSold
    BY <1>1, <2>3
  <2>4. ASSUME RouteSend PROVE UNCHANGED sellQ
    BY <2>4 DEF RouteSend
  <2> QED
    BY <1>3, <1>5, <2>1, <2>2, <2>3, <2>4 DEF MainStep, TakeCreate, VetCreate,
       RegisterMeta, SpawnBuy, TakeTrade, RouteSendError, RouteEvict
<1>6. ASSUME NEW v \in Wids, WorkerStep(v) \/ SellStep(v)
      PROVE  (UNCHANGED sellQ /\ NoneSold) \/ WorkerOffer(v)
  BY <1>1, <1>4, <1>6 DEF WorkerStep, WorkerTrade, WorkerInactive, WorkerClosed, SellStep, SellTail,
     SellConfirmed, DeductBalance, ForgetWorker, DropMeta, PurgeCreated
<1>7. ASSUME NEW b \in Buys, BuyAnswer(b) \/ BuyTail(b) PROVE UNCHANGED sellQ /\ NoneSold
  BY <1>1, <1>2, <1>7 DEF BuyAnswer, BuyTail, BuyConfirmed, BuyConfirmedBlind, BuyAbandoned,
     BuyMark, UpdateBalance, BuyEnsure, BuyInsert, Typed, BuyersOK
<1> QED
  BY <1>1, <1>5, <1>6, <1>7 DEF Next, Quiescent, vars, NoneSold

\* An order stays in the channel until its sell task has begun; who has newly
\* sold has an order there.
LEMMA QueueKept ==
  ASSUME Typed, GivenOnce, OrdersOK, [Next]_vars, NEW w \in Wids
  PROVE  /\ Queued(w) => Queued(w)' \/ seller'[w].pc = "trying"
         /\ worker'[w].pc = "sold" /\ worker[w].pc # "sold" => Queued(w)'
<1>1. ASSUME NEW v \in Wids, WorkerOffer(v)
      PROVE  /\ Queued(w) => Queued(w)'
             /\ worker'[w].pc = "sold" /\ worker[w].pc # "sold" => Queued(w)'
  <2>1. Queued(v)'
    BY <1>1, OfferQueues DEF Queued
  <2>2. Queued(w) => Queued(w)'
    BY <1>1, OfferQueues DEF Queued
  <2>3. w # v => worker'[w] = worker[w]
    BY <1>1 DEF WorkerOffer, Typed, WorkersOK
  <2> QED
    BY <2>1, <2>2, <2>3
<1>2. UNCHANGED sellQ => (Queued(w) => Queued(w)')
  BY DEF Queued
<1> QED
  BY <1>1, <1>2, QueueMoves, TakeOrderMoves

\* A sell task begins in no other step than that which takes its order.
LEMMA OnlyTakeOrder ==
  ASSUME Typed, [Next]_vars, NEW w \in Wids, seller[w].pc = "none", seller'[w].pc # "none"
  PROVE  TakeOrder /\ worker' = worker
<1>1. seller'[w] # seller[w]
  OBVIOUS
<1>2. ASSUME NEW v \in Wids, SellStep(v) PROVE FALSE
  BY <1>1, <1>2 DEF SellStep, SellTail, SellConfirmed, DeductBalance, ForgetWorker, DropMeta,
     PurgeCreated, Typed, SellersOK
<1>3. ASSUME NEW v \in Wids, WorkerStep(v) PROVE FALSE
  BY <1>1, <1>3 DEF WorkerStep, WorkerTrade, WorkerInactive, WorkerClosed, WorkerOffer
<1>4. ASSUME NEW b \in Buys, BuyAnswer(b) \/ BuyTail(b) PROVE FALSE
  BY <1>1, <1>4 DEF BuyAnswer, BuyTail, BuyConfirmed, BuyConfirmedBlind, BuyAbandoned,
     BuyMark, UpdateBalance, BuyEnsure, BuyInsert
<1>5. ASSUME MainStep PROVE TakeOrder /\ worker' = worker
  BY <1>1, <1>5 DEF MainStep, TakeCreate, VetCreate, RegisterMeta, SpawnBuy, TakeTrade,
     RouteInsert, RouteSend, RouteSendError, RouteEvict, TakeOrder
<1> QED
  BY <1>1, <1>2, <1>3, <1>4, <1>5 DEF Next, Quiescent, vars

LEMMA OrdersStep == Typed /\ GivenOnce /\ OrdersOK /\ [Next]_vars => OrdersOK'
<1> SUFFICES ASSUME Typed, GivenOnce, OrdersOK, [Next]_vars PROVE OrdersOK'
  OBVIOUS
<1>1. \A w \in Wids : worker[w].pc \in {"offer", "sold"} => worker'[w].mint = worker[w].mint
  BY WorkersMove DEF WorkerMoves
<1>2. ASSUME NEW i \in 1..Len(sellQ)
      PROVE  /\ sellQ[i].from \in Wids /\ worker[sellQ[i].from].pc = "sold"
             /\ sellQ[i].mint = worker'[sellQ[i].from].mint
  <2>1. sellQ[i] \in Order
    BY DEF Typed, QueueOK
  <2>2. worker[sellQ[i].from].pc = "sold" /\ sellQ[i].mint = worker[sellQ[i].from].mint
    BY DEF GivenOnce, QueuedHaveSold, OrdersOK
  <2> QED
    BY <1>1, <2>1, <2>2 DEF Order
<1>3. \A i \in 1..Len(sellQ') : sellQ'[i].mint = worker'[sellQ'[i].from].mint
  <2>1. ASSUME NEW v \in Wids, WorkerOffer(v), NEW i \in 1..Len(sellQ')
        PROVE  sellQ'[i].mint = worker'[sellQ'[i].from].mint
    <3>1. worker'[v].mint = worker[v].mint
      BY <1>1, <2>1 DEF WorkerOffer
    <3>2. \/ i \in 1..Len(sellQ) /\ sellQ'[i] = sellQ[i]
          \/ sellQ'[i].mint = worker[v].mint /\ sellQ'[i].from = v
      BY <2>1, OfferQueues
    <3> QED
      BY <1>2, <3>1, <3>2
  <2>2. ASSUME TakeOrder, NEW i \in 1..Len(sellQ')
        PROVE  sellQ'[i].mint = worker'[sellQ'[i].from].mint
    <3>1. i + 1 \in 1..Len(sellQ) /\ sellQ'[i] = sellQ[i + 1]
      BY <2>2, TakeOrderMoves
    <3> QED
      BY <1>2, <3>1
  <2>3. ASSUME UNCHANGED sellQ, NEW i \in 1..Len(sellQ')
        PROVE  sellQ'[i].mint = worker'[sellQ'[i].from].mint
    BY <1>2, <2>3
  <2> QED
    BY <2>1, <2>2, <2>3, QueueMoves
<1>4. ASSUME NEW w \in Wids, seller'[w].pc # "none" PROVE seller'[w].mint = worker'[w].mint
  <2>1. SellerMoves(w)
    BY SellersMove
  <2>2. CASE seller[w].pc # "none"
    <3>1. seller[w].mint = worker[w].mint /\ worker[w].pc = "sold"
      BY <2>2 DEF OrdersOK, GivenOnce, SellersHaveSold
    <3>2. seller'[w].mint = seller[w].mint
      BY <2>1, <2>2 DEF SellerMoves
    <3> QED
      BY <1>1, <3>1, <3>2
  <2>3. CASE seller[w].pc = "none"
    <3>1. seller'[w].mint = worker[w].mint
      BY <1>4, <2>1, <2>3 DEF SellerMoves
    <3>2. TakeOrder /\ worker' = worker
      BY <1>4, <2>3, OnlyTakeOrder
    <3> QED
      BY <3>1, <3>2
  <2> QED
    BY <2>2, <2>3
<1> QED
  BY <1>3, <1>4 DEF OrdersOK

(***************************************************************************)
(* Senders                                                                 *)
(***************************************************************************)
\* A Sender that a step puts into the map or into the hands of the main loop was
\* there before, or is that of a new worker.
NewSender(w, m) == w \in Wids /\ worker'[w].pc = "select" /\ worker'[w].mint = m

MapSenders(m) == workers'[m] = workers[m] \/ workers'[m] = None \/ NewSender(workers'[m], m)

MainSender ==
  \/ main'.tx = None
  \/ /\ main'.tx = main.tx /\ main'.mint = main.mint /\ main.tx # None
     /\ \/ main' = main
        \/ /\ main.pc = "send" /\ main'.pc = "evict" /\ ~Alive(main.tx)
           /\ UNCHANGED worker
  \/ /\ main'.mint \in Mints /\ main'.tx = workers[main'.mint] /\ main'.pc = "send"
     /\ UNCHANGED <<worker, sellQ, seller>>
  \/ main'.pc = "send" /\ NewSender(main'.tx, main'.mint)

LEMMA SpawnsNew ==
  ASSUME Typed, NEW m \in Mints, NEW w \in Wids, SpawnWorker(m, w)
  PROVE  /\ NewSender(w, m) /\ workers'[m] = w
         /\ \A n \in Mints : n # m => workers'[n] = workers[n]
  BY DEF SpawnWorker, NewSender, Typed, MapsOK, WorkersOK

LEMMA MapMoves ==
  ASSUME Typed, [Next]_vars, NEW m \in Mints
  PROVE  MapSenders(m)
<1>1. ASSUME UNCHANGED workers PROVE MapSenders(m)
  BY <1>1 DEF MapSenders
<1>2. ASSUME NEW n \in Mints, NEW w \in Wids, SpawnWorker(n, w) PROVE MapSenders(m)
  BY <1>2, SpawnsNew DEF MapSenders
<1>3. ASSUME NEW n, workers' = [workers EXCEPT ![n] = None] PROVE MapSenders(m)
  BY <1>3 DEF MapSenders, Typed, MapsOK
<1>4. ASSUME MainStep PROVE MapSenders(m)
  <2>1. ASSUME RouteInsert PROVE MapSenders(m)
    BY <1>2, <2>1 DEF RouteInsert, Typed, MainOK
  <2>2. ASSUME RouteEvict PROVE MapSenders(m)
    BY <1>3, <2>2 DEF RouteEvict
  <2> QED
    BY <1>1, <1>4, <2>1, <2>2 DEF MainStep, TakeCreate, VetCreate, RegisterMeta, SpawnBuy,
       TakeTrade, RouteSend, RouteSendError, TakeOrder
<1>5. ASSUME NEW w \in Wids, WorkerStep(w) \/ SellStep(w) PROVE MapSenders(m)
  <2>1. ASSUME ForgetWorker(w) PROVE MapSenders(m)
    BY <1>3, <2>1 DEF ForgetWorker
  <2> QED
    BY <1>1, <1>5, <2>1 DEF WorkerStep, WorkerTrade, WorkerInactive, WorkerClosed,
       WorkerOffer, SellStep, SellTail, SellConfirmed, DeductBalance, DropMeta, PurgeCreated
<1>6. ASSUME NEW b \in Buys, BuyAnswer(b) \/ BuyTail(b) PROVE MapSenders(m)
  <2>1. ASSUME BuyInsert(b) PROVE MapSenders(m)
    BY <1>2, <2>1 DEF BuyInsert, Typed, BuyersOK
  <2> QED
    BY <1>1, <1>6, <2>1 DEF BuyAnswer, BuyTail, BuyConfirmed, BuyConfirmedBlind,
       BuyAbandoned, BuyMark, UpdateBalance, BuyEnsure
<1> QED
  BY <1>1, <1>4, <1>5, <1>6 DEF Next, Quiescent, vars

LEMMA MainMoves ==
  ASSUME Typed, SendersOK, [Next]_vars
  PROVE  MainSender
<1>1. ASSUME UNCHANGED main PROVE MainSender
  BY <1>1 DEF MainSender
<1>2. main \in MainTask
  BY DEF Typed, MainOK
<1>3. ASSUME MainStep PROVE MainSender
  <2>1. ASSUME NEW m \in Mints, TakeCreate(m) PROVE MainSender
    BY <1>2, <2>1 DEF TakeCreate, MainSender, SendersOK, MainTask
  <2>2. ASSUME VetCreate PROVE MainSender
    BY <1>2, <2>2 DEF VetCreate, MainSender, SendersOK, MainTask, Idle
  <2>3. ASSUME RegisterMeta PROVE MainSender
    BY <1>2, <2>3 DEF RegisterMeta, MainSender, SendersOK, MainTask
  <2>4. ASSUME NEW m \in Mints, NEW cap \in Caps, TakeTrade(m, cap) PROVE MainSender
    BY <2>4 DEF TakeTrade, MainSender
  <2>5. ASSUME RouteInsert PROVE MainSender
    <3>1. PICK w \in Wids : SpawnWorker(main.mint, w)
                            /\ main' = [main EXCEPT !.pc = "send", !.tx = w]
      BY <2>5 DEF RouteInsert
    <3>2. NewSender(w, main.mint)
      BY <2>5, <3>1, SpawnsNew DEF RouteInsert, Typed, MainOK
    <3>3. main'.pc = "send" /\ main'.tx = w /\ main'.mint = main.mint
      BY <1>2, <3>1 DEF MainTask
    <3> QED
      BY <3>2, <3>3 DEF MainSender
  <2>6. ASSUME RouteSendError PROVE MainSender
    BY <1>2, <2>6 DEF RouteSendError, MainSender, MainTask
  <2>7. ASSUME SpawnBuy \/ RouteSend \/ RouteEvict PROVE MainSender
    BY <2>7 DEF SpawnBuy, RouteSend, RouteEvict, MainSender, Idle
  <2>8. ASSUME TakeOrder PROVE MainSender
    BY <1>1, <2>8 DEF TakeOrder
  <2> QED
    BY <1>3, <2>1, <2>2, <2>3, <2>4, <2>5, <2>6, <2>7, <2>8 DEF MainStep
<1>4. ASSUME NEW w \in Wids, WorkerStep(w) \/ SellStep(w) PROVE MainSender
  BY <1>1, <1>4 DEF WorkerStep, WorkerTrade, WorkerInactive, WorkerClosed, WorkerOffer,
     SellStep, SellTail, SellConfirmed, DeductBalance, ForgetWorker, DropMeta, PurgeCreated
<1>5. ASSUME NEW b \in Buys, BuyAnswer(b) \/ BuyTail(b) PROVE MainSender
  BY <1>1, <1>5 DEF BuyAnswer, BuyTail, BuyConfirmed, BuyConfirmedBlind, BuyAbandoned,
     BuyMark, UpdateBalance, BuyEnsure, BuyInsert
<1> QED
  BY <1>1, <1>3, <1>4, <1>5 DEF Next, Quiescent, vars

\* SenderOf after the step.
StaysSender(w, m) == worker'[w].mint = m /\ worker'[w].pc \notin {"unborn", "closed"}

\* A worker does not leave for want of a Sender while there is one.
LEMMA SenderKept ==
  ASSUME Typed, [Next]_vars, NEW w \in Wids, NEW m, SenderOf(w, m), ~SendersGone(w)
  PROVE  StaysSender(w, m)
<1>1. WorkerMoves(w) /\ worker[w].pc \in WorkerPc
  BY WorkersMove DEF Typed, WorkersOK, WorkerTask
<1> QED
  BY <1>1 DEF WorkerMoves, SenderOf, StaysSender, WorkerPc

LEMMA SendersStep == Typed /\ SendersOK /\ [Next]_vars => SendersOK'
<1> SUFFICES ASSUME Typed, SendersOK, [Next]_vars PROVE SendersOK'
  OBVIOUS
<1>1. ASSUME NEW m \in Mints, workers[m] # None
      PROVE  StaysSender(workers[m], m)
  <2>1. workers[m] \in Wids /\ SenderOf(workers[m], m) /\ ~SendersGone(workers[m])
    BY <1>1 DEF SendersOK, SendersGone, Typed, MapsOK
  <2> QED
    BY <2>1, SenderKept
<1>2. ASSUME main.tx # None
      PROVE  main.tx \in Wids /\ StaysSender(main.tx, main.mint)
  <2>1. main.tx \in Wids /\ SenderOf(main.tx, main.mint) /\ ~SendersGone(main.tx)
    BY <1>2 DEF SendersOK, SendersGone, Typed, MainOK, MainTask
  <2> QED
    BY <2>1, SenderKept
<1>3. ASSUME NEW m \in Mints, workers'[m] # None PROVE StaysSender(workers'[m], m)
  BY <1>1, <1>3, MapMoves DEF MapSenders, NewSender, StaysSender
<1>4. ASSUME main'.tx # None
      PROVE  /\ main'.pc \in {"send", "evict"} /\ StaysSender(main'.tx, main'.mint)
             /\ main'.pc = "evict" => worker'[main'.tx].pc \notin {"select", "offer"}
  <2>1. MainSender
    BY MainMoves
  <2>2. CASE main'.tx = main.tx /\ main'.mint = main.mint /\ main.tx # None
    <3>1. /\ main.tx \in Wids /\ main.pc \in {"send", "evict"}
          /\ StaysSender(main'.tx, main'.mint)
      BY <1>2, <2>2 DEF SendersOK
    <3>2. main.pc = "evict" => worker'[main.tx].pc \notin {"select", "offer"}
      <4>1. WorkerMoves(main.tx) /\ worker[main.tx].pc \in WorkerPc
        BY <3>1, WorkersMove DEF Typed, WorkersOK, WorkerTask
      <4>2. main.pc = "evict" => worker[main.tx].pc \notin {"select", "offer", "unborn"}
        BY <2>2 DEF SendersOK, Alive, SenderOf
      <4> QED
        BY <4>1, <4>2 DEF WorkerMoves, WorkerPc
    <3>3. \/ main' = main
          \/ main'.pc = "evict" /\ ~Alive(main.tx) /\ UNCHANGED worker
          \/ main'.pc = "send"
      BY <1>4, <2>1 DEF MainSender
    <3> QED
      BY <2>2, <3>1, <3>2, <3>3 DEF Alive
  <2>3. CASE /\ main'.mint \in Mints /\ main'.tx = workers[main'.mint]
             /\ main'.pc = "send"
    BY <1>1, <1>4, <2>3
  <2>4. CASE main'.pc = "send" /\ NewSender(main'.tx, main'.mint)
    BY <2>4 DEF NewSender, StaysSender
  <2> QED
    BY <1>4, <2>1, <2>2, <2>3, <2>4 DEF MainSender
<1>5. main'.pc = "evict" => main'.tx # None
  <2>1. Typed'
    BY StepTyped
  <2> QED
    BY <2>1, ManagerAssumption DEF Typed, MainOK, ManagerAssumption
<1> QED
  BY <1>3, <1>4, <1>5 DEF SendersOK, SenderOf, StaysSender, Alive

(***************************************************************************)
(* Orders that have been given                                             *)
(***************************************************************************)
\* Unforgotten after the step.
StaysUnforgotten(w) ==
  \/ \E i \in 1..Len(sellQ') : sellQ'[i].from = w
  \/ seller'[w].pc \in {"trying", "deduct", "forget"}

\* A worker that has sold, or sells in this step, is unforgotten until its sell
\* task removes the Sender of its mint.
LEMMA UnforgottenKept ==
  ASSUME Typed, GivenOnce, OrdersOK, [Next]_vars, NEW w \in Wids,
         worker'[w].pc = "sold",
         worker[w].pc = "sold" => Unforgotten(w)
  PROVE  \/ StaysUnforgotten(w)
         \/ seller'[w].pc = "drop" /\ workers'[worker[w].mint] = None
<1>1. CASE worker[w].pc # "sold" \/ Queued(w)
  BY <1>1, QueueKept DEF StaysUnforgotten, Queued
<1>2. CASE seller[w].pc \in {"trying", "deduct", "forget"}
  <2>1. seller[w].mint = worker[w].mint
    BY <1>2 DEF OrdersOK
  <2>2. SellerMoves(w)
    BY SellersMove
  <2> QED
    BY <1>2, <2>1, <2>2 DEF SellerMoves, StaysUnforgotten
<1> QED
  BY <1>1, <1>2 DEF Unforgotten

\* A mint that has no meta while main routes a trade of it gets none meanwhile.
LEMMA NoMetaKept ==
  ASSUME Typed, [Next]_vars, NEW m \in Mints, metas[m] = None, main.pc # "register"
  PROVE  metas'[m] = None
<1>1. ASSUME UNCHANGED metas PROVE metas'[m] = None
  BY <1>1
<1>2. ASSUME MainStep PROVE metas'[m] = None
  BY <1>1, <1>2 DEF MainStep, TakeCreate, VetCreate, RegisterMeta, SpawnBuy, TakeTrade,
     RouteInsert, RouteSend, RouteSendError, RouteEvict, TakeOrder
<1>3. ASSUME NEW w \in Wids, WorkerStep(w) \/ SellStep(w) PROVE metas'[m] = None
  BY <1>1, <1>3 DEF WorkerStep, WorkerTrade, WorkerInactive, WorkerClosed, WorkerOffer,
     SellStep, SellTail, SellConfirmed, DeductBalance, ForgetWorker, DropMeta, PurgeCreated,
     Typed, MapsOK
<1>4. ASSUME NEW b \in Buys, BuyAnswer(b) \/ BuyTail(b) PROVE metas'[m] = None
  BY <1>1, <1>4 DEF BuyAnswer, BuyTail, BuyConfirmed, BuyConfirmedBlind, BuyAbandoned,
     BuyMark, UpdateBalance, BuyEnsure, BuyInsert, Typed, MapsOK
<1> QED
  BY <1>1, <1>2, <1>3, <1>4 DEF Next, Quiescent, vars

LEMMA SoldStep ==
  Typed /\ GivenOnce /\ OrdersOK /\ SendersOK /\ SoldOK /\ [Next]_vars => SoldOK'
<1> SUFFICES ASSUME Typed, GivenOnce, OrdersOK, SendersOK, SoldOK, [Next]_vars PROVE SoldOK'
  OBVIOUS
<1> USE ManagerAssumption DEF ManagerAssumption
<1>1. ASSUME NEW m \in Mints, workers'[m] # None, worker'[workers'[m]].pc = "sold"
      PROVE  StaysUnforgotten(workers'[m])
  <2>1. workers'[m] = workers[m]
    BY <1>1, MapMoves DEF MapSenders, NewSender
  <2>2. /\ workers[m] \in Wids /\ worker[workers[m]].mint = m
        /\ worker[workers[m]].pc = "sold" => Unforgotten(workers[m])
    BY <1>1, <2>1 DEF SendersOK, SenderOf, SoldOK, Typed, MapsOK
  <2> QED
    BY <1>1, <2>1, <2>2, UnforgottenKept
<1>2. ASSUME main'.tx # None, worker'[main'.tx].pc = "sold"
      PROVE  \/ StaysUnforgotten(main'.tx)
             \/ seller'[main'.tx].pc = "drop"
             \/ metas'[main'.mint] = None
  <2>1. MainSender
    BY MainMoves
  <2>2. CASE main'.tx = main.tx /\ main'.mint = main.mint /\ main.tx # None
    <3>1. /\ main.tx \in Wids /\ main.pc # "register" /\ main.mint \in Mints
          /\ worker[main.tx].mint = main.mint
      BY <2>2 DEF SendersOK, SenderOf, Typed, MainOK
    <3>2. CASE worker[main.tx].pc = "sold" => Unforgotten(main.tx)
      BY <1>2, <2>2, <3>1, <3>2, UnforgottenKept
    <3>3. CASE worker[main.tx].pc = "sold" /\ seller[main.tx].pc = "drop"
      <4>1. seller[main.tx].mint = main.mint
        BY <3>1, <3>3 DEF OrdersOK
      <4>2. SellerMoves(main.tx)
        BY <3>1, SellersMove
      <4>3. seller'[main.tx].pc = "drop" \/ metas'[main.mint] = None
        BY <3>3, <4>1, <4>2 DEF SellerMoves
      <4> QED
        BY <2>2, <4>3
    <3>4. CASE metas[main.mint] = None
      BY <2>2, <3>1, <3>4, NoMetaKept
    <3> QED
      BY <2>2, <3>2, <3>3, <3>4 DEF SoldOK
  <2>3. CASE /\ main'.mint \in Mints /\ main'.tx = workers[main'.mint]
             /\ UNCHANGED <<worker, sellQ, seller>>
    <3>1. Unforgotten(workers[main'.mint])
      BY <1>2, <2>3 DEF SoldOK
    <3> QED
      BY <2>3, <3>1 DEF Unforgotten, StaysUnforgotten, Queued
  <2> QED
    BY <1>2, <2>1, <2>2, <2>3 DEF MainSender, NewSender
<1> QED
  BY <1>1, <1>2 DEF SoldOK, Unforgotten, StaysUnforgotten, Queued

(***************************************************************************)
(* Who sells                                                               *)
(***************************************************************************)
\* A sell task goes on to guard the mint until it has dropped the meta.
LEMMA SellerGuards ==
  ASSUME Typed, GivenOnce, OrdersOK, [Next]_vars, NEW m \in Mints, Held(m)',
         NEW w \in Wids, seller[w].mint = m,
         seller[w].pc \in {"trying", "deduct", "forget", "drop"}
  PROVE  Guarded(m)'
<1>1. seller'[w].mint = m /\ seller'[w].pc \in {"trying", "deduct", "forget", "drop"}
  <2>1. SellerMoves(w)
    BY SellersMove
  <2> QED
    BY <2>1 DEF SellerMoves, Held
<1> QED
  BY <1>1 DEF Guarded, Watched, Clearing

\* An order guards the mint of its worker, in the channel or as a sell task.
LEMMA OrderGuards ==
  ASSUME Typed, GivenOnce, OrdersOK, [Next]_vars, NEW m \in Mints,
         NEW w \in Wids, worker'[w].mint = m, Queued(w) \/ Queued(w)'
  PROVE  Guarded(m)'
<1>1. OrdersOK'
  BY OrdersStep
<1>2. CASE Queued(w)'
  BY <1>1, <1>2 DEF Queued, OrdersOK, Guarded, Watched
<1>3. CASE seller'[w].pc = "trying"
  BY <1>1, <1>3 DEF OrdersOK, Guarded, Watched
<1> QED
  BY <1>2, <1>3, QueueKept

\* A worker of m that somebody has a Sender of, and that the map still names if it
\* runs, guards m, or has given up.
LEMMA SenderGuards ==
  ASSUME Typed, GivenOnce, OrdersOK, [Next]_vars, NEW m \in Mints, Held(m)',
         NEW w \in Wids, SenderOf(w, m), ~SendersGone(w),
         worker'[w].pc = "select" => workers'[m] = w,
         worker[w].pc = "sold" => Unforgotten(w) \/ seller[w].pc = "drop"
  PROVE  Guarded(m)'
<1>1. StaysSender(w, m) /\ WorkerMoves(w) /\ worker'[w].pc \in WorkerPc
  BY SenderKept, WorkersMove, StepTyped DEF Typed, WorkersOK, WorkerTask
<1>2. CASE worker'[w].pc \in {"select", "offer"}
  BY <1>1, <1>2 DEF StaysSender, Guarded, Watched
<1>3. CASE worker'[w].pc \in {"broke", "idle"}
  BY <1>1, <1>3 DEF StaysSender, Guarded, GaveUp
<1>4. CASE worker'[w].pc = "sold" /\ worker[w].pc # "sold"
  BY <1>1, <1>4, QueueKept, OrderGuards DEF StaysSender
<1>5. CASE worker[w].pc = "sold"
  <2>1. CASE Queued(w)
    BY <1>1, <2>1, OrderGuards DEF StaysSender
  <2>2. CASE seller[w].pc \in {"trying", "deduct", "forget", "drop"}
    <3>1. seller[w].mint = m
      BY <2>2 DEF OrdersOK, SenderOf
    <3> QED
      BY <2>2, <3>1, SellerGuards
  <2> QED
    BY <1>5, <2>1, <2>2 DEF Unforgotten
<1> QED
  BY <1>1, <1>2, <1>3, <1>4, <1>5 DEF WorkerPc, StaysSender

\* A Sender leaves the map only by an eviction or by the end of a sale.
LEMMA MapForgets ==
  ASSUME Typed, [Next]_vars, NEW m \in Mints, workers[m] # None, workers'[m] = None
  PROVE  \/ RouteEvict /\ main.mint = m
         \/ \E v \in Wids : ForgetWorker(v) /\ seller[v].mint = m
<1> USE ManagerAssumption DEF ManagerAssumption
<1>1. workers' # workers
  OBVIOUS
<1>2. ASSUME NEW n \in Mints, NEW w \in Wids, SpawnWorker(n, w) PROVE FALSE
  <2>1. workers'[m] = workers[m] \/ workers'[m] = w
    BY <1>2, SpawnsNew
  <2> QED
    BY <2>1
<1>3. ASSUME MainStep PROVE RouteEvict /\ main.mint = m
  <2>1. ASSUME RouteInsert PROVE FALSE
    BY <1>2, <2>1 DEF RouteInsert, Typed, MainOK
  <2>2. ASSUME RouteEvict PROVE main.mint = m
    BY <2>2 DEF RouteEvict, Typed, MapsOK
  <2> QED
    BY <1>1, <1>3, <2>1, <2>2 DEF MainStep, TakeCreate, VetCreate, RegisterMeta, SpawnBuy,
       TakeTrade, RouteSend, RouteSendError, TakeOrder
<1>4. ASSUME NEW w \in Wids, WorkerStep(w) \/ SellStep(w)
      PROVE  ForgetWorker(w) /\ seller[w].mint = m
  <2>1. ASSUME ForgetWorker(w) PROVE seller[w].mint = m
    BY <2>1 DEF ForgetWorker, Typed, MapsOK
  <2> QED
    BY <1>1, <1>4, <2>1 DEF WorkerStep, WorkerTrade, WorkerInactive, WorkerClosed,
       WorkerOffer, SellStep, SellTail, SellConfirmed, DeductBalance, DropMeta, PurgeCreated
<1>5. ASSUME NEW b \in Buys, BuyAnswer(b) \/ BuyTail(b) PROVE FALSE
  <2>1. ASSUME BuyInsert(b) PROVE FALSE
    BY <1>2, <2>1 DEF BuyInsert, Typed, BuyersOK
  <2> QED
    BY <1>1, <1>5, <2>1 DEF BuyAnswer, BuyTail, BuyConfirmed, BuyConfirmedBlind,
       BuyAbandoned, BuyMark, UpdateBalance, BuyEnsure
<1> QED
  BY <1>1, <1>3, <1>4, <1>5 DEF Next, Quiescent, vars

\* The registered worker guards its mint, and so does what takes its place.
LEMMA RegisteredGuards ==
  ASSUME Typed, GivenOnce, WatchInv, [Next]_vars, NEW m \in Mints, Held(m), Held(m)',
         workers[m] # None
  PROVE  Guarded(m)'
<1> DEFINE w == workers[m]
<1>1. /\ w \in Wids /\ SenderOf(w, m) /\ ~SendersGone(w)
      /\ worker[w].pc = "sold" => Unforgotten(w)
  BY DEF WatchInv, SendersOK, SoldOK, SendersGone, Typed, MapsOK
<1>2. CASE workers'[m] = workers[m]
  BY <1>1, <1>2, SenderGuards DEF WatchInv
<1>3. CASE NewSender(workers'[m], m)
  BY <1>3 DEF NewSender, Guarded, Watched
<1>4. CASE RouteEvict /\ main.mint = m
  <2>1. main.pc = "evict" /\ main.tx \in Wids /\ worker' = worker
    BY <1>4 DEF RouteEvict, Typed, MainOK
  <2>2. /\ SenderOf(main.tx, m) /\ ~SendersGone(main.tx)
        /\ worker[main.tx].pc # "select"
        /\ worker[main.tx].pc = "sold" => Unforgotten(main.tx) \/ seller[main.tx].pc = "drop"
    BY <1>4, <2>1, ManagerAssumption DEF WatchInv, SendersOK, SoldOK, SendersGone, Alive, Held,
       ManagerAssumption
  <2> QED
    BY <2>1, <2>2, SenderGuards DEF WatchInv
<1>5. ASSUME NEW v \in Wids, ForgetWorker(v), seller[v].mint = m PROVE Guarded(m)'
  <2>1. seller[v].pc = "forget"
    BY <1>5 DEF ForgetWorker
  <2> QED
    BY <1>5, <2>1, SellerGuards DEF WatchInv
<1> QED
  BY <1>2, <1>3, <1>4, <1>5, MapMoves, MapForgets DEF MapSenders

\* What moves a buy task that is about to ensure a worker.
LEMMA BuyerMoves ==
  ASSUME Typed, [Next]_vars, NEW b \in Buys, buyer[b].pc \in {"ensure", "insert"},
         buyer'[b] # buyer[b]
  PROVE  BuyEnsure(b) \/ BuyInsert(b)
<1>1. buyer' # buyer
  OBVIOUS
<1>2. ASSUME MainStep PROVE FALSE
  <2>1. ASSUME SpawnBuy PROVE FALSE
    BY <2>1 DEF SpawnBuy, FreshBuy, Typed, BuyersOK
  <2> QED
    BY <1>1, <1>2, <2>1 DEF MainStep, TakeCreate, VetCreate, RegisterMeta, TakeTrade,
       RouteInsert, RouteSend, RouteSendError, RouteEvict, TakeOrder
<1>3. ASSUME NEW w \in Wids, WorkerStep(w) \/ SellStep(w) PROVE FALSE
  BY <1>1, <1>3 DEF WorkerStep, WorkerTrade, WorkerInactive, WorkerClosed, WorkerOffer,
     SellStep, SellTail, SellConfirmed, DeductBalance, ForgetWorker, DropMeta, PurgeCreated
<1>4. ASSUME NEW c \in Buys, BuyAnswer(c) \/ BuyTail(c) PROVE BuyEnsure(b) \/ BuyInsert(b)
  <2>1. c = b
    BY <1>4 DEF BuyAnswer, BuyTail, BuyConfirmed, BuyConfirmedBlind, BuyAbandoned, BuyMark,
       UpdateBalance, BuyEnsure, BuyInsert, Typed, BuyersOK
  <2> QED
    BY <1>4, <2>1 DEF BuyAnswer, BuyTail, BuyConfirmed, BuyConfirmedBlind, BuyAbandoned,
       BuyMark, UpdateBalance
<1> QED
  BY <1>1, <1>2, <1>3, <1>4 DEF Next, Quiescent, vars

\* A buy task on its way to ensure_worker guards the mint, and so does the worker
\* that it finds or starts.
LEMMA BuyerGuards ==
  ASSUME Typed, GivenOnce, WatchInv, [Next]_vars, NEW m \in Mints, Held(m), Held(m)',
         NEW b \in Buys, buyer[b].mint = m, buyer[b].pc \in {"ensure", "insert"}
  PROVE  Guarded(m)'
<1>1. CASE workers[m] # None
  BY <1>1, RegisteredGuards
<1>2. ASSUME buyer'[b].mint = m, buyer'[b].pc \in {"ensure", "insert"} PROVE Guarded(m)'
  BY <1>2 DEF Guarded, Watched
<1>3. ASSUME BuyInsert(b) PROVE Guarded(m)'
  <2>1. PICK w \in Wids : SpawnWorker(m, w)
    BY <1>3 DEF BuyInsert
  <2> QED
    BY <2>1, SpawnsNew DEF NewSender, Guarded, Watched
<1>4. ASSUME BuyEnsure(b), workers[m] = None
      PROVE  buyer'[b].mint = m /\ buyer'[b].pc = "insert"
  BY <1>4 DEF BuyEnsure, Typed, BuyersOK, BuyerTask
<1>5. ASSUME buyer'[b] # buyer[b] PROVE BuyEnsure(b) \/ BuyInsert(b)
  BY <1>5, BuyerMoves
<1> QED
  BY <1>1, <1>2, <1>3, <1>4, <1>5

\* Tokens are held because they were before, or because a buy task has just
\* reported them and is about to ensure a worker.
LEMMA HeldMoves ==
  ASSUME Typed, [Next]_vars, NEW m \in Mints, Held(m)'
  PROVE  Held(m) \/ \E b \in Buys : buyer'[b].mint = m /\ buyer'[b].pc = "ensure"
<1>1. ASSUME UNCHANGED metas PROVE Held(m)
  BY <1>1 DEF Held
<1>2. ASSUME RegisterMeta PROVE Held(m)
  BY <1>2 DEF RegisterMeta, Held, Typed, MapsOK
<1>3. ASSUME NEW w \in Wids, DeductBalance(w) \/ DropMeta(w) PROVE Held(m)
  BY <1>3 DEF DeductBalance, DropMeta, Held, Typed, MapsOK
<1>4. ASSUME NEW b \in Buys, UpdateBalance(b)
      PROVE  Held(m) \/ (buyer'[b].mint = m /\ buyer'[b].pc = "ensure")
  <2>1. buyer'[b].mint = buyer[b].mint /\ buyer'[b].pc = "ensure"
    BY <1>4 DEF UpdateBalance, Typed, BuyersOK, BuyerTask
  <2>2. buyer[b].mint # m => metas'[m] = metas[m]
    BY <1>4 DEF UpdateBalance, Typed, MapsOK
  <2> QED
    BY <2>1, <2>2 DEF Held
<1>5. ASSUME MainStep PROVE Held(m)
  BY <1>1, <1>2, <1>5 DEF MainStep, TakeCreate, VetCreate, SpawnBuy, TakeTrade, RouteInsert,
     RouteSend, RouteSendError, RouteEvict, TakeOrder
<1>6. ASSUME NEW w \in Wids, WorkerStep(w) \/ SellStep(w) PROVE Held(m)
  BY <1>1, <1>3, <1>6 DEF WorkerStep, WorkerTrade, WorkerInactive, WorkerClosed, WorkerOffer,
     SellStep, SellTail, SellConfirmed, ForgetWorker, PurgeCreated
<1>7. ASSUME NEW b \in Buys, BuyAnswer(b) \/ BuyTail(b)
      PROVE  Held(m) \/ (buyer'[b].mint = m /\ buyer'[b].pc = "ensure")
  BY <1>1, <1>4, <1>7 DEF BuyAnswer, BuyTail, BuyConfirmed, BuyConfirmedBlind, BuyAbandoned,
     BuyMark, BuyEnsure, BuyInsert
<1> QED
  BY <1>1, <1>5, <1>6, <1>7 DEF Next, Quiescent, vars

\* Whoever guards a mint goes on, or hands over, as long as something is held.
LEMMA GuardStep ==
  ASSUME Typed, GivenOnce, WatchInv, [Next]_vars, NEW m \in Mints, Held(m)'
  PROVE  Guarded(m)'
<1>1. CASE ~Held(m)
  BY <1>1, HeldMoves DEF Guarded, Watched
<1>2. CASE Held(m)
  <2>1. Guarded(m)
    BY <1>2 DEF WatchInv, UnwatchedOnlyAfterBroke, Guarded
  <2>2. ASSUME NEW w \in Wids, worker[w].mint = m, worker[w].pc = "select", workers[m] = w
        PROVE  Guarded(m)'
    BY <1>2, <2>2, RegisteredGuards, ManagerAssumption DEF ManagerAssumption
  <2>3. ASSUME NEW w \in Wids, worker[w].mint = m, worker[w].pc = "offer" PROVE Guarded(m)'
    <3>1. worker'[w].mint = m /\ worker'[w].pc \in {"offer", "sold"}
      BY <2>3, WorkersMove DEF WorkerMoves
    <3>2. CASE worker'[w].pc = "offer"
      BY <3>1, <3>2 DEF Guarded, Watched
    <3>3. CASE worker'[w].pc = "sold"
      BY <2>3, <3>1, <3>3, QueueKept, OrderGuards DEF WatchInv
    <3> QED
      BY <3>1, <3>2, <3>3
  <2>4. ASSUME NEW i \in 1..Len(sellQ), sellQ[i].mint = m PROVE Guarded(m)'
    <3>1. sellQ[i].from \in Wids /\ worker[sellQ[i].from].pc = "sold"
          /\ worker[sellQ[i].from].mint = m
      <4>1. sellQ[i] \in Order
        BY DEF Typed, QueueOK
      <4> QED
        BY <2>4, <4>1 DEF Order, WatchInv, OrdersOK, GivenOnce, QueuedHaveSold
    <3>2. worker'[sellQ[i].from].mint = m
      BY <3>1, WorkersMove DEF WorkerMoves
    <3>3. Queued(sellQ[i].from)
      BY DEF Queued
    <3> QED
      BY <3>1, <3>2, <3>3, OrderGuards DEF WatchInv
  <2>5. ASSUME NEW w \in Wids, seller[w].mint = m,
               seller[w].pc \in {"trying", "deduct", "forget", "drop"}
        PROVE  Guarded(m)'
    BY <2>5, SellerGuards DEF WatchInv
  <2>6. ASSUME NEW b \in Buys, buyer[b].mint = m, buyer[b].pc \in {"ensure", "insert"}
        PROVE  Guarded(m)'
    BY <1>2, <2>6, BuyerGuards
  <2>7. ASSUME NEW w \in Wids, worker[w].mint = m, worker[w].pc \in {"broke", "idle"}
        PROVE  Guarded(m)'
    BY <2>7, WorkersMove DEF WorkerMoves, Guarded, GaveUp
  <2> QED
    BY <2>1, <2>2, <2>3, <2>4, <2>5, <2>6, <2>7 DEF Guarded, Watched, Clearing, GaveUp
<1> QED
  BY <1>1, <1>2

LEMMA WatchInit == Init => WatchInv
  BY DEF Init, WatchInv, SendersOK, OrdersOK, SoldOK, UnwatchedOnlyAfterBroke, Held, Idle

LEMMA WatchStep == Typed /\ GivenOnce /\ WatchInv /\ [Next]_vars => WatchInv'
<1> SUFFICES ASSUME Typed, GivenOnce, WatchInv, [Next]_vars PROVE WatchInv'
  OBVIOUS
<1>1. SendersOK' /\ OrdersOK' /\ SoldOK'
  BY SendersStep, OrdersStep, SoldStep DEF WatchInv
<1>2. UnwatchedOnlyAfterBroke'
  BY GuardStep DEF UnwatchedOnlyAfterBroke, Guarded
<1> QED
  BY <1>1, <1>2 DEF WatchInv

\* What the bot holds is going to be sold by somebody, unless a worker of the
\* mint has seen a threshold or a silence with nothing to sell, or a sale of an
\* earlier life of the mint is clearing the maps: for every number of mints,
\* workers, buys and Creates (token_manager.rs:91-194, main.rs:317-327, 415-421).
THEOREM PositionIsWatched == Spec => []UnwatchedOnlyAfterBroke
<1>1. Init => Typed /\ GivenOnce /\ WatchInv
  BY InitTyped, GivenInit, WatchInit
<1>2. Typed /\ GivenOnce /\ WatchInv /\ [Next]_vars => (Typed /\ GivenOnce /\ WatchInv)'
  BY StepTyped, GivenStep, WatchStep
<1>3. WatchInv => UnwatchedOnlyAfterBroke
  BY DEF WatchInv
<1> QED
  BY <1>1, <1>2, <1>3, PTL DEF Spec

=============================================================================
